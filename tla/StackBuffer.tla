---------------------------- MODULE StackBuffer -----------------------------
(***************************************************************************)
(* src/Sysv/ProdConsumer.c: a producer and two consumers share a work area *)
(* of BUFFERSIZE bytes.  Items are arrays of ints, stacked one after the   *)
(* other: ptrs[] and sizes[] say where each begins and how long it is,     *)
(* *last is the top of the stack.  LOCK guards the area, NITEMS counts the *)
(* items, and FREESPACE the bytes: one semop() takes a whole item's worth. *)
(* When the producer has stored all its items the parent removes the       *)
(* semaphores and sends SIGINT to the whole process group.                 *)
(***************************************************************************)
EXTENDS Integers, FiniteSets

CONSTANTS BUFFERSIZE,             \* bytes of the work area (4096)
          WORD,                   \* sizeof(int)
          NPUT,                   \* items the producer stores (2000)
          Consumer,               \* the consumer processes
          ForkMayFail             \* fork() may return -1

ASSUME SizeAssumption == /\ WORD \in Nat \ {0}
                         /\ BUFFERSIZE \in Nat /\ BUFFERSIZE >= 2 * WORD
                         /\ NPUT \in Nat
ASSUME ConsumerAssumption == IsFiniteSet(Consumer)
ASSUME ForkAssumption == ForkMayFail \in BOOLEAN

Byte == 0..(BUFFERSIZE - 1)
Index == 0..(BUFFERSIZE \div WORD - 1)      \* of ptrs[] and sizes[]
Size == 1..(BUFFERSIZE \div WORD - 1)       \* of an item, in ints; 0 is skipped
NoItem == [n |-> -1, size |-> 0, whole |-> TRUE]

VARIABLES LOCK, NITEMS, FREESPACE,          \* the semaphores
          removed,                          \* IPC_RMID has been done
          a, ptrs, sizes, last,             \* the shared memory
          pcP, n, size,                     \* producer, and main around it
          pcC, item,                        \* consumers; what each copied out
          sigint,                           \* SIGINT sent to each consumer
          taken                             \* history: items copied out

sems == <<LOCK, NITEMS, FREESPACE>>
shm == <<a, ptrs, sizes, last>>
vars == <<sems, removed, shm, pcP, n, size, pcC, item, sigint, taken>>

TypeOK ==
    /\ LOCK \in Nat /\ NITEMS \in Nat /\ FREESPACE \in Nat
    /\ removed \in BOOLEAN
    /\ a \in [Byte -> -1..NPUT]
    /\ ptrs \in [Index -> Byte] /\ sizes \in [Index -> Size \cup {0}]
    /\ last \in Index \cup {-1}
    /\ pcP \in {"fork", "next", "space", "lock", "copy", "unlock", "items",
                "remove", "kill", "end"}
    /\ n \in 0..NPUT /\ size \in Size \cup {0}
    /\ pcC \in [Consumer -> {"none", "items", "lock", "copy", "unlock", "space", "gone"}]
    /\ item \in [Consumer -> [n : -1..NPUT, size : Size \cup {0}, whole : BOOLEAN]]
    /\ sigint \in [Consumer -> BOOLEAN]
    /\ taken \subseteq 0..NPUT

Init ==
    /\ LOCK = 1 /\ NITEMS = 0 /\ FREESPACE = BUFFERSIZE
    /\ removed = FALSE
    /\ a = [b \in Byte |-> -1]
    /\ ptrs = [j \in Index |-> 0] /\ sizes = [j \in Index |-> 0] /\ last = -1
    /\ pcP = "fork" /\ n = 0 /\ size = 0
    /\ pcC = [c \in Consumer |-> "none"]
    /\ item = [c \in Consumer |-> NoItem]
    /\ sigint = [c \in Consumer |-> FALSE]
    /\ taken = {}

-----------------------------------------------------------------------------
(* main() forks once, the child forks again: all consumers run, or none.   *)
(* The first fork() failing ends the parent, the second only the child.    *)
Fork ==
    /\ pcP = "fork"
    /\ \/ pcC' = [c \in Consumer |-> "items"] /\ pcP' = "next"
       \/ ForkMayFail /\ pcC' = [c \in Consumer |-> "gone"] /\ pcP' \in {"next", "end"}
    /\ UNCHANGED <<sems, removed, shm, n, size, item, sigint, taken>>

(* The producer: the size of the next item, in ints.                       *)
NextItem ==
    /\ pcP = "next" /\ n < NPUT
    /\ size' \in Size
    /\ pcP' = "space"
    /\ UNCHANGED <<sems, removed, shm, n, pcC, item, sigint, taken>>

TakeSpace ==
    /\ pcP = "space" /\ FREESPACE >= size * WORD
    /\ FREESPACE' = FREESPACE - size * WORD
    /\ pcP' = "lock"
    /\ UNCHANGED <<LOCK, NITEMS, removed, shm, n, size, pcC, item, sigint, taken>>

ProducerLock ==
    /\ pcP = "lock" /\ LOCK > 0
    /\ LOCK' = LOCK - 1
    /\ pcP' = "copy"
    /\ UNCHANGED <<NITEMS, FREESPACE, removed, shm, n, size, pcC, item, sigint, taken>>

(* Mutant of CurPos: ints taken for bytes.                                 *)
CurPosInInts == IF last < 0 THEN 0 ELSE ptrs[last] + sizes[last]

(* The first byte after the last item.                                     *)
CurPos == IF last < 0 THEN 0 ELSE ptrs[last] + sizes[last] * WORD

Bytes(from, ints) == from..(from + ints * WORD - 1)

Push ==
    /\ pcP = "copy"
    /\ last' = last + 1
    /\ sizes' = [sizes EXCEPT ![last + 1] = size]
    /\ ptrs' = [ptrs EXCEPT ![last + 1] = CurPos]
    /\ a' = [b \in Byte |-> IF b \in Bytes(CurPos, size) THEN n ELSE a[b]]
    /\ pcP' = "unlock"
    /\ UNCHANGED <<sems, removed, n, size, pcC, item, sigint, taken>>

ProducerUnlock ==
    /\ pcP = "unlock"
    /\ LOCK' = LOCK + 1
    /\ n' = n + 1
    /\ pcP' = "items"
    /\ UNCHANGED <<NITEMS, FREESPACE, removed, shm, size, pcC, item, sigint, taken>>

PostItem ==
    /\ pcP = "items"
    /\ NITEMS' = NITEMS + 1
    /\ pcP' = "next"
    /\ UNCHANGED <<LOCK, FREESPACE, removed, shm, n, size, pcC, item, sigint, taken>>

(* The parent after its NPUT items.                                        *)
ProducerDone ==
    /\ pcP = "next" /\ n = NPUT
    /\ pcP' = "remove"
    /\ UNCHANGED <<sems, removed, shm, n, size, pcC, item, sigint, taken>>

RemoveIpc ==
    /\ pcP = "remove"
    /\ removed' = TRUE
    /\ pcP' = "kill"
    /\ UNCHANGED <<sems, shm, n, size, pcC, item, sigint, taken>>

(* kill(0, SIGINT): the parent dies of it too.                             *)
KillGroup ==
    /\ pcP = "kill"
    /\ sigint' = [c \in Consumer |-> pcC[c] # "gone"]
    /\ pcP' = "end"
    /\ UNCHANGED <<sems, removed, shm, n, size, pcC, item, taken>>

-----------------------------------------------------------------------------
(* A consumer.                                                             *)
Moves(c, from, to) == pcC[c] = from /\ pcC' = [pcC EXCEPT ![c] = to]

WaitItem(c) ==
    /\ Moves(c, "items", "lock") /\ ~removed
    /\ NITEMS > 0 /\ NITEMS' = NITEMS - 1
    /\ UNCHANGED <<LOCK, FREESPACE, removed, shm, pcP, n, size, item, sigint, taken>>

ConsumerLock(c) ==
    /\ Moves(c, "lock", "copy") /\ ~removed
    /\ LOCK > 0 /\ LOCK' = LOCK - 1
    /\ UNCHANGED <<NITEMS, FREESPACE, removed, shm, pcP, n, size, item, sigint, taken>>

(* Mutant of Pop: last is not decremented.                                 *)
Peek(c) ==
    /\ Moves(c, "copy", "unlock")
    /\ LET num == a[ptrs[last]] IN
       /\ item' = [item EXCEPT ![c] = [n |-> num, size |-> sizes[last], whole |-> TRUE]]
       /\ taken' = taken \cup {num}
    /\ UNCHANGED <<sems, removed, shm, pcP, n, size, sigint>>

(* The top of the stack, copied out.  whole: every int read is of one item *)
(* and the item is of the length read.                                     *)
Pop(c) ==
    /\ Moves(c, "copy", "unlock")
    /\ LET read == Bytes(ptrs[last], sizes[last])
           num == a[ptrs[last]] IN
       /\ item' = [item EXCEPT ![c] =
              [n |-> num, size |-> sizes[last], whole |-> \A b \in read : a[b] = num]]
       /\ taken' = taken \cup {num}
    /\ last' = last - 1
    /\ UNCHANGED <<sems, removed, a, ptrs, sizes, pcP, n, size, sigint>>

ConsumerUnlock(c) ==
    /\ Moves(c, "unlock", "space") /\ ~removed
    /\ LOCK' = LOCK + 1
    /\ UNCHANGED <<NITEMS, FREESPACE, removed, shm, pcP, n, size, item, sigint, taken>>

(* Mutant of GiveSpace: FreeSpace(size), ints for bytes.                   *)
GiveSpaceInInts(c) ==
    /\ Moves(c, "space", "items") /\ ~removed
    /\ FREESPACE' = FREESPACE + item[c].size
    /\ UNCHANGED <<LOCK, NITEMS, removed, shm, pcP, n, size, item, sigint, taken>>

GiveSpace(c) ==
    /\ Moves(c, "space", "items") /\ ~removed
    /\ FREESPACE' = FREESPACE + item[c].size * WORD
    /\ UNCHANGED <<LOCK, NITEMS, removed, shm, pcP, n, size, item, sigint, taken>>

(* EIDRM, or SIGINT.                                                       *)
ConsumerEnds(c) ==
    /\ pcC[c] \notin {"none", "gone"}
    /\ sigint[c] \/ (removed /\ pcC[c] # "copy")
    /\ pcC' = [pcC EXCEPT ![c] = "gone"]
    /\ sigint' = [sigint EXCEPT ![c] = FALSE]
    /\ UNCHANGED <<sems, removed, shm, pcP, n, size, item, taken>>

-----------------------------------------------------------------------------
Producer == \/ Fork \/ NextItem \/ TakeSpace \/ ProducerLock \/ Push
            \/ ProducerUnlock \/ PostItem \/ ProducerDone \/ RemoveIpc \/ KillGroup
Consume(c) == \/ WaitItem(c) \/ ConsumerLock(c) \/ Pop(c) \/ ConsumerUnlock(c)
              \/ GiveSpace(c) \/ ConsumerEnds(c)

Next == Producer \/ \E c \in Consumer : Consume(c)

Spec == Init /\ [][Next]_vars

(* Every process that can run does.                                        *)
FairSpec == Spec /\ WF_vars(Producer) /\ \A c \in Consumer : WF_vars(Consume(c))

-----------------------------------------------------------------------------
(* Properties.                                                             *)
Stack == {j \in Index : j <= last}
At(pcs) == {c \in Consumer : pcC[c] \in pcs}
Owed(b, x) == IF b THEN x ELSE 0           \* x when the producer is at b

(* While the semaphores exist, every byte is free, in an item of the stack,*)
(* or with the process that is about to store into it or to give it back:  *)
(* the space one side takes in one semop() is what the other side returns. *)
Used == UNION {Bytes(ptrs[j], sizes[j]) : j \in Stack}
InHand == {p \in Consumer \X (1..BUFFERSIZE) :
               p[1] \in At({"unlock", "space"}) /\ p[2] <= item[p[1]].size * WORD}
SpaceAccounted ==
    ~removed =>
        FREESPACE + Cardinality(Used) + Cardinality(InHand)
                  + Owed(pcP \in {"lock", "copy"}, size * WORD)
          = BUFFERSIZE

(* As many items as NITEMS says, but for those just pushed and not yet     *)
(* counted and those counted off and not yet popped: no consumer finds the *)
(* stack empty.                                                            *)
ItemsAccounted ==
    ~removed =>
        last + 1 = NITEMS + Cardinality(At({"lock", "copy"}))
                   + Owed(pcP \in {"unlock", "items"}, 1)

(* One process at a time is inside the area that LOCK guards.              *)
OneInArea ==
    Cardinality(At({"copy", "unlock"})) + Owed(pcP \in {"copy", "unlock"}, 1)
        <= 1

(* The items on the stack lie end to end inside the work area, and each is *)
(* intact: no copy ever went into bytes that an item uses.  What consumers *)
(* have copied out is one item each, complete.                             *)
StackIntact ==
    /\ \A j \in Stack :
          /\ ptrs[j] = IF j = 0 THEN 0 ELSE ptrs[j - 1] + sizes[j - 1] * WORD
          /\ ptrs[j] + sizes[j] * WORD <= BUFFERSIZE
          /\ \A b \in Bytes(ptrs[j], sizes[j]) : a[b] = a[ptrs[j]]
    /\ \A c \in Consumer : item[c].whole

(* The three semaphores together protect the work area: what they count    *)
(* agrees with the stack, and the stack with the bytes.                    *)
WorkAreaIntact == TypeOK /\ SpaceAccounted /\ ItemsAccounted /\ OneInArea /\ StackIntact

(* What every step keeps, besides the properties: where the processes are,*)
(* what LOCK counts, that the items lie in the order of the stack from the *)
(* first byte on, and that each is there once.                             *)
Points ==
    /\ pcP = "fork" => \A c \in Consumer : pcC[c] = "none"
    /\ pcP \in {"space", "lock", "copy"} => size \in Size
    /\ pcP \in {"space", "lock", "copy", "unlock"} => n < NPUT
    /\ removed => pcP \in {"kill", "end"}
    /\ pcP = "kill" => removed
    /\ \A c \in Consumer : /\ sigint[c] => removed
                           /\ pcC[c] = "copy" => last >= 0

LockAccounted ==
    ~removed => LOCK + Cardinality(At({"copy", "unlock"})) + Owed(pcP \in {"copy", "unlock"}, 1) = 1

Layout ==
    /\ \A j \in Stack : sizes[j] >= 1 /\ ptrs[j] >= j * WORD
    /\ \A j, k \in Stack : j < k => ptrs[j] + sizes[j] * WORD <= ptrs[k]
    /\ Used = 0..(CurPos - 1)

Stored == n + Owed(pcP = "unlock", 1)
Numbering ==
    /\ \A j \in Stack : a[ptrs[j]] \in 0..(Stored - 1)
    /\ \A j, k \in Stack : a[ptrs[j]] = a[ptrs[k]] => j = k

Inv == WorkAreaIntact /\ Points /\ LockAccounted /\ Layout /\ Numbering

(* The parent gets through all its items, however large, and takes the     *)
(* consumers with it: no process stays blocked on a semaphore, unless the  *)
(* second fork() failed and there is nobody to make space.                 *)
EverybodyGone == pcP = "end" /\ \A c \in Consumer : pcC[c] = "gone"
NoConsumers == ~removed /\ \A c \in Consumer : pcC[c] = "gone"
Termination == <>(EverybodyGone \/ NoConsumers)

(* The stack implements the pool: an item is taken once, as it was put in, *)
(* and every item put in is in the pool until it is taken.                 *)
Contents == {a[ptrs[j]] : j \in Stack}
Pool == INSTANCE ItemPool WITH
    pool <- Contents,
    next <- Stored
PoolSpec == Pool!Spec

=============================================================================
