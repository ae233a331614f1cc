------------------------------- MODULE Dining -------------------------------
(***************************************************************************)
(* The dining table, as the three dining-philosopher programs of src/Sysv  *)
(* promise it to be, with no semaphore, signal or process in sight: every  *)
(* chopstick is on the table or in the hand of one of the two philosophers *)
(* it lies between, and a philosopher eats with both of his.               *)
(***************************************************************************)
EXTENDS Integers

CONSTANT NPHIL                    \* number of philosophers and of chopsticks

Phil == 0..(NPHIL - 1)
Chopstick == 0..(NPHIL - 1)
OnTable == NPHIL                  \* the owner of a chopstick nobody holds

Left(p) == p
Right(p) == (p + 1) % NPHIL
Mine(p) == {Left(p), Right(p)}

VARIABLES owner,                  \* who holds each chopstick
          eating                  \* the philosophers who are eating

vars == <<owner, eating>>

TypeOK == /\ owner \in [Chopstick -> Phil \cup {OnTable}]
          /\ eating \subseteq Phil

Init == /\ owner = [c \in Chopstick |-> OnTable]
        /\ eating = {}

(* A philosopher picks up some of his chopsticks, all of them free.  He    *)
(* eats as soon as he has both.                                            *)
PickUp(p, S) ==
    /\ \A c \in S : owner[c] = OnTable
    /\ owner' = [c \in Chopstick |-> IF c \in S THEN p ELSE owner[c]]
    /\ eating' = IF \A c \in Mine(p) : owner'[c] = p
                 THEN eating \cup {p} ELSE eating

(* A philosopher puts down some of the chopsticks he holds, or all of them *)
(* when he leaves the table, and eats no more.                             *)
PutDown(p, S) ==
    /\ \A c \in S : owner[c] = p
    /\ owner' = [c \in Chopstick |-> IF c \in S THEN OnTable ELSE owner[c]]
    /\ eating' = eating \ {p}

Next == \E p \in Phil : \E S \in SUBSET Mine(p) : PickUp(p, S) \/ PutDown(p, S)

Spec == Init /\ [][Next]_vars

=============================================================================
