------------------------------ MODULE ItemPool ------------------------------
(***************************************************************************)
(* What src/Sysv/ProdConsumer.c promises: a pool of numbered items.  The   *)
(* producer adds items 0, 1, 2...; a consumer takes any one of them out,   *)
(* and what has been taken is never seen again.                            *)
(***************************************************************************)
EXTENDS Naturals

VARIABLES pool, taken, next       \* items in the pool, items out, next number

Init == pool = {} /\ taken = {} /\ next = 0

Add == /\ pool' = pool \cup {next} /\ next' = next + 1
       /\ UNCHANGED taken

Take == \E x \in pool : /\ pool' = pool \ {x} /\ taken' = taken \cup {x}
                        /\ UNCHANGED next

Spec == Init /\ [][Add \/ Take]_<<pool, taken, next>>

=============================================================================
