----------------------------- MODULE DelayLine ------------------------------
(***************************************************************************)
(* What a producer and a consumer see of src/Sysv/prodconsumer0.c and      *)
(* prodconsumer2.c: a first-in first-out queue of at most BUFSIZE          *)
(* characters that is full of NULs to begin with.  The consumer may vanish *)
(* while it holds the character it took last.                              *)
(***************************************************************************)
EXTENDS Naturals, Sequences

CONSTANTS BUFSIZE,                \* capacity
          NUL,                    \* content of a fresh shared memory segment
          Char                    \* the characters the producer may read

VARIABLE queue

TypeOK == queue \in Seq(Char \cup {NUL}) /\ Len(queue) <= BUFSIZE

Init == queue = [j \in 1..BUFSIZE |-> NUL]

Put(c) == Len(queue) < BUFSIZE /\ queue' = Append(queue, c)
Get == queue # <<>> /\ queue' = Tail(queue)

Next == Get \/ \E c \in Char : Put(c)

Spec == Init /\ [][Next]_queue

=============================================================================
