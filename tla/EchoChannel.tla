---------------------------- MODULE EchoChannel ----------------------------
(***************************************************************************)
(* What a client of an echo server relies on: what it sends goes into a    *)
(* channel that keeps a limited number of bytes and gives them back in     *)
(* order, none lost, none twice.  Bytes are counted; the k-th byte out is  *)
(* the k-th byte in.                                                       *)
(***************************************************************************)
EXTENDS Integers

CONSTANTS Client, Capacity

VARIABLES in, out                 \* bytes sent and received by each client

Init == in = [c \in Client |-> 0] /\ out = [c \in Client |-> 0]

Put(c) == \E n \in 1..(Capacity + out[c] - in[c]) :
              in' = [in EXCEPT ![c] = @ + n] /\ UNCHANGED out

Get(c) == \E n \in 1..(in[c] - out[c]) :
              out' = [out EXCEPT ![c] = @ + n] /\ UNCHANGED in

Next == \E c \in Client : Put(c) \/ Get(c)

Spec == Init /\ [][Next]_<<in, out>>

=============================================================================
