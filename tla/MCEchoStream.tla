---------------------------- MODULE MCEchoStream ----------------------------
(* Values for the constants of EchoStream: each client asks another port.  *)
EXTENDS EchoStream

CONSTANTS k1, k2
MCPort == [c \in {k1, k2} |-> IF c = k2 THEN 2 ELSE 1]

=============================================================================
