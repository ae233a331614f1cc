-------------------------- MODULE MCBoundedBuffer ---------------------------
(* Values for the constants of BoundedBuffer.                              *)
EXTENDS BoundedBuffer

MCInput == <<"a", "b", "c", "d", "e", "f", "g">>
MCUpper == [c \in {"nul"} \cup {"a", "b", "c", "d", "e", "f", "g"}
                          \cup {"A", "B", "C", "D", "E", "F", "G"} |->
               CASE c = "a" -> "A" [] c = "b" -> "B" [] c = "c" -> "C"
                 [] c = "d" -> "D" [] c = "e" -> "E" [] c = "f" -> "F"
                 [] c = "g" -> "G" [] OTHER -> c]
AnyId == {-1, 0, 1}

=============================================================================
