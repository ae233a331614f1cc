---------------------------- MODULE MCSortService ----------------------------
(* Arguments for TLC: an empty word, a short one, one longer than temp.    *)
EXTENDS SortService

MCWords == {<<>>, <<2>>, <<1, 2, 1>>}

=============================================================================
