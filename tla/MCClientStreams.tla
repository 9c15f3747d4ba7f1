--------------------------- MODULE MCClientStreams ---------------------------
(* The instance: a first block of two bytes, an empty one, then one byte.    *)
EXTENDS ClientStreams, TLC

MCSize == [i \in 0 .. MaxLen - 1 |-> CASE i = 0 -> 2 [] i = 1 -> 0 [] OTHER -> 1]

MCSteps == {-1}

MCOffset == [i \in 0 .. MaxLen |-> CASE i = 0 -> 0 [] i \in {1, 2} -> 2
                                     [] OTHER -> i]
=============================================================================
