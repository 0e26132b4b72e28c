------------------------------- MODULE MCSync -------------------------------
(* Instances of Sync: a line of three nodes, and a pair.                   *)
EXTENDS Sync

\* a and b dial c and hold different parts of the same chain.
Three == { "a", "b", "c" }
ThreeDials == { <<"a", "c">>, <<"b", "c">> }
ThreeTips == [ n \in Three |->
    CASE n = "a" -> << "a", "a" >>
      [] n = "b" -> << "a" >>
      [] n = "c" -> << >> ]
OnlyB == { "b" }
OnlyA == { "a" }

Pair == { "a", "c" }
PairDials == { <<"c", "a">> }
LongTips == [ n \in Pair |-> IF n = "a" THEN << "a", "a", "a", "a" >> ELSE << >> ]
Nobody == { }
=============================================================================
