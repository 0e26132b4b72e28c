---------------------------- MODULE MCDifficulty ----------------------------
(* A small instance of Difficulty: base 4 and six digits, so that scores,  *)
(* mantissas and exponents all reach their limits.                         *)
EXTENDS Difficulty

\* Out of order, fast, on time, slow, and beyond the clamp of 6 T.
MCSolveTimes == { -20, 1, 2, 3, 13 }

\* Beyond the first byte and easier than the floor, denormal, hard, and a target
\* of zero.
MCPeerCompacts ==
    { Compact(7, 63), Compact(5, 1), Compact(3, 40), Compact(2, 1) }

NoCompacts == { }
=============================================================================
