----------------------------- MODULE Difficulty -----------------------------
(***************************************************************************)
(* Compact targets, difficulty scores and the LWMA rule of                 *)
(* consensus/pow.rs, and the chain of headers they drive.                  *)
(*                                                                         *)
(* A target is a number of `Bytes' digits in base `Base' (32 bytes in the  *)
(* code) and a compact a pair of an exponent and a mantissa of three       *)
(* digits.  Comparing hash and target byte by byte is comparing numbers.   *)
(* All sums of the code stay far below the width of its integers: a score  *)
(* is less than 32 * 2^24, and 60 of them less than 2^35.                  *)
(***************************************************************************)
EXTENDS Integers, Sequences, SequencesExt

CONSTANTS
    Base,                \* 256 in the code
    Bytes,               \* 32 in the code
    LWMA_WINDOW,         \* 60 in the code
    TARGET_BLOCK_TIME,   \* 60 in the code
    Unreachable,         \* the score u64::MAX
    SolveTimes,          \* seconds from a block to the next, as headers say
    PeerCompacts,        \* difficulties that the headers of peers may carry
    MaxHeight            \* bound: no block is added above this height

Unit == Base * Base * Base   \* the number of mantissas, 2^24 in the code

ASSUME DifficultyAssumption ==
    /\ Base \in Nat \ {0, 1}
    /\ Bytes \in Nat /\ Bytes >= 3
    /\ LWMA_WINDOW \in Nat \ {0}
    /\ TARGET_BLOCK_TIME \in Nat \ {0}
    /\ Unreachable \in Nat
    /\ SolveTimes \subseteq Int
    /\ PeerCompacts \subseteq [ exp : Nat, mantissa : 0 .. Unit - 1 ]
    /\ MaxHeight \in Nat

Compact(exp, mantissa) == [ exp |-> exp, mantissa |-> mantissa ]

INITIAL_DIFFICULTY == Compact(Bytes - 1, Base * Base - 1)
MIN_DIFFICULTY == Compact(Bytes, Base * Base - 1)

Larger(a, b) == IF a >= b THEN a ELSE b
Smaller(a, b) == IF a <= b THEN a ELSE b
Clamp(x, low, high) == Smaller(Larger(x, low), high)

\* The weight of the digit with n digits to its right.
Power[n \in 0 .. Bytes] == IF n = 0 THEN 1 ELSE Base * Power[n - 1]

\* The target a compact stands for.  Digits that fall off the right end are
\* lost; an exponent beyond the first byte counts as the first byte.
CompactToTarget(c) ==
    LET exp == Smaller(c.exp, Bytes)
    IN  IF c.exp = 0 THEN 0
        ELSE IF exp >= 3 THEN c.mantissa * Power[exp - 3]
        ELSE c.mantissa \div Power[3 - exp]

\* Number of digits of a target.
Digits(target) == CHOOSE n \in 0 .. Bytes : target < Power[n] /\ (n > 0 => target >= Power[n - 1])

TargetToCompact(target) ==
    LET exp == Digits(target)
    IN  Compact(exp, IF exp >= 3 THEN target \div Power[exp - 3] ELSE target * Power[3 - exp])

CompactToScore(c) ==
    IF c.exp = 0 \/ c.mantissa = 0 THEN Unreachable
    ELSE Larger(Bytes - c.exp, 0) * Unit + (Unit - 1 - c.mantissa)

\* Mutant: the mantissa is taken as it is, not inverted.
MantissaKept(score) ==
    Compact(Clamp(Bytes - (score \div Unit), 1, Bytes), Clamp(score % Unit, 1, Unit - 1))

\* Mutant: exponent and mantissa are not kept in range.
ScoreUnclamped(score) ==
    Compact(Bytes - (score \div Unit), Unit - 1 - (score % Unit))

ScoreToCompact(score) ==
    Compact(Clamp(Bytes - (score \div Unit), 1, Bytes),
            Clamp(Unit - 1 - (score % Unit), 1, Unit - 1))

-----------------------------------------------------------------------------
(* lwma_next_difficulty, over n timestamps and n scores *)

\* Number of intervals looked at.
Window(n) == Smaller(n - 1, LWMA_WINDOW)

\* Index of the i-th block of the window, the one before it being i = 0.
InWindow(n, i) == n - Window(n) + i

SolveTime(times, i) == times[InWindow(Len(times), i)] - times[InWindow(Len(times), i) - 1]

\* Mutant: the solve times are not weighted.
UnweightedSolveTime(times) ==
    Larger(1, SumFunction([ i \in 1 .. Window(Len(times)) |-> SolveTime(times, i) ]))

WeightedSolveTime(times) ==
    LET limit == 6 * TARGET_BLOCK_TIME
    IN  Larger(1, SumFunction([ i \in 1 .. Window(Len(times)) |->
                                  i * Clamp(SolveTime(times, i), -limit, limit) ]))

AverageScore(scores) ==
    SumFunction([ i \in 1 .. Window(Len(scores)) |-> scores[InWindow(Len(scores), i)] ])
        \div Window(Len(scores))

\* Mutant: the change is not limited.
NextScoreUnlimited(times, scores) ==
    LET window == Window(Len(times))
    IN  (AverageScore(scores) * TARGET_BLOCK_TIME * ((window * (window + 1)) \div 2))
            \div WeightedSolveTime(times)

\* Mutant: the ratio is upside down.
NextScoreInverted(times, scores) ==
    LET window == Window(Len(times))
        average == AverageScore(scores)
        wanted == (average * WeightedSolveTime(times))
                      \div (TARGET_BLOCK_TIME * ((window * (window + 1)) \div 2))
    IN  Larger(1, Clamp(wanted, average \div 2, 2 * average))

NextScore(times, scores) ==
    LET window == Window(Len(times))
        average == AverageScore(scores)
        wanted == (average * TARGET_BLOCK_TIME * ((window * (window + 1)) \div 2))
                      \div WeightedSolveTime(times)
    IN  Larger(1, Clamp(wanted, average \div 2, 2 * average))

LwmaNextDifficulty(times, scores) ==
    IF Len(times) < 2 THEN INITIAL_DIFFICULTY
    ELSE IF NextScore(times, scores) < CompactToScore(MIN_DIFFICULTY) THEN MIN_DIFFICULTY
    ELSE ScoreToCompact(NextScore(times, scores))

-----------------------------------------------------------------------------
(* The chain of headers *)

VARIABLES timestamps, difficulty_scores, difficulty

vars == <<timestamps, difficulty_scores, difficulty>>

height == Len(timestamps) - 1

\* Genesis; timestamps are counted from it.
Init ==
    /\ timestamps = << 0 >>
    /\ difficulty_scores = << CompactToScore(INITIAL_DIFFICULTY) >>
    /\ difficulty = << INITIAL_DIFFICULTY >>

CurrentDifficulty ==
    IF height < 2 THEN INITIAL_DIFFICULTY
    ELSE LwmaNextDifficulty(timestamps, difficulty_scores)

\* add_block takes a header as it is: neither its timestamp nor its difficulty is
\* compared with the chain.
AddHeader(seconds, compact) ==
    /\ height < MaxHeight
    /\ timestamps' = Append(timestamps, Last(timestamps) + seconds)
    /\ difficulty' = Append(difficulty, compact)
    /\ difficulty_scores' = Append(difficulty_scores, CompactToScore(compact))

MineBlock == \E seconds \in SolveTimes : AddHeader(seconds, CurrentDifficulty)

\* A block of a peer; a target of zero has no proof of work.
PeerBlock ==
    \E seconds \in SolveTimes : \E compact \in PeerCompacts :
        /\ CompactToTarget(compact) > 0
        /\ AddHeader(seconds, compact)

\* A restart computes the scores from the stored headers.
Restart ==
    /\ difficulty_scores' = [ i \in DOMAIN difficulty |-> CompactToScore(difficulty[i]) ]
    /\ UNCHANGED <<timestamps, difficulty>>

Next == MineBlock \/ PeerBlock \/ Restart

Spec == Init /\ [][Next]_vars

-----------------------------------------------------------------------------
(* Invariants *)

TypeOK ==
    /\ timestamps \in Seq(Int) /\ timestamps # << >>
    /\ difficulty \in Seq([ exp : Nat \ {0}, mantissa : 1 .. Unit - 1 ])
    /\ difficulty_scores \in Seq(Nat)
    /\ Len(difficulty_scores) = Len(timestamps)
    /\ Len(difficulty) = Len(timestamps)

\* The score of every block is the one its header has, and the next difficulty
\* survives its own score, and every target its compact: what a node mines at is
\* what its peers and its own restarts read back from the header.
ScoresOfHeaders ==
    /\ \A i \in DOMAIN difficulty : difficulty_scores[i] = CompactToScore(difficulty[i])
    /\ ScoreToCompact(CompactToScore(CurrentDifficulty)) = CurrentDifficulty
    /\ \A i \in DOMAIN difficulty :
           LET target == CompactToTarget(difficulty[i])
           IN  CompactToTarget(TargetToCompact(target)) = target

Recent == 1 .. Window(Len(timestamps))
Average == AverageScore(difficulty_scores)
CurrentScore == CompactToScore(CurrentDifficulty)
MinScore == CompactToScore(MIN_DIFFICULTY)

\* Past height 1 the rule is in force.  A score of Bytes * Unit and more has no
\* compact (ScoreToCompact wraps its mantissa); the window is away from there.
InForce == height >= 2 /\ 2 * Average < Bytes * Unit

\* Blocks that come on time at one difficulty keep it, whatever came before the
\* window.
SteadyOnTime ==
    InForce =>
        LET last == Last(difficulty_scores)
        IN  (\A i \in Recent :
                /\ SolveTime(timestamps, i) = TARGET_BLOCK_TIME
                /\ difficulty_scores[InWindow(height + 1, i)] = last)
            => CurrentScore = Larger(last, MinScore)

\* The rule pushes the right way: a window of slow blocks never raises the score
\* above its average, unless the floor does, and one of fast blocks never lowers
\* it, by more than the one that a mantissa of zero costs.
PushesTheRightWay ==
    InForce =>
        /\ (\A i \in Recent : SolveTime(timestamps, i) >= TARGET_BLOCK_TIME)
              => CurrentScore <= Larger(Average, MinScore)
        /\ (\A i \in Recent : SolveTime(timestamps, i) <= TARGET_BLOCK_TIME)
              => CurrentScore >= Average - 1

\* However wild the timestamps, one block changes the score by a factor of two at
\* most from the average of the window, and never takes it below the floor.
ScoreStepBounded ==
    InForce =>
        /\ CurrentScore >= MinScore
        /\ CurrentScore <= Larger(2 * Average, MinScore)
        /\ CurrentScore >= (Average \div 2) - 1

-----------------------------------------------------------------------------
(* What the documentation says, and the code does not do *)

\* pow.rs:150: the score increases monotonically as the target decreases.
ScoreFollowsTarget ==
    \A i, j \in DOMAIN difficulty :
        CompactToTarget(difficulty[i]) < CompactToTarget(difficulty[j])
            => difficulty_scores[i] > difficulty_scores[j]
=============================================================================
