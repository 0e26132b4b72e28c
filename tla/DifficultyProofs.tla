-------------------------- MODULE DifficultyProofs --------------------------
(***************************************************************************)
(* Theorems about Difficulty, for every base, number of digits, window,    *)
(* block time and chain of headers: types, scores that survive their       *)
(* header, and what one step of the LWMA rule may do to the score.         *)
(***************************************************************************)
EXTENDS Difficulty, SumTheorems, SequenceTheorems

(* The numbers of the model, as the proofs use them.                        *)
LEMMA Numbers ==
    /\ Base \in Nat /\ Base >= 2 /\ Bytes \in Nat /\ Bytes >= 3
    /\ LWMA_WINDOW \in Nat /\ LWMA_WINDOW >= 1
    /\ TARGET_BLOCK_TIME \in Nat /\ TARGET_BLOCK_TIME >= 1
    /\ Unreachable \in Nat
BY DifficultyAssumption

-----------------------------------------------------------------------------
(* Digits *)

(* The recursion of Power defines a function, and that function obeys it.   *)
LEMMA PowerUnfolds ==
    /\ Power[0] = 1
    /\ \A n \in 1 .. Bytes : Power[n] = Base * Power[n - 1]
<1> DEFINE Obeys(p, k) == p = [ n \in 0 .. k |-> IF n = 0 THEN 1 ELSE Base * p[n - 1] ]
           Bad == { k \in Nat : ~ \E p : Obeys(p, k) }
<1>1. \E p : Obeys(p, 0)
  <2>1. Obeys([ n \in 0 .. 0 |-> 1 ], 0)
    OBVIOUS
  <2>2. QED BY <2>1
<1>2. ASSUME NEW k \in Nat, \E p : Obeys(p, k) PROVE \E p : Obeys(p, k + 1)
  <2>1. PICK p : Obeys(p, k)
    BY <1>2
  <2> DEFINE t == [ n \in 0 .. k + 1 |-> IF n = 0 THEN 1 ELSE Base * p[n - 1] ]
  <2>2. \A n \in 0 .. k : t[n] = p[n]
    BY <2>1
  <2>3. \A n \in 0 .. k + 1 : n # 0 => n - 1 \in 0 .. k
    OBVIOUS
  <2>4. \A n \in 0 .. k + 1 : (IF n = 0 THEN 1 ELSE Base * p[n - 1])
                                = (IF n = 0 THEN 1 ELSE Base * t[n - 1])
    <3> HIDE DEF t
    <3>1. QED BY <2>2, <2>3
  <2>5. Obeys(t, k + 1)
    <3>1. t = [ n \in 0 .. k + 1 |-> IF n = 0 THEN 1 ELSE Base * p[n - 1] ]
      OBVIOUS
    <3> HIDE DEF t
    <3>2. QED BY <2>4, <3>1
  <2>6. QED BY <2>5
<1> HIDE DEF Obeys
<1>3. Bad = {}
  <2> SUFFICES ASSUME Bad # {} PROVE FALSE
    OBVIOUS
  <2>1. PICK k \in Bad : \A j \in Bad : k <= j
    BY LeastNatural
  <2>2. k \in Nat /\ k # 0 /\ ~ \E p : Obeys(p, k)
    BY <1>1, <2>1
  <2>3. k - 1 \in Nat /\ k - 1 \notin Bad
    BY <2>1, <2>2
  <2>4. \E p : Obeys(p, k - 1 + 1)
    BY <1>2, <2>3
  <2>5. QED BY <2>2, <2>4
<1>4. \E p : Obeys(p, Bytes)
  BY <1>3, Numbers
<1>5. Power = CHOOSE p : Obeys(p, Bytes)
  BY DEF Power, Obeys
<1>6. Obeys(Power, Bytes)
  BY <1>4, <1>5
<1>7. Power = [ n \in 0 .. Bytes |-> IF n = 0 THEN 1 ELSE Base * Power[n - 1] ]
  BY <1>6 DEF Obeys
<1>8. 0 \in 0 .. Bytes /\ \A n \in 1 .. Bytes : n \in 0 .. Bytes /\ n # 0
  BY Numbers
<1>9. QED BY <1>7, <1>8, Zenon

(* The weights of the digits are positive.                                  *)
LEMMA Powers ==
    \A n \in 0 .. Bytes : Power[n] \in Nat /\ Power[n] >= 1
<1> DEFINE Wrong == { n \in 0 .. Bytes : ~ (Power[n] \in Nat /\ Power[n] >= 1) }
<1>1. Wrong = {}
  <2> SUFFICES ASSUME Wrong # {} PROVE FALSE
    OBVIOUS
  <2>1. Wrong \in SUBSET Nat
    BY Numbers
  <2>2. PICK n \in Wrong : \A k \in Wrong : n <= k
    BY <2>1, LeastNatural
  <2>3. n \in 1 .. Bytes
    BY <2>2, PowerUnfolds, Numbers
  <2>4. n - 1 \in 0 .. Bytes /\ n - 1 \notin Wrong
    BY <2>2, <2>3, Numbers
  <2> DEFINE p == Power[n - 1]
  <2>5. p \in Nat /\ p >= 1
    BY <2>4
  <2>6. Power[n] = Base * p
    BY <2>3, PowerUnfolds
  <2> HIDE DEF p
  <2>7. Base * p \in Nat /\ Base * 1 <= Base * p /\ Base * 1 = Base
    BY <2>5, Products, Numbers
  <2>8. Power[n] \in Nat /\ Power[n] >= 1
    BY <2>6, <2>7, Numbers
  <2>9. QED BY <2>2, <2>8
<1>2. QED BY <1>1

(* The first four of them.                                                  *)
LEMMA SmallPowers ==
    /\ Power[0] = 1 /\ Power[1] = Base /\ Power[2] = Base * Base /\ Power[3] = Unit
    /\ Unit \in Nat /\ Unit >= 8
<1>1. 1 \in 1 .. Bytes /\ 2 \in 1 .. Bytes /\ 3 \in 1 .. Bytes /\ 1 - 1 = 0 /\ 2 - 1 = 1 /\ 3 - 1 = 2
  BY Numbers
<1>2. Power[1] = Base * Power[0] /\ Power[2] = Base * Power[1] /\ Power[3] = Base * Power[2]
  <2>1. Power[1] = Base * Power[1 - 1] /\ Power[2] = Base * Power[2 - 1] /\ Power[3] = Base * Power[3 - 1]
    BY <1>1, PowerUnfolds, Zenon
  <2>2. QED BY <1>1, <2>1
<1>3. Power[0] = 1 /\ Base * 1 = Base
  BY PowerUnfolds, Numbers
<1>4. Power[1] = Base /\ Power[2] = Base * Base
  BY <1>2, <1>3
<1>5. Base * (Base * Base) = Base * Base * Base
  BY Numbers
<1>6. Power[3] = Unit
  BY <1>2, <1>4, <1>5 DEF Unit
<1> DEFINE square == Base * Base
<1>7. Base * 2 <= square /\ square \in Nat
  BY Numbers, Products
<1>8. square >= 4
  BY <1>7, Numbers
<1>9. Unit = Base * square
  BY <1>5 DEF Unit
<1> HIDE DEF square
<1>10. Base * 4 <= Base * square /\ Base * square \in Nat
  BY <1>7, <1>8, Numbers, Products
<1>11. Unit \in Nat /\ Unit >= 8
  BY <1>9, <1>10, Numbers
<1>12. QED BY <1>3, <1>4, <1>6, <1>11

(* Weights multiply.                                                        *)
LEMMA PowersMultiply ==
    ASSUME NEW a \in 0 .. Bytes, NEW b \in 0 .. Bytes, a + b <= Bytes
    PROVE  Power[a + b] = Power[a] * Power[b]
<1> DEFINE Wrong == { n \in 0 .. Bytes - a : Power[a + n] # Power[a] * Power[n] }
<1>1. Wrong = {}
  <2> SUFFICES ASSUME Wrong # {} PROVE FALSE
    OBVIOUS
  <2>1. Wrong \in SUBSET Nat
    BY Numbers
  <2>2. PICK n \in Wrong : \A k \in Wrong : n <= k
    BY <2>1, LeastNatural
  <2>3. n \in 0 .. Bytes - a /\ Power[a + n] # Power[a] * Power[n]
    BY <2>2
  <2>4. n # 0
    <3>1. Power[a] * 1 = Power[a] /\ a + 0 = a
      BY Powers, Numbers
    <3>2. Power[a + 0] = Power[a] * Power[0]
      BY <3>1, PowerUnfolds
    <3>3. QED BY <2>3, <3>2
  <2>5. n - 1 \in 0 .. Bytes - a /\ n - 1 \notin Wrong
    BY <2>2, <2>3, <2>4, Numbers
  <2> DEFINE p == Power[n - 1]
             q == Power[a]
  <2>6. p \in Nat /\ q \in Nat
    BY <2>5, Powers, Numbers
  <2>7. Power[a + (n - 1)] = q * p
    BY <2>5
  <2>8. Power[n] = Base * p
    <3>1. n \in 1 .. Bytes
      BY <2>3, <2>4, Numbers
    <3>2. QED BY <3>1, PowerUnfolds
  <2>9. Power[a + n] = Base * (q * p)
    <3> DEFINE m == a + n
    <3>1. m \in 1 .. Bytes /\ m - 1 = a + (n - 1)
      BY <2>3, <2>4, Numbers
    <3> HIDE DEF m
    <3>2. Power[m] = Base * Power[m - 1]
      BY <3>1, PowerUnfolds
    <3>3. Power[m] = Base * (q * p)
      BY <2>7, <3>1, <3>2
    <3>4. QED BY <3>3 DEF m
  <2> HIDE DEF p, q
  <2>10. Base * (q * p) = q * (Base * p)
    BY <2>6, Numbers
  <2>11. Power[a + n] = q * Power[n]
    BY <2>8, <2>9, <2>10
  <2>12. QED BY <2>3, <2>11 DEF q
<1>2. b \in 0 .. Bytes - a
  BY Numbers
<1>3. QED BY <1>1, <1>2

(* More digits weigh more.                                                  *)
LEMMA PowersGrow ==
    ASSUME NEW a \in 0 .. Bytes, NEW b \in 0 .. Bytes, a <= b
    PROVE  Power[a] <= Power[b]
<1> DEFINE d == b - a
           p == Power[a]
           q == Power[d]
<1>1. d \in 0 .. Bytes /\ a + d = b
  BY Numbers
<1>2. Power[b] = p * q
  <2>1. Power[a + d] = Power[a] * Power[d]
    BY <1>1, PowersMultiply, Numbers
  <2>2. QED BY <1>1, <2>1
<1>3. p \in Nat /\ q \in Nat /\ q >= 1
  BY <1>1, Powers
<1> HIDE DEF d, p, q
<1>4. p * 1 <= p * q /\ p * 1 = p
  BY <1>3, Products
<1>5. QED BY <1>2, <1>4 DEF p


(* A target has the digits that Digits counts, and no more.                 *)
LEMMA DigitsOf ==
    ASSUME NEW t \in Nat, t < Power[Bytes]
    PROVE  /\ Digits(t) \in 0 .. Bytes
           /\ t < Power[Digits(t)]
           /\ Digits(t) > 0 => t >= Power[Digits(t) - 1]
<1> DEFINE Fits(n) == t < Power[n] /\ (n > 0 => t >= Power[n - 1])
           Enough == { n \in 0 .. Bytes : t < Power[n] }
<1>1. Enough \in SUBSET Nat /\ Bytes \in Enough
  BY Numbers
<1>2. PICK n \in Enough : \A k \in Enough : n <= k
  BY <1>1, LeastNatural
<1>3. n \in 0 .. Bytes /\ t < Power[n]
  BY <1>2
<1>4. n > 0 => t >= Power[n - 1]
  <2> SUFFICES ASSUME n > 0 PROVE t >= Power[n - 1]
    OBVIOUS
  <2>1. n - 1 \in 0 .. Bytes /\ n - 1 \notin Enough
    BY <1>2, <1>3, Numbers
  <2>2. Power[n - 1] \in Nat /\ ~ (t < Power[n - 1])
    BY <2>1, Powers
  <2>3. QED BY <2>2
<1>5. \E k \in 0 .. Bytes : Fits(k)
  BY <1>3, <1>4
<1>6. Digits(t) = CHOOSE k \in 0 .. Bytes : Fits(k)
  BY DEF Digits
<1>7. Digits(t) \in 0 .. Bytes /\ Fits(Digits(t))
  <2> HIDE DEF Fits
  <2>1. QED BY <1>5, <1>6
<1>8. QED BY <1>7

(* The target of a compact is below the power of its exponent, and a        *)
(* multiple of the weight of its last digit.                                *)
LEMMA TargetOf ==
    ASSUME NEW c, c.exp \in Nat \ {0}, c.mantissa \in 0 .. Unit - 1,
           NEW e, e = Smaller(c.exp, Bytes)
    PROVE  /\ e \in 1 .. Bytes /\ CompactToTarget(c) \in Nat
           /\ CompactToTarget(c) < Power[e]
           /\ e >= 3 => CompactToTarget(c) = c.mantissa * Power[e - 3]
<1> DEFINE m == c.mantissa
           t == CompactToTarget(c)
<1>1. e \in 1 .. Bytes
  BY Numbers DEF Smaller
<1>2. m \in Nat /\ m < Unit
  BY SmallPowers
<1>3. CASE e >= 3
  <2> DEFINE p == Power[e - 3]
  <2>1. t = m * p
    BY <1>3 DEF CompactToTarget
  <2>2. e - 3 \in 0 .. Bytes /\ 3 \in 0 .. Bytes /\ 3 + (e - 3) = e
    BY <1>1, <1>3, Numbers
  <2>3. p \in Nat /\ p >= 1
    BY <2>2, Powers
  <2>4. Power[e] = Unit * p
    <3>1. Power[3 + (e - 3)] = Power[3] * Power[e - 3]
      BY <1>1, <2>2, PowersMultiply
    <3>2. QED BY <2>2, <3>1, SmallPowers
  <2> HIDE DEF p, m, t
  <2>5. p * m + p <= p * Unit
    BY <1>2, <2>3, SmallPowers, Multiples
  <2>6. p * m = m * p /\ p * Unit = Unit * p /\ m * p \in Nat /\ Unit * p \in Nat
    BY <1>2, <2>3, SmallPowers
  <2>7. t \in Nat /\ t < Power[e]
    <3> DEFINE a == m * p
               b == Unit * p
    <3>1. a \in Nat /\ b \in Nat /\ a + p <= b
      BY <2>5, <2>6
    <3> HIDE DEF a, b
    <3>2. a < b
      BY <2>3, <3>1
    <3>3. t = a /\ Power[e] = b
      BY <2>1, <2>4 DEF a, b
    <3>4. QED BY <3>1, <3>2, <3>3
  <2>8. t = m * Power[e - 3]
    BY <2>1 DEF p
  <2>9. QED BY <1>1, <2>7, <2>8 DEF t, m
<1>4. CASE e < 3
  <2> DEFINE p == Power[3 - e]
             q == Power[e]
  <2>1. t = m \div p
    <3>1. ~ (e >= 3) /\ c.exp # 0
      BY <1>1, <1>4, Numbers
    <3>2. QED BY <3>1 DEF CompactToTarget
  <2>2. 3 - e \in 0 .. Bytes /\ e \in 0 .. Bytes /\ e + (3 - e) = 3 /\ 3 <= Bytes
    BY <1>1, <1>4, Numbers
  <2>3. p \in Nat /\ p >= 1 /\ q \in Nat
    BY <2>2, Powers
  <2>4. Unit = q * p
    <3>1. Power[e + (3 - e)] = Power[e] * Power[3 - e]
      BY <2>2, PowersMultiply
    <3>2. QED BY <2>2, <3>1, SmallPowers
  <2> HIDE DEF p, q, m, t
  <2>5. m < p * q /\ p * 0 <= m
    BY <1>2, <2>3, <2>4
  <2>6. m \div p \in Int /\ m \div p < q /\ 0 <= m \div p
    <3>1. m \in Int /\ p \in Nat \ {0} /\ q \in Int /\ 0 \in Int
      BY <1>2, <2>3
    <3>2. m \div p \in Int
      BY <3>1, Division
    <3>3. m \div p < q
      BY <2>5, <3>1, Quotients, Zenon
    <3>4. 0 <= m \div p
      BY <2>5, <3>1, Quotients, Zenon
    <3>5. QED BY <3>2, <3>3, <3>4
  <2>7. t \in Nat /\ t < q
    BY <2>1, <2>3, <2>6
  <2>8. ~ (e >= 3)
    BY <1>1, <1>4, Numbers
  <2>9. t \in Nat /\ t < Power[e]
    BY <2>7 DEF q
  <2>10. QED BY <1>1, <2>8, <2>9 DEF t
<1>5. QED BY <1>1, <1>3, <1>4

(* A target survives its compact: the first three digits of a target that   *)
(* came from a compact are all it has, at whatever exponent they start.     *)
LEMMA TargetSurvives ==
    ASSUME NEW c, c.exp \in Nat \ {0}, c.mantissa \in 0 .. Unit - 1
    PROVE  CompactToTarget(TargetToCompact(CompactToTarget(c))) = CompactToTarget(c)
<1> DEFINE e == Smaller(c.exp, Bytes)
           t == CompactToTarget(c)
           m == c.mantissa
           n == Digits(t)
           back == TargetToCompact(t)
<1>1. /\ e \in 1 .. Bytes /\ t \in Nat /\ t < Power[e]
      /\ e >= 3 => t = m * Power[e - 3]
  BY TargetOf
<1>2. m \in Nat
  BY SmallPowers
<1>3. n \in 0 .. Bytes /\ t < Power[n] /\ (n > 0 => t >= Power[n - 1])
  <2>1. Power[e] <= Power[Bytes] /\ Power[e] \in Nat /\ Power[Bytes] \in Nat
    BY <1>1, Powers, PowersGrow, Numbers
  <2>2. t < Power[Bytes]
    BY <1>1, <2>1
  <2> HIDE DEF t
  <2>3. QED BY <1>1, <2>2, DigitsOf
<1>4. n <= e
  <2> SUFFICES ASSUME e < n PROVE FALSE
    BY <1>1, <1>3
  <2>1. e \in 0 .. Bytes /\ n - 1 \in 0 .. Bytes /\ e <= n - 1 /\ n > 0
    BY <1>1, <1>3, Numbers
  <2> DEFINE k == n - 1
  <2>2. Power[e] <= Power[k] /\ Power[e] \in Nat /\ Power[k] \in Nat
    <3>1. k \in 0 .. Bytes /\ e <= k
      BY <2>1
    <3> HIDE DEF k
    <3>2. QED BY <2>1, <3>1, Powers, PowersGrow
  <2>3. t >= Power[k]
    BY <1>3, <2>1
  <2>4. QED BY <1>1, <2>2, <2>3
<1>5. /\ back.exp = n
      /\ back.mantissa = IF n >= 3 THEN t \div Power[n - 3] ELSE t * Power[3 - n]
  BY DEF TargetToCompact, Compact
<1>6. Smaller(n, Bytes) = n
  BY <1>3, Numbers DEF Smaller
<1>7. CompactToTarget(back) = IF n = 0 THEN 0
                              ELSE IF n >= 3 THEN back.mantissa * Power[n - 3]
                              ELSE back.mantissa \div Power[3 - n]
  <2> HIDE DEF n, back
  <2>1. QED BY <1>5, <1>6 DEF CompactToTarget
<1> HIDE DEF e, t, m, n, back
<1>8. CASE n = 0
  <2>1. t = 0
    BY <1>1, <1>3, <1>8, SmallPowers
  <2>2. QED BY <1>7, <1>8, <2>1 DEF t, back
<1>9. CASE n >= 3
  <2>1. n - 3 \in 0 .. Bytes /\ e - n \in 0 .. Bytes /\ (e - n) + (n - 3) = e - 3 /\ e - 3 <= Bytes
    BY <1>1, <1>3, <1>4, <1>9, Numbers
  <2> DEFINE p == Power[n - 3]
             q == Power[e - n]
  <2>2. p \in Nat \ {0} /\ q \in Nat
    BY <2>1, Powers
  <2>3. Power[e - 3] = q * p
    <3>1. Power[(e - n) + (n - 3)] = Power[e - n] * Power[n - 3]
      BY <2>1, PowersMultiply
    <3>2. QED BY <2>1, <3>1
  <2>4. t = m * (q * p)
    BY <1>1, <1>3, <1>4, <1>9, <2>3
  <2>5. back.mantissa = t \div p
    BY <1>5, <1>9
  <2>6. CompactToTarget(back) = (t \div p) * p
    BY <1>3, <1>7, <1>9, <2>5
  <2> HIDE DEF p, q
  <2>7. t = p * (m * q) /\ m * q \in Nat
    BY <1>2, <2>2, <2>4
  <2>8. t \div p = m * q
    BY <2>2, <2>7, QuotientOfProduct
  <2>9. (m * q) * p = p * (m * q)
    BY <1>2, <2>2
  <2>10. QED BY <2>6, <2>7, <2>8, <2>9 DEF back, t
<1>10. CASE n \in {1, 2}
  <2>1. 3 - n \in 0 .. Bytes
    BY <1>10, Numbers
  <2> DEFINE p == Power[3 - n]
  <2>2. p \in Nat \ {0}
    BY <2>1, Powers
  <2>3. back.mantissa = t * p
    BY <1>5, <1>10
  <2>4. CompactToTarget(back) = (t * p) \div p
    BY <1>7, <1>10, <2>3
  <2> HIDE DEF p
  <2>5. (t * p) \div p = t
    BY <1>1, <2>2, QuotientOfProduct
  <2>6. QED BY <2>4, <2>5 DEF back, t
<1>11. n = 0 \/ n \in {1, 2} \/ n >= 3
  BY <1>3
<1>12. QED BY <1>8, <1>9, <1>10, <1>11


-----------------------------------------------------------------------------
(* Scores *)

(* Compacts a miner may be given.                                           *)
Compacts == [ exp : 1 .. Bytes, mantissa : 1 .. Unit - 1 ]

LEMMA Clamps ==
    ASSUME NEW x \in Int, NEW low \in Int, NEW high \in Int, low <= high
    PROVE  /\ Clamp(x, low, high) \in low .. high
           /\ x <= high => Clamp(x, low, high) = Larger(x, low)
           /\ low <= x => Clamp(x, low, high) = Smaller(x, high)
           /\ x \in low .. high => Clamp(x, low, high) = x
BY DEF Clamp, Larger, Smaller

(* The mantissa of the two constants lies well inside the range.            *)
LEMMA Squares ==
    /\ Base * Base \in Nat /\ Base * Base >= 4
    /\ Unit \in Nat /\ Unit >= 2 * (Base * Base)
<1> DEFINE square == Base * Base
<1>1. square \in Nat /\ Base * 2 <= square
  BY Numbers, Products
<1>2. square >= 4
  BY <1>1, Numbers
<1>3. Unit = square * Base
  BY DEF Unit
<1> HIDE DEF square
<1>4. square * 2 <= square * Base /\ square * Base \in Int /\ square * 2 = 2 * square
  BY <1>1, <1>2, Numbers, Products
<1>5. Unit \in Nat /\ Unit >= 2 * square
  BY <1>1, <1>3, <1>4
<1>6. QED BY <1>1, <1>2, <1>5 DEF square

LEMMA CompactsOfRule ==
    /\ INITIAL_DIFFICULTY \in Compacts /\ MIN_DIFFICULTY \in Compacts
    /\ \A score \in Int : ScoreToCompact(score) \in Compacts
<1> DEFINE square == Base * Base
<1>1. square \in Nat /\ square >= 4 /\ Unit \in Nat /\ Unit >= 2 * square
  BY Squares
<1>2. INITIAL_DIFFICULTY = Compact(Bytes - 1, square - 1) /\ MIN_DIFFICULTY = Compact(Bytes, square - 1)
  BY DEF INITIAL_DIFFICULTY, MIN_DIFFICULTY
<1> HIDE DEF square
<1>3. square - 1 \in 1 .. Unit - 1 /\ Bytes - 1 \in 1 .. Bytes /\ Bytes \in 1 .. Bytes
  BY <1>1, Numbers
<1>4. INITIAL_DIFFICULTY \in Compacts /\ MIN_DIFFICULTY \in Compacts
  BY <1>2, <1>3 DEF Compact, Compacts
<1>5. ASSUME NEW score \in Int PROVE ScoreToCompact(score) \in Compacts
  <2> DEFINE q == score \div Unit
             r == score % Unit
  <2>1. q \in Int /\ r \in Int
    <3>1. Unit \in Nat \ {0}
      BY <1>1
    <3>2. QED BY <3>1, Division
  <2>2. ScoreToCompact(score) = Compact(Clamp(Bytes - q, 1, Bytes), Clamp(Unit - 1 - r, 1, Unit - 1))
    BY DEF ScoreToCompact
  <2> HIDE DEF q, r
  <2>3. Bytes - q \in Int /\ Unit - 1 - r \in Int /\ 1 <= Bytes /\ 1 <= Unit - 1 /\ Bytes \in Int /\ Unit - 1 \in Int
    BY <1>1, <2>1, Numbers
  <2>4. Clamp(Bytes - q, 1, Bytes) \in 1 .. Bytes
    <3> DEFINE x == Bytes - q
    <3>1. x \in Int /\ 1 \in Int /\ Bytes \in Int /\ 1 <= Bytes
      BY <2>3
    <3> HIDE DEF x
    <3>2. Clamp(x, 1, Bytes) \in 1 .. Bytes
      BY <3>1, Clamps, Zenon
    <3>3. QED BY <3>2 DEF x
  <2>5. Clamp(Unit - 1 - r, 1, Unit - 1) \in 1 .. Unit - 1
    <3> DEFINE x == Unit - 1 - r
               top == Unit - 1
    <3>1. x \in Int /\ top \in Int /\ 1 <= top
      BY <2>3
    <3> HIDE DEF x, top
    <3>2. Clamp(x, 1, top) \in 1 .. top
      BY <3>1, Clamps
    <3>3. QED BY <3>2 DEF x, top
  <2>6. QED BY <2>2, <2>4, <2>5 DEF Compact, Compacts
<1>6. QED BY <1>4, <1>5

(* The score of a compact, digit by digit: the exponent counts units, the   *)
(* mantissa fills the last one but never all of it.                         *)
LEMMA ScoreOf ==
    ASSUME NEW c, c.exp \in Nat \ {0}, c.mantissa \in 1 .. Unit - 1,
           NEW e, e = Larger(Bytes - c.exp, 0)
    PROVE  /\ CompactToScore(c) \in Nat /\ e \in Nat
           /\ CompactToScore(c) = Unit * e + (Unit - 1 - c.mantissa)
           /\ CompactToScore(c) \div Unit = e
           /\ CompactToScore(c) % Unit = Unit - 1 - c.mantissa
<1> DEFINE m == c.mantissa
           s == CompactToScore(c)
           r == Unit - 1 - m
<1>1. Unit \in Nat \ {0} /\ m \in Int /\ m # 0 /\ c.exp # 0
  BY SmallPowers
<1>2. s = e * Unit + r
  BY <1>1 DEF CompactToScore
<1>3. e \in Nat
  BY Numbers DEF Larger
<1>4. r \in 0 .. Unit - 1
  BY <1>1
<1> HIDE DEF s, r
<1>5. e * Unit = Unit * e /\ Unit * e \in Nat
  BY <1>1, <1>3
<1>6. s = Unit * e + r
  BY <1>2, <1>5
<1>7. s \in Nat
  BY <1>1, <1>4, <1>5, <1>6
<1>8. s \div Unit = e /\ s % Unit = r
  BY <1>1, <1>3, <1>4, <1>6, QuotientOf
<1>9. QED BY <1>3, <1>6, <1>7, <1>8 DEF s, r

(* A compact in range survives its score.                                   *)
LEMMA CompactSurvives ==
    ASSUME NEW c \in Compacts
    PROVE  ScoreToCompact(CompactToScore(c)) = c
<1> DEFINE m == c.mantissa
           e == c.exp
           s == CompactToScore(c)
<1>1. /\ e \in 1 .. Bytes /\ m \in 1 .. Unit - 1 /\ Unit \in Nat
      /\ c = [ exp |-> e, mantissa |-> m ] /\ c.exp \in Nat \ {0}
  BY SmallPowers, Numbers DEF Compacts
<1>2. Larger(Bytes - e, 0) = Bytes - e
  BY <1>1, Numbers DEF Larger
<1>3. s \div Unit = Bytes - e /\ s % Unit = Unit - 1 - m
  BY <1>1, <1>2, ScoreOf
<1> HIDE DEF s, m, e
<1>4. Bytes - (Bytes - e) = e /\ Unit - 1 - (Unit - 1 - m) = m
  BY <1>1, Numbers
<1>5. Clamp(e, 1, Bytes) = e
  <2>1. e \in Int /\ Bytes \in Int /\ 1 <= Bytes
    BY <1>1, Numbers
  <2>2. QED BY <1>1, <2>1, Clamps
<1>6. Clamp(m, 1, Unit - 1) = m
  <2> DEFINE top == Unit - 1
  <2>1. m \in Int /\ top \in Int /\ 1 <= top /\ m \in 1 .. top
    BY <1>1
  <2> HIDE DEF top
  <2>2. Clamp(m, 1, top) = m
    BY <2>1, Clamps
  <2>3. QED BY <2>2 DEF top
<1>7. ScoreToCompact(s) = Compact(e, m)
  BY <1>3, <1>4, <1>5, <1>6 DEF ScoreToCompact
<1>8. QED BY <1>1, <1>7 DEF Compact, s

(* A score below the end of the range survives its compact, but for the one *)
(* that would need a mantissa of zero.                                      *)
LEMMA ScoreSurvives ==
    ASSUME NEW s \in Nat, s < Bytes * Unit
    PROVE  CompactToScore(ScoreToCompact(s)) = IF s % Unit = Unit - 1 THEN s - 1 ELSE s
<1> DEFINE q == s \div Unit
           r == s % Unit
           e == Bytes - q
           m == IF r = Unit - 1 THEN 1 ELSE Unit - 1 - r
           c == Compact(e, m)
<1>1. Unit \in Nat \ {0} /\ Unit >= 8
  BY SmallPowers
<1>2. q \in Int /\ r \in 0 .. Unit - 1 /\ s = Unit * q + r
  <2>1. s \in Int
    OBVIOUS
  <2>2. QED BY <1>1, <2>1, Division, Zenon
<1>3. q \in 0 .. Bytes - 1
  <2>1. Bytes * Unit = Unit * Bytes /\ Unit * 0 = 0 /\ 0 \in Int
    BY <1>1, Numbers
  <2>2. s < Unit * Bytes /\ Unit * 0 <= s /\ s \in Int /\ Bytes \in Int
    BY <2>1, Numbers
  <2>3. s \div Unit < Bytes
    BY <1>1, <2>2, Quotients, Zenon
  <2>4. 0 <= s \div Unit
    BY <1>1, <2>1, <2>2, Quotients, Zenon
  <2>5. QED BY <1>2, <2>3, <2>4, Numbers
<1>4. ScoreToCompact(s) = Compact(Clamp(e, 1, Bytes), Clamp(Unit - 1 - r, 1, Unit - 1))
  BY DEF ScoreToCompact
<1> HIDE DEF q, r
<1>5. e \in 1 .. Bytes /\ m \in 1 .. Unit - 1
  BY <1>1, <1>2, <1>3, Numbers
<1>6. Clamp(e, 1, Bytes) = e
  <2>1. e \in Int /\ Bytes \in Int /\ 1 <= Bytes
    BY <1>5, Numbers
  <2> HIDE DEF e
  <2>2. QED BY <1>5, <2>1, Clamps
<1>7. Clamp(Unit - 1 - r, 1, Unit - 1) = m
  BY <1>1, <1>2 DEF Clamp, Larger, Smaller
<1>8. ScoreToCompact(s) = c
  BY <1>4, <1>6, <1>7
<1>9. Larger(Bytes - e, 0) = q
  BY <1>3, Numbers DEF Larger
<1>10. CompactToScore(c) = Unit * q + (Unit - 1 - m)
  <2>1. c.exp = e /\ c.mantissa = m
    BY DEF Compact
  <2>2. e \in Nat \ {0}
    BY <1>5
  <2> HIDE DEF c, e, m
  <2>3. QED BY <1>5, <1>9, <2>1, <2>2, ScoreOf
<1>11. Unit * q \in Int
  BY <1>1, <1>2
<1>12. Unit * q + (Unit - 1 - m) = IF r = Unit - 1 THEN s - 1 ELSE s
  <2> DEFINE u == Unit * q
  <2>1. u \in Int /\ s = u + r
    BY <1>2, <1>11
  <2> HIDE DEF u
  <2>2. u + (Unit - 1 - m) = IF r = Unit - 1 THEN s - 1 ELSE s
    BY <1>1, <1>2, <2>1
  <2>3. QED BY <2>2 DEF u
<1>13. QED BY <1>8, <1>10, <1>12 DEF r

(* The floor of the rule.                                                   *)
LEMMA Floor ==
    /\ MinScore \in Nat /\ MinScore >= 4 /\ MinScore % Unit # Unit - 1
<1> DEFINE square == Base * Base
           c == MIN_DIFFICULTY
<1>1. square \in Nat /\ square >= 4 /\ Unit \in Nat /\ Unit >= 2 * square
  BY Squares
<1>2. c.exp = Bytes /\ c.mantissa = square - 1
  BY DEF MIN_DIFFICULTY, Compact
<1>3. Larger(Bytes - Bytes, 0) = 0
  BY Numbers DEF Larger
<1> HIDE DEF c, square
<1>4. c.exp \in Nat \ {0} /\ c.mantissa \in 1 .. Unit - 1
  BY <1>1, <1>2, Numbers
<1>5. /\ CompactToScore(c) = Unit * 0 + (Unit - 1 - c.mantissa)
      /\ CompactToScore(c) % Unit = Unit - 1 - c.mantissa
  BY <1>2, <1>3, <1>4, ScoreOf
<1>6. MinScore = CompactToScore(c)
  BY DEF MinScore, c
<1>7. MinScore = Unit - square /\ MinScore % Unit = Unit - square
  BY <1>1, <1>2, <1>5, <1>6
<1>8. QED BY <1>1, <1>7


-----------------------------------------------------------------------------
(* Weights and averages *)

\* The sum of the weights of a window of w blocks.
WeightSum(w) == (w * (w + 1)) \div 2

(* One block more adds its own weight.                                      *)
LEMMA WeightSums ==
    /\ WeightSum(0) = 0
    /\ \A w \in Nat : WeightSum(w) \in Nat /\ WeightSum(w + 1) = WeightSum(w) + (w + 1)
<1>1. WeightSum(0) = 0
  BY DEF WeightSum
<1>2. ASSUME NEW w \in Nat
      PROVE  WeightSum(w) \in Nat /\ WeightSum(w + 1) = WeightSum(w) + (w + 1)
  <2> DEFINE p == w * (w + 1)
             next == w + 1
  <2>1. p \in Nat /\ next \in Nat
    OBVIOUS
  <2>2. next * (next + 1) = p + 2 * next
    OBVIOUS
  <2>3. WeightSum(w) = p \div 2 /\ WeightSum(next) = (p + 2 * next) \div 2
    BY <2>2 DEF WeightSum
  <2> HIDE DEF p, next
  <2>4. p \div 2 \in Nat /\ (p + 2 * next) \div 2 = (p \div 2) + next
    BY <2>1
  <2>5. WeightSum(w) \in Nat /\ WeightSum(next) = WeightSum(w) + next
    BY <2>3, <2>4
  <2>6. QED BY <2>5 DEF next
<1>3. QED BY <1>1, <1>2

(* A window has weight.                                                     *)
LEMMA WindowsWeigh ==
    ASSUME NEW w \in Nat \ {0}
    PROVE  WeightSum(w) \in Nat \ {0}
<1> DEFINE v == w - 1
<1>1. v \in Nat /\ w = v + 1
  OBVIOUS
<1> HIDE DEF v
<1>2. WeightSum(v) \in Nat /\ WeightSum(v + 1) = WeightSum(v) + (v + 1)
  BY <1>1, WeightSums
<1>3. QED BY <1>1, <1>2

LEMMA Intervals ==
    ASSUME NEW w \in Nat
    PROVE  IsFiniteSet(1 .. w)
BY FS_Interval

(* The weighted sum of a window of blocks that all took k seconds, and the  *)
(* plain sum of one of equal scores.                                        *)
LEMMA EvenSums ==
    ASSUME NEW k \in Int, NEW w \in Nat
    PROVE  /\ SumFunctionOnSet([ i \in Nat |-> i * k ], 1 .. w) = k * WeightSum(w)
           /\ SumFunctionOnSet([ i \in Nat |-> k ], 1 .. w) = w * k
<1> DEFINE f == [ i \in Nat |-> i * k ]
           g == [ i \in Nat |-> k ]
           P == { n \in Nat : /\ SumFunctionOnSet(f, 1 .. n) = k * WeightSum(n)
                              /\ SumFunctionOnSet(g, 1 .. n) = n * k }
<1>1. 0 \in P
  <2>1. 1 .. 0 = {} /\ k * 0 = 0 /\ 0 * k = 0
    OBVIOUS
  <2>2. SumFunctionOnSet(f, {}) = 0 /\ SumFunctionOnSet(g, {}) = 0
    BY SumOfNone, Zenon
  <2> HIDE DEF f, g
  <2>3. QED BY <2>1, <2>2, WeightSums
<1>2. ASSUME NEW n \in Nat, n \in P PROVE n + 1 \in P
  <2> DEFINE next == n + 1
  <2>1. next \in Nat /\ (1 .. next) \ {next} = 1 .. n /\ next \in 1 .. next
    OBVIOUS
  <2>2. /\ \A i \in 1 .. next : f[i] \in Int /\ g[i] \in Int
        /\ f[next] = next * k /\ g[next] = k
    BY <2>1
  <2>3. IsFiniteSet(1 .. next)
    BY <2>1, Intervals
  <2> DEFINE F == SumFunctionOnSet(f, 1 .. n)
             G == SumFunctionOnSet(g, 1 .. n)
             t == WeightSum(n)
  <2>4. F = k * t /\ G = n * k
    BY <1>2
  <2>5. t \in Nat /\ WeightSum(next) = t + next
    BY WeightSums
  <2> HIDE DEF next, f, g, t
  <2>6. SumFunctionOnSet(f, 1 .. next) = f[next] + SumFunctionOnSet(f, (1 .. next) \ {next})
    BY <2>1, <2>2, <2>3, SumTakes
  <2>7. SumFunctionOnSet(g, 1 .. next) = g[next] + SumFunctionOnSet(g, (1 .. next) \ {next})
    BY <2>1, <2>2, <2>3, SumTakes
  <2>8. SumFunctionOnSet(f, 1 .. next) = next * k + F /\ SumFunctionOnSet(g, 1 .. next) = k + G
    BY <2>1, <2>2, <2>6, <2>7
  <2> HIDE DEF F, G
  <2>9. next * k + k * t = k * (t + next) /\ k + n * k = next * k
    BY <2>1, <2>5 DEF next
  <2>10. SumFunctionOnSet(f, 1 .. next) = k * WeightSum(next) /\ SumFunctionOnSet(g, 1 .. next) = next * k
    BY <2>4, <2>5, <2>8, <2>9
  <2>11. QED BY <2>1, <2>10 DEF next
<1> HIDE DEF P
<1>3. Nat \subseteq P
  BY <1>1, <1>2, NaturalInduction
<1>4. QED BY <1>3 DEF P


-----------------------------------------------------------------------------
(* The rule *)

LEMMA WindowOf ==
    ASSUME NEW n \in Nat, n >= 2
    PROVE  /\ Window(n) \in 1 .. n - 1
           /\ \A i \in 1 .. Window(n) : InWindow(n, i) \in 2 .. n /\ InWindow(n, i) - 1 \in 1 .. n
<1> DEFINE w == Window(n)
<1>1. w \in 1 .. n - 1
  BY Numbers DEF Window, Smaller
<1>2. \A i \in 1 .. w : InWindow(n, i) = n - w + i
  BY DEF InWindow
<1> HIDE DEF w
<1>3. \A i \in 1 .. w : n - w + i \in 2 .. n /\ n - w + i - 1 \in 1 .. n
  BY <1>1
<1>4. QED BY <1>1, <1>2, <1>3 DEF w

(* Solve times and scores of a window are numbers.                          *)
LEMMA Readings ==
    ASSUME NEW times \in Seq(Int), NEW scores \in Seq(Nat),
           Len(scores) = Len(times), Len(times) >= 2
    PROVE  \A i \in 1 .. Window(Len(times)) :
               SolveTime(times, i) \in Int /\ scores[InWindow(Len(scores), i)] \in Nat
<1> DEFINE n == Len(times)
<1>1. n \in Nat /\ n >= 2 /\ Len(scores) = n
  OBVIOUS
<1>2. \A j \in 1 .. n : times[j] \in Int /\ scores[j] \in Nat
  OBVIOUS
<1> HIDE DEF n
<1>3. SUFFICES ASSUME NEW i \in 1 .. Window(n)
               PROVE  SolveTime(times, i) \in Int /\ scores[InWindow(n, i)] \in Nat
  BY <1>1 DEF n
<1> DEFINE j == InWindow(n, i)
<1>4. j \in 1 .. n /\ j - 1 \in 1 .. n
  <2>1. j \in 2 .. n /\ j - 1 \in 1 .. n
    BY <1>1, WindowOf
  <2>2. QED BY <1>1, <2>1
<1>5. SolveTime(times, i) = times[j] - times[j - 1]
  BY DEF SolveTime, n
<1> HIDE DEF j
<1>6. times[j] \in Int /\ times[j - 1] \in Int /\ scores[j] \in Nat
  BY <1>2, <1>4
<1>7. SolveTime(times, i) \in Int
  <2> DEFINE a == times[j]
             b == times[j - 1]
  <2>1. SolveTime(times, i) = a - b /\ a \in Int /\ b \in Int
    BY <1>5, <1>6
  <2> HIDE DEF a, b
  <2>2. a - b \in Int
    BY <2>1
  <2>3. QED BY <2>1, <2>2
<1>8. QED BY <1>6, <1>7, Zenon DEF j

(* The weighted solve time is positive; with every block late it is at      *)
(* least that of blocks on time, with every block early at most that.       *)
LEMMA WeightedSolveTimes ==
    ASSUME NEW times \in Seq(Int), Len(times) >= 2,
           NEW w, w = Window(Len(times)),
           \A i \in 1 .. w : SolveTime(times, i) \in Int
    PROVE  /\ WeightedSolveTime(times) \in Nat \ {0}
           /\ (\A i \in 1 .. w : SolveTime(times, i) >= TARGET_BLOCK_TIME)
                => TARGET_BLOCK_TIME * WeightSum(w) <= WeightedSolveTime(times)
           /\ (\A i \in 1 .. w : SolveTime(times, i) <= TARGET_BLOCK_TIME)
                => WeightedSolveTime(times) <= TARGET_BLOCK_TIME * WeightSum(w)
<1> DEFINE T == TARGET_BLOCK_TIME
           limit == 6 * T
           C == [ i \in 1 .. w |-> Clamp(SolveTime(times, i), -limit, limit) ]
           f == [ i \in 1 .. w |-> i * C[i] ]
           g == [ i \in Nat |-> i * T ]
           sum == SumFunctionOnSet(f, 1 .. w)
           even == T * WeightSum(w)
<1>1. w \in Nat \ {0}
  <2>1. Len(times) \in Nat
    OBVIOUS
  <2>2. Window(Len(times)) \in 1 .. Len(times) - 1
    BY <2>1, WindowOf
  <2>3. QED BY <2>1, <2>2
<1>2. T \in Nat \ {0} /\ limit \in Nat /\ -limit \in Int /\ -limit <= T /\ T <= limit
  BY Numbers
<1>3. WeightedSolveTime(times) = Larger(1, sum)
  <2>1. f = [ i \in 1 .. w |-> i * Clamp(SolveTime(times, i), -limit, limit) ]
    OBVIOUS
  <2>2. DOMAIN f = 1 .. w
    OBVIOUS
  <2>3. WeightedSolveTime(times) = Larger(1, SumFunction([ i \in 1 .. w |-> i * Clamp(SolveTime(times, i), -limit, limit) ]))
    BY DEF WeightedSolveTime
  <2> HIDE DEF f
  <2>4. WeightedSolveTime(times) = Larger(1, SumFunction(f))
    BY <2>1, <2>3
  <2>5. QED BY <2>2, <2>4 DEF SumFunction
<1>4. \A i \in 1 .. w : /\ C[i] \in Int
                        /\ SolveTime(times, i) >= T => C[i] >= T
                        /\ SolveTime(times, i) <= T => C[i] <= T
  <2> SUFFICES ASSUME NEW i \in 1 .. w
               PROVE  /\ C[i] \in Int
                      /\ SolveTime(times, i) >= T => C[i] >= T
                      /\ SolveTime(times, i) <= T => C[i] <= T
    OBVIOUS
  <2> DEFINE s == SolveTime(times, i)
             high == limit
             low == -limit
  <2>1. C[i] = Clamp(s, low, high)
    OBVIOUS
  <2>2. s \in Int /\ low \in Int /\ high \in Int /\ low <= T /\ T <= high /\ T \in Int
    BY <1>2
  <2> HIDE DEF C, s, low, high, T
  <2>3. QED BY <2>1, <2>2 DEF Clamp, Larger, Smaller, s
<1>5. \A i \in 1 .. w : f[i] = i * C[i] /\ g[i] = i * T /\ i \in Nat
  <2> HIDE DEF C
  <2>1. QED BY <1>1
<1>6. SumFunctionOnSet(g, 1 .. w) = even
  BY <1>1, <1>2, EvenSums
<1>7. IsFiniteSet(1 .. w)
  BY <1>1, Intervals
<1> HIDE DEF C, f, g, T, limit
<1>8. \A i \in 1 .. w : f[i] \in Int /\ g[i] \in Int
  BY <1>2, <1>4, <1>5
<1>9. sum \in Int /\ even \in Nat \ {0}
  <2>1. sum \in Int
    BY <1>7, <1>8, SumTakes
  <2> DEFINE t == WeightSum(w)
  <2>2. t \in Nat \ {0}
    BY <1>1, WindowsWeigh
  <2> HIDE DEF t
  <2>3. T * 1 <= T * t /\ T * 1 = T /\ T * t \in Int
    BY <1>2, <2>2, Products
  <2>4. T * t \in Nat \ {0}
    BY <1>2, <2>3
  <2>5. QED BY <2>1, <2>4 DEF t
<1>10. ASSUME \A i \in 1 .. w : SolveTime(times, i) >= T
       PROVE  even <= sum
  <2>1. \A i \in 1 .. w : g[i] <= f[i]
    <3> SUFFICES ASSUME NEW i \in 1 .. w PROVE g[i] <= f[i]
      OBVIOUS
    <3> DEFINE c == C[i]
    <3>1. c \in Int /\ T \in Int /\ T <= c /\ i \in Nat
      BY <1>2, <1>4, <1>5, <1>10
    <3>2. f[i] = i * c /\ g[i] = i * T
      BY <1>5
    <3> HIDE DEF c
    <3>3. QED BY <3>1, <3>2, Products
  <2>2. QED BY <1>6, <1>7, <1>8, <2>1, SumsCompare
<1>11. ASSUME \A i \in 1 .. w : SolveTime(times, i) <= T
       PROVE  sum <= even
  <2>1. \A i \in 1 .. w : f[i] <= g[i]
    <3> SUFFICES ASSUME NEW i \in 1 .. w PROVE f[i] <= g[i]
      OBVIOUS
    <3> DEFINE c == C[i]
    <3>1. c \in Int /\ T \in Int /\ c <= T /\ i \in Nat
      BY <1>2, <1>4, <1>5, <1>11
    <3>2. f[i] = i * c /\ g[i] = i * T
      BY <1>5
    <3> HIDE DEF c
    <3>3. QED BY <3>1, <3>2, Products
  <2>2. QED BY <1>6, <1>7, <1>8, <2>1, SumsCompare
<1> HIDE DEF sum, even
<1>12. /\ WeightedSolveTime(times) \in Nat \ {0}
       /\ even <= sum => even <= WeightedSolveTime(times)
       /\ sum <= even => WeightedSolveTime(times) <= even
  BY <1>3, <1>9 DEF Larger
<1>13. QED BY <1>10, <1>11, <1>12 DEF T, even

(* The average score is a natural number, and that of equal scores theirs.  *)
LEMMA Averages ==
    ASSUME NEW scores \in Seq(Nat), Len(scores) >= 2,
           NEW w, w = Window(Len(scores)),
           \A i \in 1 .. w : scores[InWindow(Len(scores), i)] \in Nat
    PROVE  /\ AverageScore(scores) \in Nat
           /\ \A k \in Nat : (\A i \in 1 .. w : scores[InWindow(Len(scores), i)] = k)
                                => AverageScore(scores) = k
<1> DEFINE f == [ i \in 1 .. w |-> scores[InWindow(Len(scores), i)] ]
           sum == SumFunctionOnSet(f, 1 .. w)
<1>1. w \in Nat \ {0}
  <2>1. Len(scores) \in Nat
    OBVIOUS
  <2>2. Window(Len(scores)) \in 1 .. Len(scores) - 1
    BY <2>1, WindowOf
  <2>3. QED BY <2>1, <2>2
<1>2. AverageScore(scores) = sum \div w
  BY DEF AverageScore, SumFunction
<1>3. \A i \in 1 .. w : f[i] \in Nat /\ f[i] = scores[InWindow(Len(scores), i)]
  OBVIOUS
<1>4. IsFiniteSet(1 .. w)
  BY <1>1, Intervals
<1> HIDE DEF f
<1>5. sum \in Nat
  BY <1>3, <1>4, SumOfNaturals
<1>6. ASSUME NEW k \in Nat, \A i \in 1 .. w : scores[InWindow(Len(scores), i)] = k
      PROVE  sum = w * k
  <2> DEFINE g == [ i \in Nat |-> k ]
  <2>1. \A i \in 1 .. w : f[i] \in Int /\ f[i] = g[i]
    BY <1>1, <1>3, <1>6
  <2>2. SumFunctionOnSet(g, 1 .. w) = w * k
    <3>1. k \in Int /\ w \in Nat
      BY <1>1
    <3>2. QED BY <3>1, EvenSums, Zenon
  <2> HIDE DEF g
  <2>3. SumFunctionOnSet(f, 1 .. w) = SumFunctionOnSet(g, 1 .. w)
    BY <1>4, <2>1, SameSum, Zenon
  <2>4. QED BY <2>2, <2>3
<1> HIDE DEF sum
<1>7. sum \div w \in Nat
  <2>1. w * 0 = 0 /\ 0 \in Int /\ sum \in Int
    BY <1>1, <1>5
  <2>2. sum \div w \in Int
    BY <1>1, <2>1, Division
  <2>3. 0 <= sum \div w
    BY <1>1, <1>5, <2>1, Quotients
  <2>4. QED BY <2>2, <2>3
<1>8. ASSUME NEW k \in Nat, \A i \in 1 .. w : scores[InWindow(Len(scores), i)] = k
      PROVE  sum \div w = k
  <2>1. sum = w * k
    BY <1>6, <1>8
  <2>2. QED BY <1>1, <2>1, QuotientOfProduct
<1>9. QED BY <1>2, <1>7, <1>8


(* What the rule asks for, and what it grants: never less than half the     *)
(* average nor more than twice it, no more than the average when the        *)
(* weighted solve time is that of blocks on time or more, and no less when  *)
(* it is that or less.                                                      *)
LEMMA NextScores ==
    ASSUME NEW times, NEW scores,
           NEW w, w = Window(Len(times)), w \in Nat \ {0},
           NEW average \in Nat, average = AverageScore(scores),
           NEW spent \in Nat \ {0}, spent = WeightedSolveTime(times),
           NEW even, even = TARGET_BLOCK_TIME * WeightSum(w)
    PROVE  /\ NextScore(times, scores) \in Nat /\ NextScore(times, scores) >= 1
           /\ NextScore(times, scores) >= average \div 2
           /\ NextScore(times, scores) <= Larger(1, 2 * average)
           /\ even <= spent => NextScore(times, scores) <= Larger(1, average)
           /\ spent <= even => NextScore(times, scores) >= average
<1> DEFINE T == TARGET_BLOCK_TIME
           t == WeightSum(w)
           wanted == (average * T * t) \div spent
           low == average \div 2
           high == 2 * average
           granted == Clamp(wanted, low, high)
<1>1. T \in Nat \ {0} /\ t \in Nat \ {0}
  BY Numbers, WindowsWeigh
<1>2. NextScore(times, scores) = Larger(1, granted)
  BY DEF NextScore, WeightSum
<1>3. average * T * t = average * even /\ even \in Nat
  <2> HIDE DEF T, t
  <2>1. even = T * t
    BY DEF T, t
  <2>2. average * T * t = average * (T * t) /\ T * t \in Nat
    BY <1>1
  <2>3. QED BY <2>1, <2>2
<1>4. low \in Nat /\ high \in Nat /\ low <= average /\ average <= high
  OBVIOUS
<1> HIDE DEF T, t, low, high
<1>5. wanted = (average * even) \div spent
  BY <1>3
<1> HIDE DEF wanted
<1>6. wanted \in Int
  <2> DEFINE a == average * even
  <2>1. a \in Int
    BY <1>3
  <2> HIDE DEF a
  <2>2. a \div spent \in Int
    BY <2>1, Division
  <2>3. QED BY <1>5, <2>2 DEF a
<1>7. ASSUME even <= spent PROVE wanted <= average
  <2> DEFINE a == average * even
  <2>1. a \in Int /\ average * even <= average * spent /\ average * spent = spent * average
    BY <1>3, <1>7, Products
  <2>2. a <= spent * average /\ average \in Int
    BY <2>1
  <2> HIDE DEF a
  <2>3. a \div spent <= average
    BY <2>1, <2>2, Quotients
  <2>4. QED BY <1>5, <2>3 DEF a
<1>8. ASSUME spent <= even PROVE average <= wanted
  <2> DEFINE a == average * even
  <2>1. a \in Int /\ average * spent <= average * even /\ average * spent = spent * average
    BY <1>3, <1>8, Products
  <2>2. spent * average <= a /\ average \in Int
    BY <2>1
  <2> HIDE DEF a
  <2>3. average <= a \div spent
    BY <2>1, <2>2, Quotients
  <2>4. QED BY <1>5, <2>3 DEF a
<1>9. /\ granted \in Int /\ low <= granted /\ granted <= high
      /\ wanted <= average => granted <= average
      /\ average <= wanted => average <= granted
  BY <1>4, <1>6 DEF Clamp, Larger, Smaller
<1> HIDE DEF granted
<1>10. /\ Larger(1, granted) \in Nat /\ Larger(1, granted) >= 1
       /\ Larger(1, granted) >= low
       /\ Larger(1, granted) <= Larger(1, high)
       /\ wanted <= average => Larger(1, granted) <= Larger(1, average)
       /\ average <= wanted => Larger(1, granted) >= average
  BY <1>4, <1>9 DEF Larger
<1>11. QED BY <1>2, <1>7, <1>8, <1>10 DEF low, high

(* The score of the compact the rule returns: the floor, or the score it    *)
(* granted, or one less where that one would need a mantissa of zero.       *)
LEMMA ScoreOfRule ==
    ASSUME NEW times, NEW scores, Len(times) \in Nat, Len(times) >= 2,
           NEW s \in Nat, s = NextScore(times, scores), s < Bytes * Unit,
           NEW score, score = CompactToScore(LwmaNextDifficulty(times, scores))
    PROVE  /\ score \in Nat /\ score >= MinScore
           /\ s < MinScore => score = MinScore
           /\ s >= MinScore => score = IF s % Unit = Unit - 1 THEN s - 1 ELSE s
<1>1. MinScore = CompactToScore(MIN_DIFFICULTY)
  BY DEF MinScore
<1>2. MinScore \in Nat /\ MinScore >= 4 /\ MinScore % Unit # Unit - 1
  BY Floor
<1>3. ~ (Len(times) < 2)
  OBVIOUS
<1>4. LwmaNextDifficulty(times, scores) = IF s < MinScore THEN MIN_DIFFICULTY ELSE ScoreToCompact(s)
  BY <1>1, <1>3 DEF LwmaNextDifficulty
<1>5. CASE s < MinScore
  <2>1. score = MinScore
    BY <1>1, <1>4, <1>5
  <2>2. QED BY <1>2, <1>5, <2>1
<1>6. CASE ~ (s < MinScore)
  <2>1. score = CompactToScore(ScoreToCompact(s))
    BY <1>4, <1>6
  <2>2. score = IF s % Unit = Unit - 1 THEN s - 1 ELSE s
    BY <2>1, ScoreSurvives
  <2>3. s % Unit = Unit - 1 => s # MinScore
    BY <1>2
  <2> DEFINE odd == s % Unit = Unit - 1
  <2> HIDE DEF odd
  <2>4. score = (IF odd THEN s - 1 ELSE s) /\ (odd => s # MinScore)
    BY <2>2, <2>3 DEF odd
  <2>5. score \in Nat /\ score >= MinScore
    BY <1>2, <1>6, <2>4
  <2>6. QED BY <1>2, <1>6, <2>2, <2>5
<1>7. QED BY <1>5, <1>6


-----------------------------------------------------------------------------
(* Chains of headers *)

\* What the headers of a chain carry.
Headers == [ exp : Nat \ {0}, mantissa : 1 .. Unit - 1 ]

LEMMA ScoresOfAllHeaders ==
    ASSUME NEW c \in Headers
    PROVE  CompactToScore(c) \in Nat
<1> DEFINE e == Larger(Bytes - c.exp, 0)
<1>1. c.exp \in Nat \ {0} /\ c.mantissa \in 1 .. Unit - 1
  BY DEF Headers
<1> HIDE DEF e
<1>2. QED BY <1>1, ScoreOf

LEMMA RuleInForce ==
    ASSUME TypeOK, height >= 1,
           NEW w, w = Window(Len(timestamps)),
           NEW s, s = NextScore(timestamps, difficulty_scores)
    PROVE  /\ w \in Nat \ {0} /\ Average \in Nat
           /\ s \in Nat /\ s >= 1 /\ s >= Average \div 2 /\ s <= Larger(1, 2 * Average)
           /\ (\A i \in 1 .. w : SolveTime(timestamps, i) >= TARGET_BLOCK_TIME)
                => s <= Larger(1, Average)
           /\ (\A i \in 1 .. w : SolveTime(timestamps, i) <= TARGET_BLOCK_TIME)
                => s >= Average
           /\ \A k \in Nat :
                (\A i \in 1 .. w : difficulty_scores[InWindow(Len(timestamps), i)] = k)
                    => Average = k
<1> DEFINE n == Len(timestamps)
           average == AverageScore(difficulty_scores)
           spent == WeightedSolveTime(timestamps)
           even == TARGET_BLOCK_TIME * WeightSum(w)
<1>1. /\ timestamps \in Seq(Int) /\ difficulty_scores \in Seq(Nat)
      /\ n \in Nat /\ Len(difficulty_scores) = n /\ Len(timestamps) = n
  BY DEF TypeOK
<1>2. n >= 2
  BY <1>1 DEF height
<1>3. w \in Nat \ {0}
  <2>1. Window(n) \in 1 .. n - 1
    BY <1>1, <1>2, WindowOf
  <2> HIDE DEF n
  <2>2. w = Window(n)
    BY DEF n
  <2>3. QED BY <1>1, <2>1, <2>2
<1> HIDE DEF n
<1>4. \A i \in 1 .. w : SolveTime(timestamps, i) \in Int /\ difficulty_scores[InWindow(n, i)] \in Nat
  <2>1. Len(difficulty_scores) = Len(timestamps) /\ Len(timestamps) >= 2
    BY <1>1, <1>2
  <2>2. \A i \in 1 .. Window(Len(timestamps)) :
            SolveTime(timestamps, i) \in Int /\ difficulty_scores[InWindow(Len(difficulty_scores), i)] \in Nat
    BY <1>1, <2>1, Readings
  <2>3. QED BY <1>1, <2>2
<1>5. /\ spent \in Nat \ {0}
      /\ (\A i \in 1 .. w : SolveTime(timestamps, i) >= TARGET_BLOCK_TIME) => even <= spent
      /\ (\A i \in 1 .. w : SolveTime(timestamps, i) <= TARGET_BLOCK_TIME) => spent <= even
  <2>1. Len(timestamps) >= 2 /\ \A i \in 1 .. w : SolveTime(timestamps, i) \in Int
    BY <1>1, <1>2, <1>4
  <2>2. QED BY <1>1, <2>1, WeightedSolveTimes
<1>6. /\ average \in Nat
      /\ \A k \in Nat : (\A i \in 1 .. w : difficulty_scores[InWindow(n, i)] = k) => average = k
  <2>1. Len(difficulty_scores) >= 2 /\ w = Window(Len(difficulty_scores))
    BY <1>1, <1>2
  <2>2. \A i \in 1 .. w : difficulty_scores[InWindow(Len(difficulty_scores), i)] \in Nat
    BY <1>1, <1>4
  <2>3. /\ average \in Nat
        /\ \A k \in Nat : (\A i \in 1 .. w : difficulty_scores[InWindow(Len(difficulty_scores), i)] = k)
                              => average = k
    BY <1>1, <2>1, <2>2, Averages
  <2>4. QED BY <1>1, <2>3
<1> HIDE DEF average, spent, even
<1>7. /\ s \in Nat /\ s >= 1 /\ s >= average \div 2 /\ s <= Larger(1, 2 * average)
      /\ even <= spent => s <= Larger(1, average)
      /\ spent <= even => s >= average
  <2>1. average = AverageScore(difficulty_scores) /\ spent = WeightedSolveTime(timestamps)
        /\ even = TARGET_BLOCK_TIME * WeightSum(w)
    BY DEF average, spent, even
  <2>2. QED BY <1>3, <1>5, <1>6, <2>1, NextScores
<1>8. Average = average
  BY DEF Average, average
<1>9. QED BY <1>1, <1>3, <1>5, <1>6, <1>7, <1>8

LEMMA NextCompact ==
    ASSUME TypeOK
    PROVE  CurrentDifficulty \in Compacts
<1> DEFINE s == NextScore(timestamps, difficulty_scores)
<1>1. Len(timestamps) \in Nat
  BY DEF TypeOK
<1>2. CASE height < 2
  BY <1>2, CompactsOfRule DEF CurrentDifficulty
<1>3. CASE ~ (height < 2)
  <2>1. height >= 1
    BY <1>1, <1>3 DEF height
  <2>2. s \in Nat
    BY <2>1, RuleInForce
  <2> HIDE DEF s
  <2>3. \/ CurrentDifficulty = INITIAL_DIFFICULTY
        \/ CurrentDifficulty = MIN_DIFFICULTY
        \/ CurrentDifficulty = ScoreToCompact(s)
    BY <1>3 DEF CurrentDifficulty, LwmaNextDifficulty, s
  <2>4. s \in Int
    BY <2>2
  <2>5. QED BY <2>3, <2>4, CompactsOfRule
<1>4. QED BY <1>2, <1>3

LEMMA CompactsAreHeaders == Compacts \subseteq Headers
<1>1. 1 .. Bytes \subseteq Nat \ {0}
  BY Numbers
<1>2. QED BY <1>1 DEF Compacts, Headers

(* A peer's compact with a target has an exponent and a mantissa.           *)
LEMMA PeersHeaders ==
    ASSUME NEW c \in PeerCompacts, CompactToTarget(c) > 0
    PROVE  c \in Headers
<1> DEFINE e == Smaller(c.exp, Bytes)
<1>1. c \in [ exp : Nat, mantissa : 0 .. Unit - 1 ]
  BY DifficultyAssumption
<1>2. c.exp \in Nat /\ c.mantissa \in 0 .. Unit - 1 /\ Unit \in Nat
  BY <1>1, SmallPowers
<1>3. c.exp # 0
  <2> SUFFICES ASSUME c.exp = 0 PROVE FALSE
    OBVIOUS
  <2>1. CompactToTarget(c) = 0
    BY DEF CompactToTarget
  <2>2. QED BY <2>1
<1>4. c.mantissa # 0
  <2> SUFFICES ASSUME c.mantissa = 0 PROVE FALSE
    OBVIOUS
  <2>1. e \in 1 .. Bytes
    BY <1>2, <1>3, Numbers DEF Smaller
  <2>2. CompactToTarget(c) = IF e >= 3 THEN 0 * Power[e - 3] ELSE 0 \div Power[3 - e]
    BY <1>3 DEF CompactToTarget
  <2> HIDE DEF e
  <2>3. CASE e >= 3
    <3> DEFINE p == Power[e - 3]
    <3>1. e - 3 \in 0 .. Bytes
      BY <2>1, <2>3, Numbers
    <3>2. p \in Nat
      BY <3>1, Powers
    <3> HIDE DEF p
    <3>3. 0 * p = 0
      BY <3>2
    <3>4. CompactToTarget(c) = 0
      BY <2>2, <2>3, <3>3 DEF p
    <3>5. QED BY <3>4
  <2>4. CASE ~ (e >= 3)
    <3> DEFINE p == Power[3 - e]
    <3>1. 3 - e \in 0 .. Bytes
      BY <2>1, <2>4, Numbers
    <3>2. p \in Nat \ {0}
      BY <3>1, Powers
    <3> HIDE DEF p
    <3>3. p * 0 = 0 /\ 0 \in Int
      BY <3>2
    <3>4. 0 \div p = 0
      BY <3>2, <3>3, QuotientOfProduct
    <3>5. CompactToTarget(c) = 0
      BY <2>2, <2>4, <3>4 DEF p
    <3>6. QED BY <3>5
  <2>5. QED BY <2>3, <2>4
<1>5. c.exp \in Nat \ {0} /\ c.mantissa \in 1 .. Unit - 1
  BY <1>2, <1>3, <1>4
<1>6. QED BY <1>1, <1>5 DEF Headers

LEMMA Appends ==
    ASSUME NEW S, NEW s \in Seq(S), NEW x \in S
    PROVE  /\ Append(s, x) \in Seq(S) /\ Len(Append(s, x)) = Len(s) + 1 /\ Len(s) \in Nat
           /\ \A i \in 1 .. Len(s) : Append(s, x)[i] = s[i]
           /\ Append(s, x)[Len(s) + 1] = x
OBVIOUS

\* Every score is that of its header.
Matched == \A i \in DOMAIN difficulty : difficulty_scores[i] = CompactToScore(difficulty[i])

DInv == TypeOK /\ Matched

LEMMA DifficultyStarts == Init => DInv
<1> SUFFICES ASSUME Init PROVE DInv
  OBVIOUS
<1> DEFINE c == INITIAL_DIFFICULTY
           s == CompactToScore(c)
<1>1. c \in Headers
  BY CompactsOfRule, CompactsAreHeaders
<1>2. s \in Nat
  BY <1>1, ScoresOfAllHeaders
<1>3. timestamps = << 0 >> /\ difficulty_scores = << s >> /\ difficulty = << c >>
  BY DEF Init
<1> HIDE DEF s, c
<1>4. TypeOK
  BY <1>1, <1>2, <1>3 DEF TypeOK, Headers
<1>5. Matched
  BY <1>3 DEF Matched, s
<1>6. QED BY <1>4, <1>5 DEF DInv

(* A header that is added, whoever made it.                                 *)
LEMMA HeadersAdded ==
    ASSUME DInv, NEW seconds \in SolveTimes, NEW c \in Headers, AddHeader(seconds, c)
    PROVE  DInv'
<1> DEFINE n == Len(timestamps)
           s == CompactToScore(c)
           time == Last(timestamps) + seconds
<1>1. /\ timestamps \in Seq(Int) /\ timestamps # << >> /\ difficulty \in Seq(Headers)
      /\ difficulty_scores \in Seq(Nat)
      /\ n \in Nat /\ Len(difficulty_scores) = n /\ Len(difficulty) = n
  BY DEF DInv, TypeOK, Headers
<1>2. time \in Int
  <2>1. Last(timestamps) \in Int
    BY <1>1 DEF Last
  <2>2. seconds \in Int
    BY DifficultyAssumption
  <2>3. QED BY <2>1, <2>2
<1>3. s \in Nat
  BY ScoresOfAllHeaders
<1>4. /\ timestamps' = Append(timestamps, time)
      /\ difficulty' = Append(difficulty, c)
      /\ difficulty_scores' = Append(difficulty_scores, s)
  BY DEF AddHeader
<1> HIDE DEF time, s
<1>5. timestamps' \in Seq(Int) /\ Len(timestamps') = n + 1
  BY <1>1, <1>2, <1>4, Appends
<1>6. /\ difficulty' \in Seq(Headers) /\ Len(difficulty') = n + 1
      /\ \A i \in 1 .. n : difficulty'[i] = difficulty[i]
      /\ difficulty'[n + 1] = c
  <2> HIDE DEF n
  <2>1. QED BY <1>1, <1>4, Appends
<1>7. /\ difficulty_scores' \in Seq(Nat) /\ Len(difficulty_scores') = n + 1
      /\ \A i \in 1 .. n : difficulty_scores'[i] = difficulty_scores[i]
      /\ difficulty_scores'[n + 1] = s
  <2> HIDE DEF n
  <2>1. QED BY <1>1, <1>3, <1>4, Appends
<1>8. timestamps' # << >>
  BY <1>1, <1>5
<1>9. TypeOK'
  BY <1>5, <1>6, <1>7, <1>8 DEF TypeOK, Headers
<1>10. \A i \in 1 .. n : difficulty_scores[i] = CompactToScore(difficulty[i])
  BY <1>1 DEF DInv, Matched
<1>11. DOMAIN difficulty' = 1 .. n + 1
  BY <1>6
<1>12. Matched'
  <2> SUFFICES ASSUME NEW i \in 1 .. n + 1
               PROVE  difficulty_scores'[i] = CompactToScore(difficulty'[i])
    BY <1>11 DEF Matched
  <2>1. i \in 1 .. n \/ i = n + 1
    BY <1>1
  <2> HIDE DEF n
  <2>2. QED BY <1>6, <1>7, <1>10, <2>1, Zenon DEF s
<1>13. QED BY <1>9, <1>12 DEF DInv

LEMMA DifficultyInductive == DInv /\ [Next]_vars => DInv'
<1> SUFFICES ASSUME DInv, [Next]_vars PROVE DInv'
  OBVIOUS
<1>1. CASE MineBlock
  <2>1. PICK seconds \in SolveTimes : AddHeader(seconds, CurrentDifficulty)
    BY <1>1 DEF MineBlock
  <2>2. CurrentDifficulty \in Headers
    BY NextCompact, CompactsAreHeaders DEF DInv
  <2>3. QED BY <2>1, <2>2, HeadersAdded
<1>2. CASE PeerBlock
  <2>1. PICK seconds \in SolveTimes, c \in PeerCompacts :
            CompactToTarget(c) > 0 /\ AddHeader(seconds, c)
    BY <1>2 DEF PeerBlock
  <2>2. c \in Headers
    BY <2>1, PeersHeaders
  <2>3. QED BY <2>1, <2>2, HeadersAdded
<1>3. CASE Restart
  <2>1. /\ difficulty \in Seq(Headers) /\ Len(difficulty) = Len(timestamps)
        /\ difficulty' = difficulty /\ timestamps' = timestamps
        /\ difficulty_scores' = [ i \in 1 .. Len(difficulty) |-> CompactToScore(difficulty[i]) ]
    BY <1>3 DEF DInv, TypeOK, Headers, Restart
  <2>2. \A i \in 1 .. Len(difficulty) : CompactToScore(difficulty[i]) \in Nat
    <3>1. \A i \in 1 .. Len(difficulty) : difficulty[i] \in Headers
      BY <2>1
    <3>2. QED BY <3>1, ScoresOfAllHeaders
  <2>3. difficulty_scores' \in Seq(Nat) /\ Len(difficulty_scores') = Len(difficulty)
    BY <2>1, <2>2
  <2>4. TypeOK'
    BY <2>1, <2>3 DEF DInv, TypeOK, Headers
  <2>5. Matched'
    BY <2>1 DEF Matched
  <2>6. QED BY <2>4, <2>5 DEF DInv
<1>4. CASE UNCHANGED vars
  BY <1>4 DEF DInv, TypeOK, Matched, vars
<1>5. QED BY <1>1, <1>2, <1>3, <1>4 DEF Next

LEMMA DifficultyInvariant == Spec => []DInv
<1>1. Init => DInv
  BY DifficultyStarts
<1>2. DInv /\ [Next]_vars => DInv'
  BY DifficultyInductive
<1>3. QED BY <1>1, <1>2, PTL DEF Spec


-----------------------------------------------------------------------------
(* Theorems *)

(* Every chain of headers the node can come to hold is well formed: as many *)
(* timestamps and scores as headers, and no header, mined by the rule or    *)
(* taken from a peer, without an exponent and a mantissa.                   *)
THEOREM DifficultyTypeCorrect == Spec => []TypeOK
<1>1. DInv => TypeOK
  BY DEF DInv
<1>2. QED BY <1>1, DifficultyInvariant, PTL

(* Scores and headers agree for ever: in every chain the kept scores are    *)
(* those of the headers, through blocks and restarts, the compact the next  *)
(* block is mined at survives compact_to_difficulty_score and back, and the *)
(* target of every header survives target_to_compact and back.              *)
THEOREM ScoresFollowHeaders == Spec => []ScoresOfHeaders
<1>1. DInv => ScoresOfHeaders
  <2> SUFFICES ASSUME DInv PROVE ScoresOfHeaders
    OBVIOUS
  <2>1. ScoreToCompact(CompactToScore(CurrentDifficulty)) = CurrentDifficulty
    BY NextCompact, CompactSurvives DEF DInv
  <2>2. \A i \in DOMAIN difficulty :
            difficulty[i].exp \in Nat \ {0} /\ difficulty[i].mantissa \in 0 .. Unit - 1
    <3>1. \A i \in DOMAIN difficulty : difficulty[i] \in Headers
      <4>1. difficulty \in Seq(Headers)
        BY DEF DInv, TypeOK, Headers
      <4>2. QED BY <4>1
    <3>2. \A c \in Headers : c.exp \in Nat \ {0} /\ c.mantissa \in 0 .. Unit - 1
      BY SmallPowers DEF Headers
    <3>3. QED BY <3>1, <3>2, Zenon
  <2>3. \A i \in DOMAIN difficulty :
            CompactToTarget(TargetToCompact(CompactToTarget(difficulty[i]))) = CompactToTarget(difficulty[i])
    BY <2>2, TargetSurvives, Zenon
  <2>4. QED BY <2>1, <2>3, Zenon DEF DInv, Matched, ScoresOfHeaders
<1>2. QED BY <1>1, DifficultyInvariant, PTL

(* In force, the next score is the floor, or what the rule grants, or one   *)
(* less.                                                                    *)
LEMMA ScoreInForce ==
    ASSUME TypeOK, InForce,
           NEW s, s = NextScore(timestamps, difficulty_scores)
    PROVE  /\ s \in Nat /\ Average \in Nat /\ CurrentScore \in Nat
           /\ s >= Average \div 2 /\ s <= Larger(1, 2 * Average)
           /\ CurrentScore >= MinScore
           /\ s < MinScore => CurrentScore = MinScore
           /\ s >= MinScore => CurrentScore = IF s % Unit = Unit - 1 THEN s - 1 ELSE s
           /\ \A i \in Recent : InWindow(height + 1, i) = InWindow(Len(timestamps), i)
<1> DEFINE n == Len(timestamps)
           score == CompactToScore(LwmaNextDifficulty(timestamps, difficulty_scores))
           top == Bytes * Unit
<1>1. n \in Nat /\ height = n - 1 /\ height >= 2 /\ 2 * Average < top
  BY DEF TypeOK, height, InForce
<1>2. n >= 2 /\ height >= 1 /\ ~ (height < 2) /\ height + 1 = n
  BY <1>1
<1>3. Average \in Nat /\ s \in Nat /\ s >= Average \div 2 /\ s <= Larger(1, 2 * Average)
  BY <1>2, RuleInForce
<1>4. s < top
  <2>1. top \in Nat /\ top >= 8
    <3>1. Unit \in Nat /\ Unit >= 8
      BY SmallPowers
    <3>2. Unit * 1 <= Unit * Bytes /\ Unit * 1 = Unit /\ Unit * Bytes = Bytes * Unit
      BY <3>1, Numbers, Products
    <3>3. Bytes * Unit \in Nat
      BY <3>1, Numbers
    <3>4. QED BY <3>1, <3>2, <3>3
  <2> HIDE DEF top
  <2>2. QED BY <1>1, <1>3, <2>1 DEF Larger
<1>5. CurrentScore = score
  BY <1>2 DEF CurrentScore, CurrentDifficulty
<1>6. /\ score \in Nat /\ score >= MinScore
      /\ s < MinScore => score = MinScore
      /\ s >= MinScore => score = IF s % Unit = Unit - 1 THEN s - 1 ELSE s
  <2>1. Len(timestamps) \in Nat /\ Len(timestamps) >= 2 /\ s < Bytes * Unit
    BY <1>1, <1>2, <1>4
  <2>2. QED BY <1>3, <2>1, ScoreOfRule
<1> HIDE DEF score
<1>7. QED BY <1>2, <1>3, <1>5, <1>6

(* Whatever solve times headers claim, lwma_next_difficulty moves the score *)
(* by a factor of two at most from the average of its window, and never     *)
(* below that of MIN_DIFFICULTY.                                            *)
THEOREM StepsAreBounded == Spec => []ScoreStepBounded
<1>1. DInv => ScoreStepBounded
  <2> SUFFICES ASSUME DInv, InForce
               PROVE  /\ CurrentScore >= MinScore
                      /\ CurrentScore <= Larger(2 * Average, MinScore)
                      /\ CurrentScore >= (Average \div 2) - 1
    BY DEF ScoreStepBounded
  <2> DEFINE s == NextScore(timestamps, difficulty_scores)
             half == Average \div 2
             odd == s % Unit = Unit - 1
  <2>1. /\ s \in Nat /\ Average \in Nat /\ CurrentScore \in Nat
        /\ s >= half /\ s <= Larger(1, 2 * Average)
        /\ CurrentScore >= MinScore
        /\ s < MinScore => CurrentScore = MinScore
        /\ s >= MinScore => CurrentScore = IF odd THEN s - 1 ELSE s
    BY ScoreInForce DEF DInv
  <2>2. half \in Nat
    BY <2>1
  <2>3. MinScore \in Nat /\ MinScore >= 4
    BY Floor
  <2> HIDE DEF s, half, odd
  <2>4. CurrentScore <= Larger(2 * Average, MinScore) /\ CurrentScore >= half - 1
    BY <2>1, <2>2, <2>3 DEF Larger
  <2>5. QED BY <2>1, <2>4 DEF half
<1>2. QED BY <1>1, DifficultyInvariant, PTL

(* A window of blocks at TARGET_BLOCK_TIME or slower never raises the score *)
(* above its average or the floor, one of blocks at it or faster never      *)
(* lowers it by more than one.                                              *)
THEOREM RulePushesRight == Spec => []PushesTheRightWay
<1>1. DInv => PushesTheRightWay
  <2> SUFFICES ASSUME DInv, InForce
               PROVE  /\ (\A i \in Recent : SolveTime(timestamps, i) >= TARGET_BLOCK_TIME)
                            => CurrentScore <= Larger(Average, MinScore)
                      /\ (\A i \in Recent : SolveTime(timestamps, i) <= TARGET_BLOCK_TIME)
                            => CurrentScore >= Average - 1
    BY DEF PushesTheRightWay
  <2> DEFINE s == NextScore(timestamps, difficulty_scores)
             odd == s % Unit = Unit - 1
  <2>1. /\ s \in Nat /\ Average \in Nat /\ CurrentScore \in Nat
        /\ s < MinScore => CurrentScore = MinScore
        /\ s >= MinScore => CurrentScore = IF odd THEN s - 1 ELSE s
    BY ScoreInForce DEF DInv
  <2>2. MinScore \in Nat /\ MinScore >= 4
    BY Floor
  <2>3. TypeOK /\ height >= 1
    BY DEF DInv, TypeOK, InForce, height
  <2>4. /\ (\A i \in Recent : SolveTime(timestamps, i) >= TARGET_BLOCK_TIME) => s <= Larger(1, Average)
        /\ (\A i \in Recent : SolveTime(timestamps, i) <= TARGET_BLOCK_TIME) => s >= Average
    BY <2>3, RuleInForce DEF Recent
  <2> HIDE DEF s, odd
  <2>5. s <= Larger(1, Average) => CurrentScore <= Larger(Average, MinScore)
    BY <2>1, <2>2 DEF Larger
  <2>6. s >= Average => CurrentScore >= Average - 1
    BY <2>1, <2>2
  <2>7. QED BY <2>4, <2>5, <2>6
<1>2. QED BY <1>1, DifficultyInvariant, PTL

(* A window of blocks at one score and exactly TARGET_BLOCK_TIME apart      *)
(* keeps that score, for every block time, window and base: the weighted    *)
(* sums cancel without a rest, and the score of a header never is one that  *)
(* would lose its mantissa.                                                 *)
THEOREM SteadyChainsStay == Spec => []SteadyOnTime
<1>1. DInv => SteadyOnTime
  <2> DEFINE last == Last(difficulty_scores)
             s == NextScore(timestamps, difficulty_scores)
             odd == s % Unit = Unit - 1
  <2> SUFFICES ASSUME DInv, InForce,
                      \A i \in Recent :
                          /\ SolveTime(timestamps, i) = TARGET_BLOCK_TIME
                          /\ difficulty_scores[InWindow(height + 1, i)] = last
               PROVE  CurrentScore = Larger(last, MinScore)
    BY DEF SteadyOnTime
  <2>1. /\ s \in Nat /\ Average \in Nat /\ CurrentScore \in Nat
        /\ s < MinScore => CurrentScore = MinScore
        /\ s >= MinScore => CurrentScore = IF odd THEN s - 1 ELSE s
        /\ \A i \in Recent : InWindow(height + 1, i) = InWindow(Len(timestamps), i)
    BY ScoreInForce DEF DInv
  <2>2. MinScore \in Nat /\ MinScore >= 4
    BY Floor
  <2>3. TypeOK /\ height >= 1
    BY DEF DInv, TypeOK, InForce, height
  <2>4. last \in Nat /\ last % Unit # Unit - 1
    <3> DEFINE n == Len(difficulty)
               c == difficulty[n]
    <3>1. n \in 1 .. n /\ Len(difficulty_scores) = n /\ c \in Headers /\ n \in DOMAIN difficulty
      <4>1. difficulty \in Seq(Headers) /\ Len(difficulty_scores) = n /\ n = Len(timestamps)
        BY <2>3 DEF TypeOK, Headers
      <4>2. n \in Nat /\ n >= 2
        BY <2>3, <4>1 DEF height
      <4>3. QED BY <4>1, <4>2
    <3>2. last = CompactToScore(c)
      BY <3>1 DEF DInv, Matched, Last
    <3> DEFINE e == Larger(Bytes - c.exp, 0)
    <3>3. c.exp \in Nat \ {0} /\ c.mantissa \in 1 .. Unit - 1
      BY <3>1 DEF Headers
    <3> HIDE DEF c, e, last
    <3>4. CompactToScore(c) \in Nat /\ CompactToScore(c) % Unit = Unit - 1 - c.mantissa
      BY <3>3, ScoreOf
    <3>5. Unit - 1 - c.mantissa # Unit - 1
      BY <3>3, SmallPowers
    <3>6. QED BY <3>2, <3>4, <3>5
  <2>5. TARGET_BLOCK_TIME \in Nat
    BY Numbers
  <2>6. /\ \A i \in Recent : SolveTime(timestamps, i) >= TARGET_BLOCK_TIME
        /\ \A i \in Recent : SolveTime(timestamps, i) <= TARGET_BLOCK_TIME
    BY <2>5
  <2>7. \A i \in Recent : difficulty_scores[InWindow(Len(timestamps), i)] = last
    BY <2>1
  <2> HIDE DEF last
  <2>8. s <= Larger(1, Average) /\ s >= Average /\ s >= 1
    BY <2>3, <2>6, RuleInForce DEF Recent
  <2>9. Average = last
    BY <2>3, <2>4, <2>7, RuleInForce DEF Recent
  <2>10. s >= MinScore => s = last /\ ~ odd
    <3> SUFFICES ASSUME s >= MinScore PROVE s = last /\ ~ odd
      OBVIOUS
    <3> HIDE DEF s
    <3>1. s = last
      BY <2>1, <2>2, <2>4, <2>8, <2>9 DEF Larger
    <3>2. QED BY <2>4, <3>1
  <2> HIDE DEF s, odd
  <2>11. CurrentScore = Larger(last, MinScore)
    BY <2>1, <2>2, <2>4, <2>8, <2>9, <2>10 DEF Larger
  <2>12. QED BY <2>11
<1>2. QED BY <1>1, DifficultyInvariant, PTL
=============================================================================
