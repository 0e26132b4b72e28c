---------------------------- MODULE LedgerProofs ----------------------------
(***************************************************************************)
(* Facts about the ledger rules that the proofs of Chain and Node rest on, *)
(* for every set of transactions.                                          *)
(***************************************************************************)
EXTENDS Ledger, SumTheorems, SequencesExt

(* Applying the transactions of a body to a set of outpoints gives a set of *)
(* outpoints.                                                               *)
LEMMA ApplyBlockUtxosType ==
    ASSUME NEW utxos \in SUBSET OutPoint, NEW body \in Seq(Tx)
    PROVE  ApplyBlockUtxos(utxos, body) \in SUBSET OutPoint
<1>1. ASSUME NEW i \in DOMAIN body PROVE Created(body[i]) \subseteq OutPoint
  BY DEF OutPoint
<1>2. QED BY <1>1 DEF ApplyBlockUtxos

(* An output leaves the UTXO set only when a transaction of the block       *)
(* consumes it.                                                             *)
LEMMA OnlySpentLeave ==
    ASSUME NEW utxos, NEW body, NEW o \in utxos, o \notin ApplyBlockUtxos(utxos, body)
    PROVE  \E j \in DOMAIN body : o \in Spent(body[j])
BY DEF ApplyBlockUtxos

(* A transaction that validation takes has all its inputs unspent, and it   *)
(* needs no other outputs to be taken.                                      *)
LEMMA ValidOnItsInputs ==
    ASSUME NEW t, NEW utxos, ~ IsCoinbase(t), ValidateTransaction(t, utxos, {})
    PROVE  Spent(t) \subseteq utxos /\ ValidateTransaction(t, Spent(t), {})
<1>1. Spent(t) = { OutPointOf(Inputs[t][i]) : i \in DOMAIN Inputs[t] }
  BY DEF Spent
<1>2. \A i \in DOMAIN Inputs[t] : OutPointOf(Inputs[t][i]) \in utxos
  BY DEF ValidateTransaction, InputOk
<1>3. \A i \in DOMAIN Inputs[t] : InputOk(Inputs[t][i], Spent(t))
  BY <1>1 DEF ValidateTransaction, InputOk
<1>4. QED BY <1>1, <1>2, <1>3 DEF ValidateTransaction

(* More unspent outputs never make a transaction invalid.                   *)
LEMMA ValidInLargerSet ==
    ASSUME NEW t, NEW utxos, NEW more, utxos \subseteq more,
           ValidateTransaction(t, utxos, {})
    PROVE  ValidateTransaction(t, more, {})
<1>1. \A i \in DOMAIN Inputs[t] : InputOk(Inputs[t][i], more)
  BY DEF ValidateTransaction, InputOk
<1>2. QED BY <1>1 DEF ValidateTransaction

-----------------------------------------------------------------------------
(* What rewards, outputs and sets of outputs are worth                      *)

\* A function on 0 .. n that halves from each argument to the next.
Halves(f, n) ==
    \A i \in 0 .. n : f[i] = IF i = 0 THEN InitialReward ELSE f[i - 1] \div 2

(* The recursion of Halved defines a function.                              *)
LEMMA HalvedExists ==
    ASSUME NEW n \in Nat
    PROVE  \E f : f = [ i \in 0 .. n |-> IF i = 0 THEN InitialReward ELSE f[i - 1] \div 2 ]
<1> DEFINE Has(k) == \E f : Halves(f, k)
           P == { k \in Nat : Has(k) }
<1>1. 0 \in P
  <2>1. Halves([ i \in {0} |-> InitialReward ], 0)
    BY DEF Halves
  <2>2. QED BY <2>1
<1>2. ASSUME NEW k \in Nat, k \in P PROVE k + 1 \in P
  <2>1. PICK f : Halves(f, k)
    BY <1>2
  <2> DEFINE g == [ i \in 0 .. k + 1 |-> IF i = k + 1 THEN f[k] \div 2 ELSE f[i] ]
  <2>2. ASSUME NEW i \in 0 .. k + 1
        PROVE  g[i] = IF i = 0 THEN InitialReward ELSE g[i - 1] \div 2
    <3>1. CASE i = k + 1
      BY <3>1
    <3>2. CASE i # k + 1
      <4>1. i \in 0 .. k /\ g[i] = f[i] /\ (i # 0 => g[i - 1] = f[i - 1])
        BY <3>2
      <4>2. QED BY <2>1, <4>1 DEF Halves
    <3>3. QED BY <3>1, <3>2
  <2>3. Halves(g, k + 1)
    BY <2>2 DEF Halves
  <2>4. QED BY <2>3
<1>3. n \in P
  <2> HIDE DEF P
  <2>1. QED BY <1>1, <1>2, NaturalInduction
<1>4. PICK f : Halves(f, n)
  BY <1>3
<1> DEFINE g == [ i \in 0 .. n |-> f[i] ]
<1>5. g = [ i \in 0 .. n |-> IF i = 0 THEN InitialReward ELSE g[i - 1] \div 2 ]
  BY <1>4 DEF Halves
<1>6. QED BY <1>5

(* The reward of a block is a number of coins; that of the first is the     *)
(* initial reward.                                                          *)
LEMMA BlockRewardType ==
    /\ \A h \in Nat : BlockReward(h) \in Nat
    /\ BlockReward(0) = InitialReward
<1>1. PICK f : f = [ i \in 0 .. 63 |-> IF i = 0 THEN InitialReward ELSE f[i - 1] \div 2 ]
  BY HalvedExists
<1>2. Halved = [ i \in 0 .. 63 |-> IF i = 0 THEN InitialReward ELSE Halved[i - 1] \div 2 ]
  BY <1>1 DEF Halved
<1>3. \A i \in 0 .. 63 : Halved[i] = IF i = 0 THEN InitialReward ELSE Halved[i - 1] \div 2
  BY <1>2
<1> DEFINE P == { n \in Nat : n <= 63 => Halved[n] \in Nat }
<1>4. 0 \in P
  <2>1. 0 \in 0 .. 63 /\ 0 \in Nat
    OBVIOUS
  <2>2. Halved[0] = InitialReward
    BY <1>3, <2>1
  <2>3. QED BY <2>1, <2>2, LedgerAssumption
<1>5. ASSUME NEW n \in Nat, n \in P PROVE n + 1 \in P
  <2>1. CASE n + 1 <= 63
    <3>1. n + 1 \in 0 .. 63 /\ n + 1 # 0 /\ Halved[n] \in Nat /\ n + 1 - 1 = n
      BY <1>5, <2>1
    <3>2. Halved[n + 1] = Halved[n] \div 2
      BY <1>3, <3>1
    <3>3. QED BY <3>1, <3>2
  <2>2. QED BY <2>1
<1>6. \A n \in 0 .. 63 : Halved[n] \in Nat
  <2>1. Nat \subseteq P
    <3> HIDE DEF P
    <3>1. QED BY <1>4, <1>5, NaturalInduction
  <2>2. QED BY <2>1
<1>7. ASSUME NEW h \in Nat PROVE BlockReward(h) \in Nat
  <2>1. h \div HalvingInterval \in Nat
    BY LedgerAssumption
  <2>2. QED BY <1>6, <2>1 DEF BlockReward
<1>8. BlockReward(0) = InitialReward
  <2>1. 0 \div HalvingInterval = 0
    BY LedgerAssumption
  <2>2. QED BY <1>3, <2>1 DEF BlockReward
<1>9. QED BY <1>7, <1>8

\* What each output is worth.
Amount == [ o \in OutPoint |-> OutputAt(o).amount ]

(* Each index a transaction creates has one output that lasts, the last one *)
(* inserted under it.                                                       *)
LEMMA LastOfIndex ==
    ASSUME NEW t \in Tx
    PROVE  /\ Len(Outputs[t]) \in Nat /\ DOMAIN Outputs[t] = 1 .. Len(Outputs[t])
           /\ Lasting(t) \subseteq DOMAIN Outputs[t]
           /\ \A i \in DOMAIN Outputs[t] : \E j \in Lasting(t) : OutputIndex(j) = OutputIndex(i)
           /\ \A i, j \in Lasting(t) : OutputIndex(i) = OutputIndex(j) => i = j
           /\ Len(Outputs[t]) <= U16 => Lasting(t) = DOMAIN Outputs[t]
<1> DEFINE n == Len(Outputs[t])
<1>1. n \in Nat /\ DOMAIN Outputs[t] = 1 .. n /\ U16 \in Nat /\ U16 # 0
  BY LedgerAssumption
<1> HIDE DEF n
<1>2. \A i : i \in Lasting(t) <=> i \in 1 .. n /\ i + U16 > n
  BY <1>1 DEF Lasting, n
<1>3. ASSUME NEW i \in 1 .. n PROVE \E j \in Lasting(t) : OutputIndex(j) = OutputIndex(i)
  <2> DEFINE k == (n - i) \div U16
             r == (n - i) % U16
             q == (i - 1) \div U16
             m == (i - 1) % U16
             j == i + U16 * k
  <2>1. /\ n - i \in Nat /\ i - 1 \in Nat
        /\ k \in Int /\ r \in 0 .. U16 - 1 /\ n - i = U16 * k + r
        /\ q \in Int /\ m \in 0 .. U16 - 1 /\ i - 1 = U16 * q + m
    <3>1. n - i \in Nat /\ i - 1 \in Nat /\ n - i \in Int /\ i - 1 \in Int
      BY <1>1
    <3>2. k \in Int /\ r \in 0 .. U16 - 1 /\ n - i = U16 * k + r
      BY <1>1, <3>1, Division
    <3>3. q \in Int /\ m \in 0 .. U16 - 1 /\ i - 1 = U16 * q + m
      BY <1>1, <3>1, Division
    <3> HIDE DEF k, r, q, m
    <3>4. QED BY <3>1, <3>2, <3>3
  <2>2. k >= 0
    <3>1. U16 * 0 <= n - i /\ n - i \in Int
      BY <1>1, <2>1
    <3>2. 0 <= k
      BY <1>1, <3>1, Quotients
    <3>3. QED BY <2>1, <3>2
  <2>3. U16 * k \in Nat
    BY <1>1, <2>1, <2>2
  <2>4. U16 * (q + k) = U16 * q + U16 * k /\ q + k \in Int /\ U16 * q \in Int
    BY <1>1, <2>1
  <2> HIDE DEF k, r, q, m
  <2>5. j \in 1 .. n /\ j + U16 > n /\ j - 1 = U16 * (q + k) + m
    <3> DEFINE a == U16 * k
               b == U16 * q
    <3>1. a \in Nat /\ b \in Int /\ U16 * (q + k) = b + a /\ j = i + a
      BY <2>3, <2>4
    <3>2. n - i = a + r /\ i - 1 = b + m /\ r \in 0 .. U16 - 1 /\ m \in 0 .. U16 - 1
      BY <2>1
    <3> HIDE DEF a, b, j
    <3>3. j \in 1 .. n /\ j + U16 > n /\ j - 1 = (b + a) + m
      BY <1>1, <3>1, <3>2
    <3>4. QED BY <3>1, <3>3
  <2>6. (j - 1) % U16 = m
    <3> DEFINE c == q + k
               a == j - 1
    <3>1. c \in Int /\ a = U16 * c + m /\ m \in 0 .. U16 - 1 /\ U16 \in Nat \ {0}
      BY <1>1, <2>1, <2>4, <2>5
    <3> HIDE DEF c, a, j
    <3>2. a % U16 = m
      BY <3>1, QuotientOf
    <3>3. QED BY <3>2 DEF a
  <2>7. OutputIndex(j) = OutputIndex(i)
    BY <2>6 DEF OutputIndex, m
  <2>8. QED BY <1>2, <2>5, <2>7
<1>4. ASSUME NEW i \in Lasting(t), NEW j \in Lasting(t), OutputIndex(i) = OutputIndex(j), i < j
      PROVE  FALSE
  <2> DEFINE p == (i - 1) \div U16
             q == (j - 1) \div U16
             m == (i - 1) % U16
  <2>1. i \in 1 .. n /\ j \in 1 .. n /\ i + U16 > n /\ i \in Nat /\ j \in Nat
    BY <1>1, <1>2
  <2>2. /\ p \in Int /\ q \in Int /\ m \in Int
        /\ i - 1 = U16 * p + m /\ j - 1 = U16 * q + m
    <3>1. i - 1 \in Int /\ j - 1 \in Int /\ m = (j - 1) % U16
      BY <1>4, <2>1 DEF OutputIndex
    <3>2. p \in Int /\ m \in 0 .. U16 - 1 /\ i - 1 = U16 * p + m
      BY <1>1, <3>1, Division
    <3>3. q \in Int /\ j - 1 = U16 * q + ((j - 1) % U16)
      BY <1>1, <3>1, Division
    <3> HIDE DEF p, q, m
    <3>4. QED BY <1>1, <3>1, <3>2, <3>3
  <2> HIDE DEF p, q, m
  <2>3. U16 * p \in Int /\ U16 * q \in Int
    BY <1>1, <2>2
  <2>4. p < q
    <3>1. q < p => U16 * q + U16 <= U16 * p
      BY <1>1, <2>2, Multiples
    <3>2. p = q => U16 * p = U16 * q
      OBVIOUS
    <3>3. QED BY <1>1, <1>4, <2>1, <2>2, <2>3, <3>1, <3>2
  <2>5. U16 * p + U16 <= U16 * q
    BY <1>1, <2>2, <2>4, Multiples
  <2>6. QED BY <1>1, <2>1, <2>2, <2>3, <2>5
<1>5. ASSUME NEW i \in Lasting(t), NEW j \in Lasting(t), OutputIndex(i) = OutputIndex(j)
      PROVE  i = j
  <2>1. i \in Nat /\ j \in Nat
    BY <1>1, <1>2
  <2>2. QED BY <1>4, <1>5, <2>1
<1>6. ASSUME n <= U16 PROVE Lasting(t) = 1 .. n
  <2>1. \A i \in 1 .. n : i + U16 > n
    BY <1>1, <1>6
  <2>2. QED BY <1>2, <2>1
<1>7. QED BY <1>1, <1>2, <1>3, <1>5, <1>6 DEF n

(* An outpoint stands for the output that lasts at its index.               *)
LEMMA OutputOfIndex ==
    ASSUME NEW t \in Tx, NEW i \in Lasting(t)
    PROVE  OutputAt(<<t, OutputIndex(i)>>) = Outputs[t][i]
<1> DEFINE j == CHOOSE k \in Lasting(t) : OutputIndex(k) = OutputIndex(i)
<1>1. j \in Lasting(t) /\ OutputIndex(j) = OutputIndex(i)
  OBVIOUS
<1>2. j = i
  <2> HIDE DEF j
  <2>1. QED BY <1>1, LastOfIndex
<1>3. OutputAt(<<t, OutputIndex(i)>>) = Outputs[t][j]
  BY DEF OutputAt
<1>4. QED BY <1>2, <1>3

LEMMA AmountType == \A o \in OutPoint : Amount[o] \in Nat /\ Amount[o] = OutputAt(o).amount
<1> SUFFICES ASSUME NEW o \in OutPoint PROVE OutputAt(o).amount \in Nat
  BY DEF Amount
<1>1. PICK t \in Tx : o \in Created(t)
  BY DEF OutPoint
<1>2. PICK k \in DOMAIN Outputs[t] : o = <<t, OutputIndex(k)>>
  BY <1>1 DEF Created
<1>3. PICK i \in Lasting(t) : OutputIndex(i) = OutputIndex(k)
  BY LastOfIndex
<1>4. OutputAt(o) = Outputs[t][i]
  BY <1>2, <1>3, OutputOfIndex
<1>5. i \in DOMAIN Outputs[t]
  BY LastOfIndex
<1>6. QED BY <1>4, <1>5, LedgerAssumption

LEMMA TotalAmountIs ==
    ASSUME NEW utxos \in SUBSET OutPoint, IsFiniteSet(utxos)
    PROVE  TotalAmount(utxos) = SumFunctionOnSet(Amount, utxos) /\ TotalAmount(utxos) \in Nat
<1> DEFINE f == [ o \in utxos |-> OutputAt(o).amount ]
<1>1. \A o \in utxos : f[o] \in Int /\ f[o] = Amount[o] /\ Amount[o] \in Nat
  BY AmountType
<1> HIDE DEF f
<1>2. SumFunctionOnSet(f, utxos) = SumFunctionOnSet(Amount, utxos)
  BY <1>1, SameSum
<1>3. SumFunctionOnSet(Amount, utxos) \in Nat
  BY <1>1, SumOfNaturals
<1>4. QED BY <1>2, <1>3 DEF TotalAmount, f

(* What a transaction creates is worth no more than the sum of its outputs, *)
(* and just that if each has an index of its own.                           *)
LEMMA CreatedAmount ==
    ASSUME NEW t \in Tx
    PROVE  /\ IsFiniteSet(Created(t)) /\ Created(t) \subseteq OutPoint
           /\ OutputSum(t) \in Nat /\ SumFunctionOnSet(Amount, Created(t)) \in Nat
           /\ SumFunctionOnSet(Amount, Created(t)) <= OutputSum(t)
           /\ Len(Outputs[t]) <= U16 => SumFunctionOnSet(Amount, Created(t)) = OutputSum(t)
<1> DEFINE D == DOMAIN Outputs[t]
           I == Lasting(t)
           m == [ i \in I |-> <<t, OutputIndex(i)>> ]
           f == [ i \in D |-> Outputs[t][i].amount ]
<1>0. /\ Len(Outputs[t]) \in Nat /\ D = 1 .. Len(Outputs[t]) /\ I \subseteq D
      /\ \A i \in D : \E j \in I : OutputIndex(j) = OutputIndex(i)
      /\ \A i, j \in I : OutputIndex(i) = OutputIndex(j) => i = j
      /\ Len(Outputs[t]) <= U16 => I = D
  BY LastOfIndex
<1>1. IsFiniteSet(D) /\ IsFiniteSet(I)
  <2> HIDE DEF D, I
  <2>1. IsFiniteSet(D)
    BY <1>0, FS_Interval
  <2>2. QED BY <1>0, <2>1, FS_Subset
<1>2. Created(t) = Image(m, I) /\ Created(t) \subseteq OutPoint
  <2>1. Created(t) \subseteq OutPoint
    BY DEF OutPoint
  <2>2. Image(m, I) = { <<t, OutputIndex(i)>> : i \in I }
    BY DEF Image
  <2> HIDE DEF m, I, D
  <2>3. Created(t) = { <<t, OutputIndex(i)>> : i \in D }
    BY DEF Created, D
  <2>4. QED BY <1>0, <2>1, <2>2, <2>3
<1>3. \A i, j \in I : m[i] = m[j] => i = j
  BY <1>0
<1>4. \A i \in D : f[i] \in Nat
  BY LedgerAssumption
<1>5. \A i \in I : f[i] \in Nat /\ Amount[m[i]] = f[i]
  <2> SUFFICES ASSUME NEW i \in I PROVE Amount[m[i]] = f[i]
    BY <1>0, <1>4
  <2>1. m[i] \in OutPoint /\ m[i] = <<t, OutputIndex(i)>>
    BY <1>2 DEF Image
  <2>2. OutputAt(m[i]) = Outputs[t][i] /\ i \in D
    BY <1>0, <2>1, OutputOfIndex
  <2>3. Amount[m[i]] = OutputAt(m[i]).amount
    BY <2>1, AmountType
  <2>4. QED BY <2>2, <2>3
<1>6. OutputSum(t) = SumFunctionOnSet(f, D)
  BY DEF OutputSum, SumFunction
<1> HIDE DEF m, f, I, D
<1>7. /\ IsFiniteSet(Image(m, I))
      /\ SumFunctionOnSet(Amount, Image(m, I)) = SumFunctionOnSet(f, I)
  BY <1>1, <1>3, <1>5, SumOverImage
<1>8. /\ SumFunctionOnSet(f, D) \in Nat /\ SumFunctionOnSet(f, I) <= SumFunctionOnSet(f, D)
      /\ SumFunctionOnSet(f, I) \in Nat
  BY <1>0, <1>1, <1>4, <1>5, SumOfNaturals
<1>9. QED BY <1>0, <1>2, <1>6, <1>7, <1>8

(* What a valid transaction spends is worth the sum of its inputs.          *)
LEMMA SpentAmount ==
    ASSUME NEW t \in Tx, ~ IsCoinbase(t), Spent(t) \subseteq OutPoint,
           \A i, j \in DOMAIN Inputs[t] : OutPointOf(Inputs[t][i]) = OutPointOf(Inputs[t][j]) => i = j
    PROVE  /\ IsFiniteSet(Spent(t))
           /\ InputSum(t) \in Nat /\ SumFunctionOnSet(Amount, Spent(t)) = InputSum(t)
<1> DEFINE I == DOMAIN Inputs[t]
           m == [ i \in I |-> OutPointOf(Inputs[t][i]) ]
           f == [ i \in I |-> OutputAt(OutPointOf(Inputs[t][i])).amount ]
<1>0. Len(Inputs[t]) \in Nat /\ I = 1 .. Len(Inputs[t])
  BY LedgerAssumption
<1>1. IsFiniteSet(I)
  <2> HIDE DEF I
  <2>1. QED BY <1>0, FS_Interval
<1>2. Spent(t) = Image(m, I)
  BY DEF Spent, Image
<1>3. \A i, j \in I : m[i] = m[j] => i = j
  OBVIOUS
<1>4. \A i \in I : m[i] \in OutPoint
  BY <1>2 DEF Image
<1>5. ASSUME NEW i \in I PROVE f[i] \in Nat /\ Amount[m[i]] = f[i]
  <2>1. m[i] = OutPointOf(Inputs[t][i]) /\ f[i] = OutputAt(m[i]).amount
    OBVIOUS
  <2> HIDE DEF m, f
  <2>2. QED BY <1>4, <2>1, AmountType
<1>6. InputSum(t) = SumFunctionOnSet(f, I)
  BY DEF InputSum, SumFunction
<1> HIDE DEF m, f, I
<1>7. /\ IsFiniteSet(Image(m, I))
      /\ SumFunctionOnSet(Amount, Image(m, I)) = SumFunctionOnSet(f, I)
  BY <1>1, <1>3, <1>5, SumOverImage
<1>8. SumFunctionOnSet(f, I) \in Nat
  BY <1>1, <1>5, SumOfNaturals
<1>9. QED BY <1>2, <1>6, <1>7, <1>8

(* A valid transaction takes in what it pays out and its fee, as long as    *)
(* the sum of its outputs does not wrap.                                    *)
LEMMA ValidTransactionPays ==
    ASSUME NEW t \in Tx, ~ IsCoinbase(t), NEW utxos \in SUBSET OutPoint, NEW spent,
           ValidateTransaction(t, utxos, spent), OutputSum(t) < U64
    PROVE  /\ Spent(t) \subseteq utxos /\ Spent(t) \cap spent = {} /\ IsFiniteSet(Spent(t))
           /\ SumFunctionOnSet(Amount, Spent(t)) = InputSum(t) /\ InputSum(t) \in Nat
           /\ Fee(t) \in Nat /\ OutputSum(t) + Fee(t) <= InputSum(t)
           /\ InputSum(t) < U64 => OutputSum(t) + Fee(t) = InputSum(t)
<1>1. Spent(t) \subseteq utxos /\ Spent(t) \cap spent = {}
  <2>1. \A i \in DOMAIN Inputs[t] : /\ OutPointOf(Inputs[t][i]) \in utxos
                                    /\ OutPointOf(Inputs[t][i]) \notin spent
    BY DEF ValidateTransaction, InputOk
  <2>2. Spent(t) = { OutPointOf(Inputs[t][i]) : i \in DOMAIN Inputs[t] }
    BY DEF Spent
  <2>3. QED BY <2>1, <2>2
<1>2. \A i, j \in DOMAIN Inputs[t] : OutPointOf(Inputs[t][i]) = OutPointOf(Inputs[t][j]) => i = j
  BY DEF ValidateTransaction
<1>3. IsFiniteSet(Spent(t)) /\ InputSum(t) \in Nat /\ SumFunctionOnSet(Amount, Spent(t)) = InputSum(t)
  BY <1>1, <1>2, SpentAmount
<1>4. OutputSum(t) \in Nat /\ U64 \in Nat \ {0}
  BY CreatedAmount, LedgerAssumption
<1>5. TotalOutput(t) = OutputSum(t)
  BY <1>4 DEF TotalOutput
<1>6. TotalInput(t) \in Nat /\ TotalInput(t) <= InputSum(t) /\ (InputSum(t) < U64 => TotalInput(t) = InputSum(t))
  BY <1>3, <1>4 DEF TotalInput
<1>7. Fee(t) = TotalInput(t) - TotalOutput(t) /\ TotalInput(t) >= TotalOutput(t)
  BY DEF ValidateTransaction, Fee
<1>8. QED BY <1>1, <1>3, <1>4, <1>5, <1>6, <1>7

\* The outpoints of a set that are worth anything.
Valued(s) == { o \in s : Amount[o] # 0 }

(* The others count for nothing.                                            *)
LEMMA ValuedAmount ==
    ASSUME NEW s \in SUBSET OutPoint, IsFiniteSet(s)
    PROVE  IsFiniteSet(Valued(s)) /\ SumFunctionOnSet(Amount, Valued(s)) = SumFunctionOnSet(Amount, s)
<1> DEFINE zero == s \ Valued(s)
<1>1. IsFiniteSet(Valued(s)) /\ IsFiniteSet(zero)
  BY FS_Subset DEF Valued
<1>2. \A o \in s : Amount[o] \in Nat /\ Amount[o] \in Int
  BY AmountType
<1>3. Valued(s) \cap zero = {} /\ Valued(s) \cup zero = s /\ \A o \in zero : Amount[o] = 0
  BY DEF Valued
<1>4. SumFunctionOnSet(Amount, zero) = 0
  <2>1. \A o \in zero : Amount[o] \in Nat
    BY <1>2
  <2> HIDE DEF zero
  <2>2. QED BY <1>1, <1>3, <2>1, SumIsZero
<1>5. SumFunctionOnSet(Amount, Valued(s) \cup zero)
          = SumFunctionOnSet(Amount, Valued(s)) + SumFunctionOnSet(Amount, zero)
  <2>1. \A o \in Valued(s) \cup zero : Amount[o] \in Int
    BY <1>2, <1>3
  <2> HIDE DEF zero
  <2>2. QED BY <1>1, <1>3, <2>1, SumOfUnion
<1>6. SumFunctionOnSet(Amount, Valued(s)) \in Int
  <2>1. \A o \in Valued(s) : Amount[o] \in Int
    BY <1>2 DEF Valued
  <2>2. QED BY <1>1, <2>1, SumTakes
<1> HIDE DEF zero
<1>7. SumFunctionOnSet(Amount, s)
          = SumFunctionOnSet(Amount, Valued(s)) + SumFunctionOnSet(Amount, zero)
  BY <1>3, <1>5
<1>8. QED BY <1>1, <1>4, <1>6, <1>7

\* What the transactions of a body other than its coinbase consume, and what all of
\* them create.
TakenBy(body) == UNION { Spent(body[i]) : i \in 2 .. Len(body) }
MadeBy(body) == UNION { Created(body[i]) : i \in DOMAIN body }

\* What those transactions take in, pay out and leave as fees.
SumIn(body) == SumFunction([ i \in 2 .. Len(body) |-> InputSum(body[i]) ])
SumOut(body) == SumFunction([ i \in 2 .. Len(body) |-> OutputSum(body[i]) ])
Fees(body) == SumFunction([ i \in 2 .. Len(body) |-> Fee(body[i]) ])

\* No output with a value is inserted over another.
InsertsAnew(utxos, body) ==
    /\ \A i \in DOMAIN body : Len(Outputs[body[i]]) <= U16
    /\ \A i \in DOMAIN body : \A o \in Created(body[i]) :
          Amount[o] # 0 => o \notin utxos /\ \A j \in DOMAIN body : j # i => o \notin Created(body[j])

\* A body whose sums do not wrap and that is valid, but for what its coinbase pays.
TakesFrom(utxos, body) ==
    /\ Len(body) \in Nat \ {0} /\ DOMAIN body = 1 .. Len(body)
    /\ \A i \in DOMAIN body : body[i] \in Tx /\ OutputSum(body[i]) < U64
    /\ IsCoinbase(body[1])
    /\ \A i \in 2 .. Len(body) : /\ ~ IsCoinbase(body[i])
                                 /\ ValidateTransaction(body[i], utxos, SpentBefore(body, i))

LEMMA ValidTakesFrom ==
    ASSUME NEW utxos, NEW body \in Seq(Tx), NEW h, ValidateBody(body, utxos, h),
           \A i \in DOMAIN body : OutputSum(body[i]) < U64
    PROVE  TakesFrom(utxos, body)
<1>1. Len(body) \in Nat /\ DOMAIN body = 1 .. Len(body) /\ (\A i \in DOMAIN body : body[i] \in Tx) /\ body # << >>
  BY DEF ValidateBody
<1>2. Len(body) # 0
  BY <1>1
<1>3. IsCoinbase(body[1]) /\ \A i \in 2 .. Len(body) : ~ IsCoinbase(body[i])
  BY DEF ValidateBody
<1>4. \A i \in 2 .. Len(body) : ValidateTransaction(body[i], utxos, SpentBefore(body, i))
  BY DEF ValidateBody
<1>5. QED BY <1>1, <1>2, <1>3, <1>4 DEF TakesFrom

(* What a valid body consumes is unspent and worth what its transactions    *)
(* take in, which covers what they pay out and their fees.                  *)
LEMMA BodyTakes ==
    ASSUME NEW utxos \in SUBSET OutPoint, IsFiniteSet(utxos), NEW body, TakesFrom(utxos, body)
    PROVE  /\ IsFiniteSet(TakenBy(body)) /\ TakenBy(body) \subseteq utxos
           /\ SumFunctionOnSet(Amount, TakenBy(body)) = SumIn(body)
           /\ SumIn(body) \in Nat /\ SumOut(body) \in Nat /\ Fees(body) \in Nat
           /\ SumOut(body) + Fees(body) <= SumIn(body)
           /\ (\A i \in 2 .. Len(body) : InputSum(body[i]) < U64) =>
                  SumOut(body) + Fees(body) = SumIn(body)
<1> DEFINE I == 2 .. Len(body)
           sp == [ i \in I |-> Spent(body[i]) ]
           in == [ i \in I |-> InputSum(body[i]) ]
           out == [ i \in I |-> OutputSum(body[i]) ]
           fee == [ i \in I |-> Fee(body[i]) ]
           both == [ i \in I |-> OutputSum(body[i]) + Fee(body[i]) ]
           S == UNION { sp[i] : i \in I }
           sum(f, s) == SumFunctionOnSet(f, s)
<1>1. /\ Len(body) \in Nat \ {0}
      /\ \A i \in I : /\ body[i] \in Tx /\ ~ IsCoinbase(body[i]) /\ OutputSum(body[i]) < U64
                      /\ ValidateTransaction(body[i], utxos, SpentBefore(body, i))
  BY DEF TakesFrom
<1>2. IsFiniteSet(I)
  BY <1>1, FS_Interval
<1>3. \A i \in I : /\ Spent(body[i]) \subseteq utxos /\ Spent(body[i]) \cap SpentBefore(body, i) = {}
                   /\ IsFiniteSet(Spent(body[i]))
                   /\ SumFunctionOnSet(Amount, Spent(body[i])) = InputSum(body[i])
                   /\ InputSum(body[i]) \in Nat /\ Fee(body[i]) \in Nat
                   /\ OutputSum(body[i]) + Fee(body[i]) <= InputSum(body[i])
                   /\ InputSum(body[i]) < U64 => OutputSum(body[i]) + Fee(body[i]) = InputSum(body[i])
  BY <1>1, ValidTransactionPays
<1>4. \A i \in I : OutputSum(body[i]) \in Nat
  BY <1>1, CreatedAmount
<1>5. \A i, j \in I : i # j => sp[i] \cap sp[j] = {}
  <2>1. ASSUME NEW i \in I, NEW j \in I, i < j PROVE Spent(body[i]) \cap Spent(body[j]) = {}
    <3>1. i \in 2 .. j - 1
      BY <1>1, <2>1
    <3>2. Spent(body[i]) \subseteq SpentBefore(body, j)
      BY <3>1 DEF SpentBefore
    <3>3. QED BY <1>3, <3>2
  <2>2. \A i, j \in I : i # j => i < j \/ j < i
    BY <1>1
  <2>3. QED BY <2>1, <2>2
<1>6. IsFiniteSet(S) /\ S \subseteq utxos /\ sum(Amount, S) = sum(in, I)
  <2>1. /\ \A i \in I : IsFiniteSet(sp[i]) /\ in[i] = SumFunctionOnSet(Amount, sp[i])
        /\ \A i \in I : \A o \in sp[i] : Amount[o] \in Nat
    BY <1>3, AmountType
  <2>2. S \subseteq utxos
    BY <1>3
  <2>3. S = UNION { sp[i] : i \in I }
    OBVIOUS
  <2> HIDE DEF sp, in, I, S
  <2>4. QED BY <1>2, <1>5, <2>1, <2>2, <2>3, SumOfFamily
<1>7. /\ sum(out, I) + sum(fee, I) <= sum(in, I)
      /\ (\A i \in I : in[i] < U64) => sum(out, I) + sum(fee, I) = sum(in, I)
      /\ sum(fee, I) \in Nat /\ sum(in, I) \in Nat /\ sum(out, I) \in Nat
  <2>1. \A i \in I : /\ both[i] \in Int /\ in[i] \in Int /\ both[i] <= in[i]
                     /\ in[i] < U64 => both[i] = in[i]
                     /\ out[i] \in Int /\ fee[i] \in Int /\ both[i] = out[i] + fee[i]
    BY <1>3, <1>4
  <2>2. \A i \in I : fee[i] \in Nat /\ in[i] \in Nat /\ out[i] \in Nat
    BY <1>3, <1>4
  <2> HIDE DEF out, I, fee, both, in
  <2>3. sum(both, I) <= sum(in, I)
    BY <1>2, <2>1, SumsCompare
  <2>4. sum(both, I) = sum(out, I) + sum(fee, I)
    BY <1>2, <2>1, SumOfPlus
  <2>5. sum(fee, I) \in Nat /\ sum(in, I) \in Nat /\ sum(out, I) \in Nat
    BY <1>2, <2>2, SumOfNaturals
  <2>6. ASSUME \A i \in I : in[i] < U64 PROVE sum(both, I) = sum(in, I)
    <3>1. \A i \in I : both[i] \in Int /\ both[i] = in[i]
      BY <2>1, <2>6
    <3>2. QED BY <1>2, <3>1, SameSum
  <2>7. QED BY <2>3, <2>4, <2>5, <2>6
<1>8. /\ SumIn(body) = sum(in, I) /\ SumOut(body) = sum(out, I) /\ Fees(body) = sum(fee, I)
      /\ TakenBy(body) = S
  <2>1. TakenBy(body) = S
    BY DEF TakenBy
  <2>2. QED BY <2>1 DEF SumIn, SumOut, Fees, SumFunction
<1>9. (\A i \in 2 .. Len(body) : InputSum(body[i]) < U64) => \A i \in I : in[i] < U64
  OBVIOUS
<1>10. sum(Amount, S) = SumFunctionOnSet(Amount, S)
  OBVIOUS
<1> HIDE DEF I, in, out, fee, S, sum
<1>11. QED BY <1>6, <1>7, <1>8, <1>9, <1>10

(* What a valid body creates is worth no more than its outputs, and just    *)
(* that when nothing is inserted over anything else.                        *)
LEMMA BodyMakes ==
    ASSUME NEW utxos, NEW body, TakesFrom(utxos, body)
    PROVE  /\ IsFiniteSet(MadeBy(body)) /\ MadeBy(body) \subseteq OutPoint
           /\ OutputSum(body[1]) \in Nat /\ SumOut(body) \in Nat
           /\ SumFunctionOnSet(Amount, MadeBy(body)) \in Nat
           /\ SumFunctionOnSet(Amount, MadeBy(body)) <= OutputSum(body[1]) + SumOut(body)
           /\ InsertsAnew(utxos, body) =>
                  SumFunctionOnSet(Amount, MadeBy(body)) = OutputSum(body[1]) + SumOut(body)
<1> DEFINE I == 2 .. Len(body)
           J == DOMAIN body
           cr == [ i \in J |-> Created(body[i]) ]
           vcr == [ i \in J |-> Valued(Created(body[i])) ]
           made == [ i \in J |-> SumFunctionOnSet(Amount, Created(body[i])) ]
           out == [ i \in J |-> OutputSum(body[i]) ]
           rest == [ i \in I |-> OutputSum(body[i]) ]
           K == UNION { cr[i] : i \in J }
           VK == UNION { vcr[i] : i \in J }
           sum(f, s) == SumFunctionOnSet(f, s)
<1>1. /\ Len(body) \in Nat \ {0} /\ J = 1 .. Len(body) /\ J = {1} \cup I /\ 1 \notin I
      /\ \A i \in J : body[i] \in Tx
  <2>1. Len(body) \in Nat \ {0} /\ J = 1 .. Len(body) /\ \A i \in J : body[i] \in Tx
    BY DEF TakesFrom
  <2>2. J = {1} \cup I /\ 1 \notin I
    BY <2>1
  <2>3. QED BY <2>1, <2>2
<1>2. IsFiniteSet(I) /\ IsFiniteSet(J)
  <2> HIDE DEF J
  <2>1. QED BY <1>1, FS_Interval
<1>3. \A i \in J : /\ IsFiniteSet(Created(body[i])) /\ Created(body[i]) \subseteq OutPoint
                   /\ OutputSum(body[i]) \in Nat
                   /\ SumFunctionOnSet(Amount, Created(body[i])) \in Nat
                   /\ SumFunctionOnSet(Amount, Created(body[i])) <= OutputSum(body[i])
                   /\ Len(Outputs[body[i]]) <= U16 =>
                         SumFunctionOnSet(Amount, Created(body[i])) = OutputSum(body[i])
  BY <1>1, CreatedAmount
<1>4. IsFiniteSet(K) /\ K \subseteq OutPoint /\ sum(Amount, K) \in Nat /\ sum(Amount, K) <= sum(made, J)
  <2>1. /\ \A i \in J : IsFiniteSet(cr[i]) /\ made[i] = SumFunctionOnSet(Amount, cr[i])
        /\ \A i \in J : \A o \in cr[i] : Amount[o] \in Nat
    BY <1>3, AmountType
  <2>2. K \subseteq OutPoint
    BY <1>3
  <2>3. K = UNION { cr[i] : i \in J }
    OBVIOUS
  <2>4. IsFiniteSet(J)
    BY <1>2
  <2> HIDE DEF cr, made, J, K
  <2>5. QED BY <2>1, <2>2, <2>3, <2>4, SumOfFamily
<1>5. sum(made, J) <= sum(out, J) /\ sum(made, J) \in Nat
  <2>1. \A i \in J : made[i] \in Nat /\ made[i] \in Int /\ out[i] \in Int /\ made[i] <= out[i]
    BY <1>3
  <2> HIDE DEF made, out, J
  <2>2. QED BY <1>2, <2>1, SumsCompare, SumOfNaturals
<1>6. sum(out, J) = OutputSum(body[1]) + sum(rest, I) /\ sum(rest, I) \in Nat /\ OutputSum(body[1]) \in Nat
  <2>1. J \ {1} = I /\ 1 \in J /\ out[1] = OutputSum(body[1]) /\ OutputSum(body[1]) \in Nat
    BY <1>1, <1>3
  <2>2. \A i \in J : out[i] \in Int
    BY <1>3
  <2>3. \A i \in I : rest[i] \in Nat /\ out[i] \in Int /\ out[i] = rest[i]
    BY <1>1, <1>3
  <2> HIDE DEF out, J, I, rest
  <2>4. sum(out, J) = out[1] + sum(out, J \ {1})
    BY <1>2, <2>1, <2>2, SumTakes
  <2>5. sum(rest, I) \in Nat
    BY <1>2, <2>3, SumOfNaturals
  <2>6. sum(out, I) = sum(rest, I)
    BY <1>2, <2>3, SameSum
  <2>7. QED BY <2>1, <2>4, <2>5, <2>6
<1>7. SumOut(body) = sum(rest, I)
  BY DEF SumOut, SumFunction
<1>8. MadeBy(body) = K
  BY DEF MadeBy
<1>9. ASSUME InsertsAnew(utxos, body) PROVE sum(Amount, K) = sum(out, J)
  <2>1. /\ \A i \in J : IsFiniteSet(vcr[i]) /\ out[i] = SumFunctionOnSet(Amount, vcr[i])
        /\ \A i \in J : \A o \in vcr[i] : Amount[o] \in Nat
    <3> SUFFICES ASSUME NEW i \in J
                 PROVE  /\ IsFiniteSet(vcr[i]) /\ out[i] = SumFunctionOnSet(Amount, vcr[i])
                        /\ \A o \in vcr[i] : Amount[o] \in Nat
      OBVIOUS
    <3>1. /\ IsFiniteSet(Created(body[i])) /\ Created(body[i]) \in SUBSET OutPoint
          /\ SumFunctionOnSet(Amount, Created(body[i])) = OutputSum(body[i])
      BY <1>3, <1>9 DEF InsertsAnew
    <3>2. /\ IsFiniteSet(Valued(Created(body[i])))
          /\ SumFunctionOnSet(Amount, Valued(Created(body[i]))) = OutputSum(body[i])
      BY <3>1, ValuedAmount
    <3>3. \A o \in Valued(Created(body[i])) : Amount[o] \in Nat
      BY <3>1, AmountType DEF Valued
    <3>4. QED BY <3>2, <3>3
  <2>2. \A i, j \in J : i # j => vcr[i] \cap vcr[j] = {}
    BY <1>9 DEF InsertsAnew, Valued
  <2>3. VK = Valued(K)
    BY DEF Valued
  <2>4. sum(Amount, Valued(K)) = sum(Amount, K)
    BY <1>4, ValuedAmount
  <2>5. sum(Amount, VK) = sum(out, J)
    <3>1. VK = UNION { vcr[i] : i \in J }
      OBVIOUS
    <3>2. IsFiniteSet(J)
      BY <1>2
    <3> HIDE DEF vcr, out, J, VK
    <3>3. QED BY <2>1, <2>2, <3>1, <3>2, SumOfFamily
  <2>6. QED BY <2>3, <2>4, <2>5
<1> HIDE DEF I, J, K, out, rest, made, sum
<1>10. sum(Amount, K) <= OutputSum(body[1]) + sum(rest, I)
  <2>1. sum(out, J) \in Nat
    BY <1>6
  <2>2. QED BY <1>4, <1>5, <1>6, <2>1
<1>11. QED BY <1>4, <1>6, <1>7, <1>8, <1>9, <1>10 DEF sum

(* A valid block moves money: what is unspent after it, with the fees of    *)
(* its transactions, is what was unspent before and what its coinbase       *)
(* creates, less what is inserted over other outputs.                       *)
LEMMA BlockMoves ==
    ASSUME NEW utxos \in SUBSET OutPoint, IsFiniteSet(utxos), NEW body, TakesFrom(utxos, body)
    PROVE  /\ IsFiniteSet(ApplyBlockUtxos(utxos, body)) /\ ApplyBlockUtxos(utxos, body) \subseteq OutPoint
           /\ TotalAmount(ApplyBlockUtxos(utxos, body)) \in Nat /\ TotalAmount(utxos) \in Nat
           /\ Fees(body) \in Nat /\ OutputSum(body[1]) \in Nat
           /\ TotalAmount(ApplyBlockUtxos(utxos, body)) + Fees(body)
                 <= TotalAmount(utxos) + OutputSum(body[1])
           /\ InsertsAnew(utxos, body) /\ (\A i \in 2 .. Len(body) : InputSum(body[i]) < U64) =>
                 TotalAmount(ApplyBlockUtxos(utxos, body)) + Fees(body)
                     = TotalAmount(utxos) + OutputSum(body[1])
<1> DEFINE after == ApplyBlockUtxos(utxos, body)
           S == TakenBy(body)
           K == MadeBy(body)
           kept == utxos \ S
           sum(s) == SumFunctionOnSet(Amount, s)
<1>1. /\ IsFiniteSet(S) /\ S \subseteq utxos /\ sum(S) = SumIn(body)
      /\ SumIn(body) \in Nat /\ SumOut(body) \in Nat /\ Fees(body) \in Nat
      /\ SumOut(body) + Fees(body) <= SumIn(body)
      /\ (\A i \in 2 .. Len(body) : InputSum(body[i]) < U64) => SumOut(body) + Fees(body) = SumIn(body)
  BY BodyTakes
<1>2. /\ IsFiniteSet(K) /\ K \subseteq OutPoint /\ OutputSum(body[1]) \in Nat /\ sum(K) \in Nat
      /\ sum(K) <= OutputSum(body[1]) + SumOut(body)
      /\ InsertsAnew(utxos, body) => sum(K) = OutputSum(body[1]) + SumOut(body)
  BY BodyMakes
<1>3. \A j \in DOMAIN body : Spent(body[j]) \subseteq S
  <2>1. DOMAIN body = 1 .. Len(body) /\ Len(body) \in Nat /\ Spent(body[1]) = {}
    BY DEF TakesFrom, Spent
  <2>2. \A j \in DOMAIN body : j = 1 \/ j \in 2 .. Len(body)
    BY <2>1
  <2>3. QED BY <2>1, <2>2 DEF TakenBy
<1>4. \A o \in S : \E j \in DOMAIN body : o \in Spent(body[j])
  <2>1. \A j \in 2 .. Len(body) : j \in DOMAIN body
    BY DEF TakesFrom
  <2>2. QED BY <2>1 DEF TakenBy
<1>5. after \subseteq kept \cup K /\ kept \subseteq after /\ K \ S \subseteq after
  BY <1>3, <1>4 DEF ApplyBlockUtxos, MadeBy
<1> HIDE DEF S, K, after
<1>6. \A o \in OutPoint : Amount[o] \in Nat /\ Amount[o] \in Int
  BY AmountType
<1>7. IsFiniteSet(kept) /\ IsFiniteSet(after) /\ after \subseteq OutPoint /\ kept \subseteq OutPoint
  <2>1. IsFiniteSet(kept)
    BY FS_Subset
  <2>2. IsFiniteSet(kept \cup K) /\ kept \cup K \subseteq OutPoint
    BY <1>2, <2>1, FS_Union
  <2>3. QED BY <1>5, <2>1, <2>2, FS_Subset
<1>8. \A s \in SUBSET OutPoint : IsFiniteSet(s) => sum(s) \in Nat
  BY <1>6, SumOfNaturals
<1>9. sum(utxos) = sum(kept) + sum(S)
  <2>1. kept \cup S = utxos /\ kept \cap S = {}
    BY <1>1
  <2>2. \A o \in kept \cup S : Amount[o] \in Int
    BY <1>6, <2>1
  <2>3. sum(kept \cup S) = sum(kept) + sum(S)
    BY <1>1, <1>7, <2>1, <2>2, SumOfUnion
  <2>4. QED BY <2>1, <2>3
<1>10. sum(after) <= sum(kept) + sum(K)
  <2> DEFINE R == K \ kept
             A == kept \cup R
  <2>1. A = kept \cup K /\ kept \cap R = {} /\ A \subseteq OutPoint /\ R \subseteq K
    BY <1>2, <1>7
  <2>2. IsFiniteSet(R) /\ IsFiniteSet(A)
    BY <1>2, <1>7, <2>1, FS_Subset, FS_Union
  <2>3. sum(after) <= sum(A)
    <3> HIDE DEF A
    <3>1. (\A o \in A : Amount[o] \in Nat) /\ after \in SUBSET A
      BY <1>5, <1>6, <2>1
    <3>2. QED BY <2>2, <3>1, SumOfNaturals
  <2>4. sum(A) = sum(kept) + sum(R)
    <3>1. \A o \in kept \cup R : Amount[o] \in Int
      BY <1>6, <2>1
    <3>2. QED BY <1>7, <2>1, <2>2, <3>1, SumOfUnion
  <2>5. sum(R) <= sum(K)
    <3>1. (\A o \in K : Amount[o] \in Nat) /\ R \in SUBSET K
      BY <1>2, <1>6, <2>1
    <3> HIDE DEF R
    <3>2. QED BY <1>2, <3>1, SumOfNaturals
  <2>6. sum(kept) \in Nat /\ sum(R) \in Nat /\ sum(after) \in Nat
    <3>1. R \in SUBSET OutPoint /\ kept \in SUBSET OutPoint /\ after \in SUBSET OutPoint
      BY <1>2, <1>7, <2>1
    <3> HIDE DEF R, kept, sum
    <3>2. QED BY <1>7, <1>8, <2>2, <3>1
  <2> HIDE DEF sum, A, R, kept
  <2>7. QED BY <1>2, <2>3, <2>4, <2>5, <2>6
<1>11. ASSUME InsertsAnew(utxos, body) PROVE sum(after) = sum(kept) + sum(K)
  <2>1. \A o \in K : Amount[o] # 0 => o \notin utxos
    BY <1>11 DEF InsertsAnew, K, MadeBy
  <2>2. Valued(after) = Valued(kept) \cup Valued(K) /\ Valued(kept) \cap Valued(K) = {}
    BY <1>1, <1>5, <2>1 DEF Valued
  <2>3. /\ IsFiniteSet(Valued(after)) /\ sum(Valued(after)) = sum(after)
        /\ IsFiniteSet(Valued(kept)) /\ sum(Valued(kept)) = sum(kept)
        /\ IsFiniteSet(Valued(K)) /\ sum(Valued(K)) = sum(K)
    BY <1>2, <1>7, ValuedAmount
  <2>4. \A o \in Valued(kept) \cup Valued(K) : Amount[o] \in Int
    BY <1>2, <1>6, <1>7 DEF Valued
  <2>5. sum(Valued(kept) \cup Valued(K)) = sum(Valued(kept)) + sum(Valued(K))
    BY <2>2, <2>3, <2>4, SumOfUnion
  <2>6. QED BY <2>2, <2>3, <2>5
<1>12. TotalAmount(after) = sum(after) /\ TotalAmount(utxos) = sum(utxos)
  BY <1>7, TotalAmountIs
<1>13. sum(after) \in Nat /\ sum(utxos) \in Nat /\ sum(kept) \in Nat
  BY <1>7, <1>8
<1> HIDE DEF sum, kept
<1>14. sum(after) + Fees(body) <= sum(utxos) + OutputSum(body[1])
  BY <1>1, <1>2, <1>9, <1>10, <1>13
<1>15. ASSUME InsertsAnew(utxos, body), \A i \in 2 .. Len(body) : InputSum(body[i]) < U64
       PROVE  sum(after) + Fees(body) = sum(utxos) + OutputSum(body[1])
  <2>1. /\ sum(after) = sum(kept) + sum(K) /\ sum(K) = OutputSum(body[1]) + SumOut(body)
        /\ SumOut(body) + Fees(body) = SumIn(body)
    BY <1>1, <1>2, <1>11, <1>15
  <2>2. QED BY <1>1, <1>2, <1>9, <1>13, <2>1
<1>16. QED BY <1>1, <1>2, <1>7, <1>12, <1>13, <1>14, <1>15 DEF after

(* A valid block leaves no more unspent than was there before, and its      *)
(* reward.                                                                  *)
LEMMA BlockKeepsSupply ==
    ASSUME NEW utxos \in SUBSET OutPoint, IsFiniteSet(utxos), NEW body \in Seq(Tx),
           NEW h \in Nat, ValidateBody(body, utxos, h),
           \A i \in DOMAIN body : OutputSum(body[i]) < U64
    PROVE  /\ IsFiniteSet(ApplyBlockUtxos(utxos, body))
           /\ TotalAmount(ApplyBlockUtxos(utxos, body)) <= TotalAmount(utxos) + BlockReward(h)
<1>1. TakesFrom(utxos, body)
  BY ValidTakesFrom
<1> DEFINE after == ApplyBlockUtxos(utxos, body)
           a == TotalAmount(after)
           u == TotalAmount(utxos)
           o == OutputSum(body[1])
           fees == Fees(body)
<1>2. /\ IsFiniteSet(after) /\ a \in Nat /\ u \in Nat /\ fees \in Nat /\ o \in Nat
      /\ a + fees <= u + o
  BY <1>1, BlockMoves
<1>3. o < U64 /\ U64 \in Nat \ {0} /\ BlockReward(h) \in Nat
  <2>1. 1 \in DOMAIN body
    BY <1>1 DEF TakesFrom
  <2>2. QED BY <2>1, BlockRewardType, LedgerAssumption
<1>4. \A x \in Nat, y \in Nat \ {0} : x % y \in Nat /\ x % y <= x /\ (x < y => x % y = x)
  OBVIOUS
<1> DEFINE r == CalculateFees(body)
           c == BlockReward(h) + r
           p == TotalOutput(body[1])
<1>5. p <= c % U64
  BY DEF ValidateBody, AddU64
<1>6. r = fees % U64 /\ p = o % U64
  BY DEF CalculateFees, Fees, TotalOutput
<1>7. c = BlockReward(h) + r
  OBVIOUS
<1> HIDE DEF after, a, u, o, fees, r, c, p
<1>8. r \in Nat /\ r <= fees /\ p = o
  BY <1>2, <1>3, <1>4, <1>6
<1>9. o <= BlockReward(h) + fees
  <2>1. c \in Nat /\ c <= BlockReward(h) + fees
    BY <1>2, <1>3, <1>7, <1>8
  <2>2. c % U64 \in Nat /\ c % U64 <= c
    BY <1>3, <1>4, <2>1
  <2>3. QED BY <1>2, <1>3, <1>5, <1>8, <2>1, <2>2
<1>10. a <= u + BlockReward(h)
  BY <1>2, <1>3, <1>9
<1>11. QED BY <1>2, <1>10 DEF a, u, after

-----------------------------------------------------------------------------
(* What the schedule paid out                                               *)

\* The rewards of the first n blocks.
RewardsOf(n) == SumFunction([ h \in 0 .. n - 1 |-> BlockReward(h) ])

(* One block more adds its own reward.                                      *)
LEMMA RewardsStep ==
    ASSUME NEW n \in Nat
    PROVE  /\ RewardsOf(0) = 0 /\ RewardsOf(n) \in Nat
           /\ RewardsOf(n + 1) = RewardsOf(n) + BlockReward(n)
           /\ RewardsOf(n + 1) = SumFunction([ h \in 0 .. n |-> BlockReward(h) ])
<1> DEFINE f == [ h \in 0 .. n |-> BlockReward(h) ]
           g == [ h \in 0 .. n - 1 |-> BlockReward(h) ]
           S == 0 .. n - 1
<1>1. \A h \in 0 .. n : BlockReward(h) \in Nat
  BY BlockRewardType
<1>2. IsFiniteSet(0 .. n) /\ IsFiniteSet(S)
  BY FS_Interval
<1>3. \A h \in 0 .. n : f[h] \in Int /\ f[h] = BlockReward(h)
  BY <1>1
<1>4. \A h \in S : g[h] \in Nat /\ g[h] \in Int /\ f[h] = g[h]
  BY <1>1
<1>5. (0 .. n) \ {n} = S /\ n \in 0 .. n
  OBVIOUS
<1>6. RewardsOf(n) = SumFunctionOnSet(g, S) /\ RewardsOf(n + 1) = SumFunctionOnSet(f, 0 .. n)
  BY DEF RewardsOf, SumFunction
<1>a. SumFunction([ h \in 0 .. n |-> BlockReward(h) ]) = SumFunctionOnSet(f, 0 .. n)
  BY DEF SumFunction
<1>7. RewardsOf(0) = 0
  <2>1. DOMAIN [ h \in 0 .. 0 - 1 |-> BlockReward(h) ] = {}
    OBVIOUS
  <2>2. QED BY <2>1, SumOfNone DEF RewardsOf, SumFunction
<1> HIDE DEF f, g, S
<1>8. SumFunctionOnSet(f, 0 .. n) = f[n] + SumFunctionOnSet(f, (0 .. n) \ {n})
  BY <1>2, <1>3, <1>5, SumTakes
<1>9. SumFunctionOnSet(f, S) = SumFunctionOnSet(g, S)
  <2>1. \A h \in S : f[h] \in Int
    BY <1>4
  <2>2. QED BY <1>2, <1>4, <2>1, SameSum
<1>10. SumFunctionOnSet(g, S) \in Nat
  BY <1>2, <1>4, SumOfNaturals
<1>11. f[n] = BlockReward(n) /\ BlockReward(n) \in Nat
  BY <1>1, <1>3, <1>5
<1>12. RewardsOf(n + 1) = BlockReward(n) + RewardsOf(n)
  BY <1>5, <1>6, <1>8, <1>9, <1>11
<1>13. QED BY <1>6, <1>7, <1>10, <1>11, <1>12, <1>a

\* A finite set of outpoints is worth no more than the rewards of n blocks.
Earned(utxos, n) ==
    utxos \in SUBSET OutPoint /\ IsFiniteSet(utxos) /\ TotalAmount(utxos) <= RewardsOf(n)

(* More blocks have paid out no less.                                       *)
LEMMA RewardsGrow ==
    ASSUME NEW n \in Nat, NEW k \in 0 .. n
    PROVE  RewardsOf(k) <= RewardsOf(n)
<1> DEFINE P == { m \in Nat : k <= m => RewardsOf(k) <= RewardsOf(m) }
<1>1. \A m \in Nat : RewardsOf(m) \in Nat
  BY RewardsStep
<1>2. 0 \in P
  <2>1. k \in Nat
    OBVIOUS
  <2>2. k <= 0 => k = 0
    BY <2>1
  <2>3. RewardsOf(0) <= RewardsOf(0)
    BY <1>1
  <2>4. QED BY <2>2, <2>3
<1>3. ASSUME NEW m \in Nat, m \in P PROVE m + 1 \in P
  <2>1. RewardsOf(m + 1) = RewardsOf(m) + BlockReward(m) /\ BlockReward(m) \in Nat
    BY RewardsStep, BlockRewardType
  <2>2. RewardsOf(k) \in Nat /\ RewardsOf(m) \in Nat /\ RewardsOf(m + 1) \in Nat /\ k \in Nat
    BY <1>1
  <2>3. CASE k <= m
    BY <1>3, <2>1, <2>2, <2>3
  <2>4. CASE k = m + 1
    BY <2>2, <2>4
  <2>5. k <= m + 1 => k <= m \/ k = m + 1
    BY <2>2
  <2>6. QED BY <2>3, <2>4, <2>5
<1>4. n \in P
  <2> HIDE DEF P
  <2>1. QED BY <1>2, <1>3, NaturalInduction
<1>5. QED BY <1>4

(* A body of one transaction that creates the initial reward.               *)
LEMMA GenesisEarned ==
    ASSUME NEW body \in Seq(Tx), Len(body) = 1,
           OutputSum(body[1]) < U64, TotalOutput(body[1]) = InitialReward
    PROVE  Earned(ApplyBlockUtxos({}, body), 1)
<1> DEFINE t == body[1]
<1>1. DOMAIN body = {1} /\ t \in Tx
  <2>1. DOMAIN body = 1 .. 1
    OBVIOUS
  <2>2. QED BY <2>1
<1>2. ApplyBlockUtxos({}, body) = Created(t)
  <2>1. UNION { Created(body[i]) : i \in DOMAIN body } = Created(t)
    BY <1>1
  <2>2. \A o \in Created(t) : \A j \in DOMAIN body :
            \E i \in j .. Len(body) : o \in Created(body[i])
    BY <1>1
  <2>3. QED BY <2>1, <2>2 DEF ApplyBlockUtxos
<1>3. OutputSum(t) = InitialReward
  <2>1. OutputSum(t) \in Nat /\ U64 \in Nat \ {0}
    BY <1>1, CreatedAmount, LedgerAssumption
  <2>2. QED BY <2>1 DEF TotalOutput
<1> HIDE DEF t
<1>4. /\ IsFiniteSet(Created(t)) /\ Created(t) \in SUBSET OutPoint
      /\ TotalAmount(Created(t)) <= InitialReward
  BY <1>1, <1>3, CreatedAmount, TotalAmountIs
<1>5. RewardsOf(1) = InitialReward
  <2>1. RewardsOf(0 + 1) = RewardsOf(0) + BlockReward(0) /\ RewardsOf(0) = 0
    BY RewardsStep
  <2>2. QED BY <2>1, BlockRewardType, LedgerAssumption
<1>6. QED BY <1>2, <1>4, <1>5 DEF Earned

(* A valid block on top of n others.                                        *)
LEMMA BlockEarned ==
    ASSUME NEW utxos, NEW n \in Nat, Earned(utxos, n),
           NEW body \in Seq(Tx), ValidateBody(body, utxos, n),
           \A i \in DOMAIN body : OutputSum(body[i]) < U64
    PROVE  Earned(ApplyBlockUtxos(utxos, body), n + 1)
<1> DEFINE after == ApplyBlockUtxos(utxos, body)
<1>1. utxos \in SUBSET OutPoint /\ IsFiniteSet(utxos) /\ TotalAmount(utxos) <= RewardsOf(n)
  BY DEF Earned
<1>2. IsFiniteSet(after) /\ TotalAmount(after) <= TotalAmount(utxos) + BlockReward(n)
  BY <1>1, BlockKeepsSupply
<1>3. after \in SUBSET OutPoint
  BY <1>1, ApplyBlockUtxosType
<1> HIDE DEF after
<1>4. TotalAmount(after) \in Nat /\ TotalAmount(utxos) \in Nat
  BY <1>1, <1>2, <1>3, TotalAmountIs
<1>5. /\ RewardsOf(n + 1) = RewardsOf(n) + BlockReward(n)
      /\ RewardsOf(n) \in Nat /\ BlockReward(n) \in Nat
  BY RewardsStep, BlockRewardType
<1>6. TotalAmount(after) <= RewardsOf(n + 1)
  BY <1>1, <1>2, <1>4, <1>5
<1>7. QED BY <1>2, <1>3, <1>6 DEF Earned, after

\* A transaction takes in exactly what it pays out and its fee, and its sums are
\* what u64 makes of them.
Pays(t) ==
    /\ Spent(t) \in SUBSET OutPoint /\ IsFiniteSet(Spent(t))
    /\ InputSum(t) \in Nat /\ SumFunctionOnSet(Amount, Spent(t)) = InputSum(t)
    /\ TotalInput(t) = InputSum(t) /\ TotalOutput(t) = OutputSum(t)
    /\ Fee(t) \in Nat /\ OutputSum(t) + Fee(t) = InputSum(t)

(* So does one that is valid against outputs that are worth less than 2^64. *)
LEMMA ValidPays ==
    ASSUME NEW t \in Tx, ~ IsCoinbase(t), NEW utxos, NEW n \in Nat, Earned(utxos, n),
           NEW spent, ValidateTransaction(t, utxos, spent), OutputSum(t) < U64, RewardsOf(n) < U64
    PROVE  Pays(t)
<1>1. utxos \in SUBSET OutPoint /\ IsFiniteSet(utxos) /\ TotalAmount(utxos) <= RewardsOf(n)
  BY DEF Earned
<1>2. /\ Spent(t) \subseteq utxos /\ IsFiniteSet(Spent(t))
      /\ SumFunctionOnSet(Amount, Spent(t)) = InputSum(t) /\ InputSum(t) \in Nat
      /\ Fee(t) \in Nat
      /\ InputSum(t) < U64 => OutputSum(t) + Fee(t) = InputSum(t)
  BY <1>1, ValidTransactionPays
<1>3. SumFunctionOnSet(Amount, Spent(t)) <= TotalAmount(utxos)
  <2>1. \A o \in utxos : Amount[o] \in Nat
    BY <1>1, AmountType
  <2>2. SumFunctionOnSet(Amount, Spent(t)) <= SumFunctionOnSet(Amount, utxos)
    BY <1>1, <1>2, <2>1, SumOfNaturals
  <2>3. QED BY <1>1, <2>2, TotalAmountIs
<1>4. TotalAmount(utxos) \in Nat /\ RewardsOf(n) \in Nat /\ U64 \in Nat \ {0} /\ OutputSum(t) \in Nat
  BY <1>1, TotalAmountIs, RewardsStep, LedgerAssumption, CreatedAmount
<1>5. InputSum(t) < U64
  BY <1>1, <1>2, <1>3, <1>4
<1>6. TotalInput(t) = InputSum(t) /\ TotalOutput(t) = OutputSum(t)
  <2>1. \A a \in Nat : a < U64 => a % U64 = a
    BY <1>4
  <2>2. InputSum(t) % U64 = InputSum(t) /\ OutputSum(t) % U64 = OutputSum(t)
    BY <1>2, <1>4, <1>5, <2>1
  <2>3. QED BY <2>2 DEF TotalInput, TotalOutput
<1>7. Spent(t) \in SUBSET OutPoint
  BY <1>1, <1>2
<1>8. QED BY <1>2, <1>5, <1>6, <1>7 DEF Pays

(* What transactions consume that have no input in common.                  *)
LEMMA PayTogether ==
    ASSUME NEW I, IsFiniteSet(I), NEW body, \A i \in I : Pays(body[i]),
           \A i, j \in I : i # j => Spent(body[i]) \cap Spent(body[j]) = {}
    PROVE  /\ IsFiniteSet(UNION { Spent(body[i]) : i \in I })
           /\ SumFunctionOnSet(Amount, UNION { Spent(body[i]) : i \in I })
                = SumFunctionOnSet([ i \in I |-> InputSum(body[i]) ], I)
<1> DEFINE sp == [ i \in I |-> Spent(body[i]) ]
           in == [ i \in I |-> InputSum(body[i]) ]
           S == UNION { sp[i] : i \in I }
<1>1. IsFiniteSet(I)
  OBVIOUS
<1>2. /\ \A i \in I : IsFiniteSet(sp[i]) /\ in[i] = SumFunctionOnSet(Amount, sp[i])
      /\ \A i \in I : \A o \in sp[i] : Amount[o] \in Nat
  BY AmountType DEF Pays
<1>3. \A i, j \in I : i # j => sp[i] \cap sp[j] = {}
  OBVIOUS
<1>4. UNION { Spent(body[i]) : i \in I } = S /\ S = UNION { sp[i] : i \in I }
  OBVIOUS
<1> HIDE DEF sp, S
<1>5. IsFiniteSet(S) /\ SumFunctionOnSet(Amount, S) = SumFunctionOnSet(in, I)
  <2>1. S = UNION { sp[i] : i \in I }
    BY <1>4
  <2> HIDE DEF in
  <2>2. QED BY <1>1, <1>2, <1>3, <2>1, SumOfFamily
<1>6. QED BY <1>4, <1>5

(* The fees of transactions that are valid side by side are paid out of     *)
(* what is unspent.                                                         *)
LEMMA FeesWithinSupply ==
    ASSUME NEW utxos, NEW n \in Nat, Earned(utxos, n), RewardsOf(n) < U64,
           NEW body \in Seq(Tx),
           \A i \in 2 .. Len(body) : /\ ~ IsCoinbase(body[i])
                                     /\ ValidateTransaction(body[i], utxos, {})
                                     /\ OutputSum(body[i]) < U64,
           \A i, j \in 2 .. Len(body) : i # j => Spent(body[i]) \cap Spent(body[j]) = {}
    PROVE  CalculateFees(body) \in Nat /\ CalculateFees(body) <= RewardsOf(n)
<1> DEFINE I == 2 .. Len(body)
           in == [ i \in I |-> InputSum(body[i]) ]
           fee == [ i \in I |-> Fee(body[i]) ]
           S == UNION { Spent(body[i]) : i \in I }
           sum(f, s) == SumFunctionOnSet(f, s)
<1>1. utxos \in SUBSET OutPoint /\ IsFiniteSet(utxos) /\ TotalAmount(utxos) <= RewardsOf(n)
  BY DEF Earned
<1>2. IsFiniteSet(I) /\ \A i \in I : body[i] \in Tx
  <2>1. Len(body) \in Nat /\ \A i \in I : body[i] \in Tx
    OBVIOUS
  <2>2. QED BY <2>1, FS_Interval
<1>3. \A i \in I : Pays(body[i]) /\ Spent(body[i]) \subseteq utxos /\ OutputSum(body[i]) \in Nat
  <2> SUFFICES ASSUME NEW i \in I
               PROVE  Pays(body[i]) /\ Spent(body[i]) \subseteq utxos /\ OutputSum(body[i]) \in Nat
    OBVIOUS
  <2>1. /\ body[i] \in Tx /\ ~ IsCoinbase(body[i]) /\ OutputSum(body[i]) < U64
        /\ ValidateTransaction(body[i], utxos, {})
    BY <1>2
  <2>2. QED BY <1>1, <2>1, ValidPays, ValidTransactionPays, CreatedAmount
<1>4. sum(Amount, S) = sum(in, I) /\ S \subseteq utxos /\ IsFiniteSet(S)
  <2>1. S \subseteq utxos
    BY <1>3
  <2>2. \A i, j \in I : i # j => Spent(body[i]) \cap Spent(body[j]) = {}
    OBVIOUS
  <2>3. IsFiniteSet(I) /\ \A i \in I : Pays(body[i])
    BY <1>2, <1>3
  <2>4. IsFiniteSet(S) /\ sum(Amount, S) = sum(in, I)
    <3> HIDE DEF I
    <3>1. QED BY <2>2, <2>3, PayTogether
  <2>5. QED BY <2>1, <2>4
<1>5. sum(Amount, S) <= RewardsOf(n)
  <2>1. \A o \in utxos : Amount[o] \in Nat
    BY <1>1, AmountType
  <2> HIDE DEF S
  <2>2. sum(Amount, S) <= sum(Amount, utxos) /\ sum(Amount, S) \in Nat
    BY <1>1, <1>4, <2>1, SumOfNaturals
  <2>3. sum(Amount, utxos) = TotalAmount(utxos) /\ TotalAmount(utxos) \in Nat /\ RewardsOf(n) \in Nat
    BY <1>1, TotalAmountIs, RewardsStep
  <2> HIDE DEF sum
  <2>4. QED BY <1>1, <2>2, <2>3
<1>6. sum(fee, I) <= sum(in, I) /\ sum(fee, I) \in Nat /\ sum(in, I) \in Nat
  <2>1. \A i \in I : /\ fee[i] \in Nat /\ in[i] \in Nat /\ fee[i] \in Int /\ in[i] \in Int
                     /\ fee[i] <= in[i]
    BY <1>3 DEF Pays
  <2> HIDE DEF fee, in, I
  <2>2. QED BY <1>2, <2>1, SumsCompare, SumOfNaturals
<1>7. CalculateFees(body) = sum(fee, I) % U64
  BY DEF CalculateFees, SumFunction
<1> HIDE DEF sum, fee, in, I, S
<1>8. RewardsOf(n) \in Nat /\ U64 \in Nat \ {0}
  BY RewardsStep, LedgerAssumption
<1>9. sum(fee, I) < U64 /\ sum(fee, I) <= RewardsOf(n)
  BY <1>4, <1>5, <1>6, <1>8
<1>10. sum(fee, I) % U64 = sum(fee, I)
  BY <1>6, <1>8, <1>9
<1>11. QED BY <1>6, <1>7, <1>9, <1>10
=============================================================================
