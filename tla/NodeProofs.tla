----------------------------- MODULE NodeProofs -----------------------------
(***************************************************************************)
(* Proofs about Node for every set of transactions, every block a peer may *)
(* offer and every height bound: types, a pool that spends no output twice *)
(* and a pool whose transactions only a block can make stale.              *)
(***************************************************************************)
EXTENDS Node, LedgerProofs, SequenceTheorems, FiniteSetTheorems

\* Types, with the facts that the chain has a genesis block and that a pool filled
\* one by one is finite, without which a template would not be a sequence.
TypeInv == TypeOK /\ chain # << >> /\ IsFiniteSet(txs)

(* A template is a sequence of transactions: the coinbase, then the pool.   *)
LEMMA TemplateType ==
    ASSUME TypeInv, height \in 0 .. MaxHeight - 1, NEW body \in Templates
    PROVE  body \in Seq(Tx) /\ body # << >>
<1>1. PICK order \in SetToSeqs(txs) : body = << OwnCoinbase[height + 1] >> \o order
  BY DEF Templates
<1>2. Cardinality(txs) \in Nat
  BY FS_CardinalityType DEF TypeInv
<1>3. order \in [ 1 .. Cardinality(txs) -> Tx ]
  BY <1>1 DEF SetToSeqs, TypeInv, TypeOK
<1>4. order \in Seq(Tx)
  BY <1>2, <1>3, SeqDef
<1>5. << OwnCoinbase[height + 1] >> \in Seq(Tx)
  BY NodeAssumption
<1>6. QED BY <1>1, <1>4, <1>5, ConcatProperties

(* The height is one less than the length of the chain, which has genesis.  *)
LEMMA HeightType ==
    ASSUME TypeInv
    PROVE  height \in Nat
<1>1. Len(chain) \in Nat /\ Len(chain) # 0
  BY EmptySeq DEF TypeInv, TypeOK
<1>2. QED BY <1>1 DEF height

(* A block adds one typed body to the chain and leaves typed outputs.       *)
LEMMA AddBlockType ==
    ASSUME TypeOK, NEW body \in Seq(Tx), AddBlock(body)
    PROVE  /\ chain' \in Seq(Seq(Tx)) /\ chain' # << >>
           /\ utxo_set' \subseteq OutPoint
<1>1. chain \in Seq(Seq(Tx)) /\ chain' = Append(chain, body)
  BY DEF TypeOK, AddBlock
<1>2. chain' \in Seq(Seq(Tx)) /\ chain' # << >>
  BY <1>1, AppendProperties
<1>3. QED BY <1>2, ApplyBlockUtxosType DEF TypeOK, AddBlock

LEMMA NextTypeInv == TypeInv /\ [Next]_vars => TypeInv'
<1> SUFFICES ASSUME TypeInv, [Next]_vars PROVE TypeInv'
  OBVIOUS
<1>0. TypeOK /\ chain # << >> /\ IsFiniteSet(txs) /\ MaxHeight \in Nat /\ height \in Nat
  BY NodeAssumption, HeightType DEF TypeInv
<1>1. ASSUME NEW t \in Tx, ProcessNewTx(t) PROVE TypeInv'
  BY <1>0, <1>1, FS_AddElement DEF ProcessNewTx, TypeInv, TypeOK
<1>2. ASSUME NEW body \in PeerBodies[height + 1], ProcessNewBlock(body) PROVE TypeInv'
  <2>1. height + 1 \in 1 .. MaxHeight + 1
    BY <1>0, <1>2 DEF ProcessNewBlock, AddBlock
  <2>2. body \in Seq(Tx)
    BY <1>2, <2>1, NodeAssumption
  <2>3. QED
    BY <1>0, <1>2, <2>2, AddBlockType DEF ProcessNewBlock, TypeInv, TypeOK
<1>3. CASE ToggleMining
  BY <1>0, <1>3 DEF ToggleMining, TypeInv, TypeOK
<1>4. CASE Mine
  <2>1. PICK body \in Templates : AddBlock(body) /\ txs' = txs \ ToSet(Tail(body))
    BY <1>4 DEF Mine
  <2>2. body \in Seq(Tx)
    <3>1. height \in 0 .. MaxHeight - 1
      BY <1>0, <1>4 DEF Mine
    <3>2. QED BY <3>1, TemplateType
  <2>3. IsFiniteSet(txs')
    BY <1>0, <2>1, FS_Difference
  <2>4. QED
    BY <1>0, <1>4, <2>1, <2>2, <2>3, AddBlockType DEF Mine, TypeInv, TypeOK
<1>5. CASE UNCHANGED vars
  BY <1>0, <1>5 DEF vars, TypeInv, TypeOK
<1>6. QED
  BY <1>1, <1>2, <1>3, <1>4, <1>5 DEF Next

(* The initial chain is genesis alone, with an empty pool.                  *)
LEMMA InitTypeInv == Init => TypeInv
<1> SUFFICES ASSUME Init PROVE TypeInv
  OBVIOUS
<1>1. chain \in Seq(Seq(Tx)) /\ chain # << >>
  BY NodeAssumption DEF Init
<1>2. utxo_set \subseteq OutPoint
  BY NodeAssumption, ApplyBlockUtxosType DEF Init
<1>3. txs = {} /\ mining \in BOOLEAN
  BY DEF Init
<1>4. IsFiniteSet(txs)
  BY <1>3, FS_EmptySet
<1>5. QED BY <1>1, <1>2, <1>3, <1>4 DEF TypeInv, TypeOK

(* The chain holds bodies of transactions, the UTXO set outpoints of known  *)
(* transactions, the pool known transactions.                               *)
THEOREM NodeTypeCorrect == Spec => []TypeOK
<1>1. TypeInv => TypeOK
  BY DEF TypeInv
<1>2. QED BY <1>1, InitTypeInv, NextTypeInv, PTL DEF Spec

-----------------------------------------------------------------------------
LEMMA NextPoolIsDisjoint == PoolIsDisjoint /\ [Next]_vars => PoolIsDisjoint'
<1> SUFFICES ASSUME PoolIsDisjoint, [Next]_vars PROVE PoolIsDisjoint'
  OBVIOUS
<1>1. ASSUME NEW t \in Tx, ProcessNewTx(t) PROVE PoolIsDisjoint'
  <2>1. txs' = txs \cup {t} /\ Spent(t) \cap PoolSpent = {}
    BY <1>1 DEF ProcessNewTx, Accepts
  <2>2. \A s \in txs : Spent(s) \cap Spent(t) = {}
    BY <2>1 DEF PoolSpent
  <2>3. QED BY <2>1, <2>2 DEF PoolIsDisjoint
<1>2. CASE txs' \subseteq txs
  BY <1>2 DEF PoolIsDisjoint
<1>3. ASSUME NEW body \in PeerBodies[height + 1], ProcessNewBlock(body)
      PROVE  txs' \subseteq txs
  BY <1>3 DEF ProcessNewBlock
<1>4. ASSUME ToggleMining \/ UNCHANGED vars PROVE txs' \subseteq txs
  BY <1>4 DEF ToggleMining, vars
<1>5. ASSUME Mine PROVE txs' \subseteq txs
  BY <1>5 DEF Mine
<1>6. QED BY <1>1, <1>2, <1>3, <1>4, <1>5 DEF Next

(* Mempool::add checks the pool, and a block only takes transactions out of *)
(* it: no two transactions of the pool ever spend the same output.          *)
THEOREM PoolNeverDoubleSpends == Spec => []PoolIsDisjoint
<1>1. Init => PoolIsDisjoint
  BY DEF Init, PoolIsDisjoint
<1>2. QED BY <1>1, NextPoolIsDisjoint, PTL DEF Spec

-----------------------------------------------------------------------------
(* Why a pool transaction goes stale only by a block: it was admitted with  *)
(* all its inputs unspent, the verdict on it needs nothing but those        *)
(* inputs, and an output that left the UTXO set is spent on the chain.      *)
PoolInv ==
    /\ TypeInv
    /\ \A t \in txs :
          /\ Spent(t) \subseteq utxo_set \cup SpentOnChain
          /\ ValidateTransaction(t, Spent(t), {})

(* A block adds its transactions to the confirmed ones and forgets none.    *)
LEMMA AddBlockConfirms ==
    ASSUME TypeInv, NEW body \in Seq(Tx), AddBlock(body)
    PROVE  Confirmed' = Confirmed \cup ToSet(body)
<1>1. chain \in Seq(Seq(Tx)) /\ chain' = Append(chain, body) /\ Len(chain) \in Nat
  BY DEF TypeInv, TypeOK, AddBlock
<1>2. DOMAIN chain' = DOMAIN chain \cup {Len(chain) + 1}
  BY <1>1
<1>3. \A i \in DOMAIN chain : chain'[i] = chain[i]
  BY <1>1
<1>4. chain'[Len(chain) + 1] = body
  BY <1>1
<1>5. QED BY <1>2, <1>3, <1>4 DEF Confirmed

(* Whatever a block takes out of the UTXO set is spent on the chain.        *)
LEMMA AddBlockKeepsInputs ==
    ASSUME TypeInv, NEW body \in Seq(Tx), AddBlock(body)
    PROVE  utxo_set \cup SpentOnChain \subseteq utxo_set' \cup SpentOnChain'
<1>1. Confirmed' = Confirmed \cup ToSet(body)
  BY AddBlockConfirms
<1>2. SpentOnChain \subseteq SpentOnChain'
  BY <1>1 DEF SpentOnChain
<1>3. ASSUME NEW o \in utxo_set, o \notin utxo_set' PROVE o \in SpentOnChain'
  <2>1. PICK j \in DOMAIN body : o \in Spent(body[j])
    BY <1>3, OnlySpentLeave DEF AddBlock
  <2>2. body[j] \in Confirmed'
    BY <1>1 DEF ToSet
  <2>3. QED BY <2>1, <2>2 DEF SpentOnChain
<1>4. QED BY <1>2, <1>3

LEMMA NextPoolInv == PoolInv /\ [Next]_vars => PoolInv'
<1> SUFFICES ASSUME PoolInv, [Next]_vars PROVE PoolInv'
  OBVIOUS
<1>0. TypeInv /\ TypeInv' /\ TypeOK /\ height \in Nat /\ MaxHeight \in Nat
  BY NextTypeInv, HeightType, NodeAssumption DEF PoolInv, TypeInv
<1>1. ASSUME NEW t \in Tx, ProcessNewTx(t) PROVE PoolInv'
  <2>1. /\ ~ IsCoinbase(t) /\ ValidateTransaction(t, utxo_set, {})
        /\ txs' = txs \cup {t} /\ UNCHANGED <<chain, utxo_set>>
    BY <1>1 DEF ProcessNewTx, Accepts
  <2>2. Spent(t) \subseteq utxo_set /\ ValidateTransaction(t, Spent(t), {})
    BY <2>1, ValidOnItsInputs
  <2>3. SpentOnChain' = SpentOnChain
    BY <2>1 DEF SpentOnChain, Confirmed
  <2>4. QED BY <1>0, <2>1, <2>2, <2>3 DEF PoolInv
<1>2. ASSUME NEW body \in Seq(Tx), AddBlock(body), txs' \subseteq txs PROVE PoolInv'
  BY <1>0, <1>2, AddBlockKeepsInputs DEF PoolInv
<1>3. ASSUME NEW body \in PeerBodies[height + 1], ProcessNewBlock(body) PROVE PoolInv'
  <2>1. height + 1 \in 1 .. MaxHeight + 1
    BY <1>0, <1>3 DEF ProcessNewBlock, AddBlock
  <2>2. body \in Seq(Tx)
    BY <2>1, NodeAssumption
  <2>3. QED BY <1>2, <1>3, <2>2 DEF ProcessNewBlock
<1>4. CASE ToggleMining \/ UNCHANGED vars
  <2>1. UNCHANGED <<chain, utxo_set, txs>>
    BY <1>4 DEF ToggleMining, vars
  <2>2. QED BY <1>0, <2>1 DEF PoolInv, SpentOnChain, Confirmed
<1>5. CASE Mine
  <2>1. height \in 0 .. MaxHeight - 1
    BY <1>0, <1>5 DEF Mine
  <2>2. PICK body \in Templates : AddBlock(body) /\ txs' \subseteq txs
    BY <1>5 DEF Mine
  <2>3. body \in Seq(Tx)
    BY <1>0, <2>1, TemplateType
  <2>4. QED BY <1>2, <2>2, <2>3
<1>6. QED BY <1>1, <1>3, <1>4, <1>5 DEF Next

(* A transaction of the pool stops being valid only because a block took one *)
(* of its inputs; no input of it is ever unknown to the chain, in whatever   *)
(* order blocks and transactions arrive.                                     *)
THEOREM PoolStaleOnlyBySpend == Spec => []StaleOnlyBySpend
<1>1. Init => PoolInv
  BY InitTypeInv DEF Init, PoolInv
<1>2. PoolInv => StaleOnlyBySpend
  BY ValidInLargerSet DEF PoolInv, StaleOnlyBySpend
<1>3. QED BY <1>1, <1>2, NextPoolInv, PTL DEF Spec

-----------------------------------------------------------------------------
(* The pool loses no transaction: one that leaves it is on the chain in the  *)
(* same step, since only the mining loop clears the pool, after add_block,   *)
(* of what its own block confirmed.                                          *)
THEOREM PoolNeverLoses == Spec => PoolLossless
<1>1. ASSUME TypeInv, [Next]_vars, NEW t \in txs, t \notin txs' PROVE t \in Confirmed'
  <2>1. CASE Mine
    <3>1. height \in 0 .. MaxHeight - 1
      BY <1>1, <2>1, HeightType, NodeAssumption DEF Mine
    <3>2. PICK body \in Templates : AddBlock(body) /\ txs' = txs \ ToSet(Tail(body))
      BY <2>1 DEF Mine
    <3>3. body \in Seq(Tx) /\ body # << >>
      BY <1>1, <3>1, TemplateType
    <3>4. \A i \in 1 .. Len(Tail(body)) : Tail(body)[i] = body[i + 1] /\ i + 1 \in DOMAIN body
      BY <3>3
    <3>5. ToSet(Tail(body)) \subseteq ToSet(body)
      BY <3>3, <3>4, HeadTailProperties DEF ToSet
    <3>6. QED BY <1>1, <3>2, <3>3, <3>5, AddBlockConfirms
  <2>2. ASSUME ~ Mine PROVE txs \subseteq txs'
    BY <1>1, <2>2 DEF Next, ProcessNewTx, ProcessNewBlock, ToggleMining, vars
  <2>3. QED BY <1>1, <2>1, <2>2
<1>2. TypeInv /\ [Next]_vars => [ \A t \in txs : t \notin txs' => t \in Confirmed' ]_vars
  BY <1>1
<1>3. QED BY <1>2, InitTypeInv, NextTypeInv, PTL DEF Spec, PoolLossless

-----------------------------------------------------------------------------
(* What is unspent is worth no more than the rewards of the blocks so far,  *)
(* so that no sum over unspent outputs wraps.                               *)
WorthInv == TypeInv /\ height <= MaxHeight /\ Earned(utxo_set, Len(chain))

(* The schedule up to the height bound stays below 2^64.                    *)
LEMMA RewardsFit ==
    ASSUME NEW n \in 0 .. MaxHeight + 1
    PROVE  n \in Nat /\ RewardsOf(n) < U64
<1> DEFINE top == MaxHeight + 1
<1>1. MaxHeight \in Nat /\ top \in Nat /\ n \in 0 .. top /\ n \in Nat
  BY NodeAssumption
<1>2. RewardsOf(top) < U64
  BY <1>1, RewardsStep, NodeAssumption
<1> HIDE DEF top
<1>3. RewardsOf(n) \in Nat /\ RewardsOf(top) \in Nat
  BY <1>1, RewardsStep
<1>4. RewardsOf(n) <= RewardsOf(top)
  BY <1>1, RewardsGrow
<1>5. QED BY <1>1, <1>2, <1>3, <1>4, LedgerAssumption

LEMMA AddBlockWorthInv ==
    ASSUME SumsFit, WorthInv, TypeInv', NEW body \in Seq(Tx), AddBlock(body)
    PROVE  WorthInv'
<1>1. /\ chain \in Seq(Seq(Tx)) /\ Len(chain) \in Nat /\ height = Len(chain) - 1
      /\ height < MaxHeight /\ ValidateBody(body, utxo_set, height + 1)
      /\ chain' = Append(chain, body) /\ utxo_set' = ApplyBlockUtxos(utxo_set, body)
  BY DEF WorthInv, TypeInv, TypeOK, AddBlock, height
<1>2. Len(chain') = Len(chain) + 1 /\ height + 1 = Len(chain)
  BY <1>1
<1>3. height' <= MaxHeight
  BY <1>1, <1>2, NodeAssumption DEF height
<1>4. \A i \in DOMAIN body : OutputSum(body[i]) < U64
  BY DEF SumsFit
<1>5. Earned(utxo_set', Len(chain) + 1)
  BY <1>1, <1>2, <1>4, BlockEarned DEF WorthInv
<1>6. Earned(utxo_set', Len(chain'))
  BY <1>2, <1>5
<1>7. QED BY <1>3, <1>6 DEF WorthInv, Earned

LEMMA InitWorthInv == ASSUME SumsFit PROVE Init => WorthInv
<1> SUFFICES ASSUME Init PROVE WorthInv
  OBVIOUS
<1>1. Len(chain) = 1 /\ height = 0 /\ utxo_set = ApplyBlockUtxos({}, GenesisBody)
  BY DEF Init, height
<1>2. /\ GenesisBody \in Seq(Tx) /\ Len(GenesisBody) = 1
      /\ TotalOutput(GenesisBody[1]) = InitialReward /\ 0 <= MaxHeight
  BY NodeAssumption
<1>3. OutputSum(GenesisBody[1]) < U64
  <2>1. GenesisBody[1] \in Tx
    BY <1>2
  <2>2. QED BY <2>1 DEF SumsFit
<1>4. Earned(utxo_set, 1)
  BY <1>1, <1>2, <1>3, GenesisEarned
<1>5. QED BY <1>1, <1>2, <1>4, InitTypeInv DEF WorthInv

-----------------------------------------------------------------------------
(* Why a fresh pool is mined: the template holds every transaction of the   *)
(* pool once, each is valid by itself while its inputs are there, none of   *)
(* them spends what another spends, and none is a coinbase.                 *)
FreshInv ==
    /\ PoolInv
    /\ PoolIsDisjoint
    /\ \A t \in txs : ~ IsCoinbase(t)

LEMMA NextFreshInv == FreshInv /\ [Next]_vars => FreshInv'
<1> SUFFICES ASSUME FreshInv, [Next]_vars PROVE FreshInv'
  OBVIOUS
<1>1. PoolInv' /\ PoolIsDisjoint'
  BY NextPoolInv, NextPoolIsDisjoint DEF FreshInv
<1>2. \A t \in txs' : t \in txs \/ Accepts(t)
  BY DEF Next, ProcessNewTx, ProcessNewBlock, ToggleMining, Mine, vars
<1>3. QED BY <1>1, <1>2 DEF FreshInv, Accepts

(* A step that takes in a block is one of the mining loop or of a peer.     *)
LEMMA BlockSteps ==
    ASSUME FreshInv, [Next]_vars
    PROVE  \/ UNCHANGED <<chain, utxo_set>>
           \/ \E body \in Seq(Tx) : AddBlock(body)
<1>1. TypeInv /\ height \in Nat /\ MaxHeight \in Nat
  BY HeightType, NodeAssumption DEF FreshInv, PoolInv
<1>2. ASSUME NEW body \in PeerBodies[height + 1], ProcessNewBlock(body)
      PROVE  body \in Seq(Tx) /\ AddBlock(body)
  <2>1. AddBlock(body) /\ height + 1 \in 1 .. MaxHeight + 1
    BY <1>1, <1>2 DEF ProcessNewBlock, AddBlock
  <2>2. QED BY <2>1, NodeAssumption
<1>3. CASE Mine
  <2>1. height \in 0 .. MaxHeight - 1
    BY <1>1, <1>3 DEF Mine
  <2>2. PICK body \in Templates : AddBlock(body)
    BY <1>3 DEF Mine
  <2>3. QED BY <1>1, <2>1, <2>2, TemplateType
<1>4. QED BY <1>2, <1>3 DEF Next, ProcessNewTx, ToggleMining, vars

LEMMA NextWorthInv == ASSUME SumsFit PROVE FreshInv /\ WorthInv /\ [Next]_vars => WorthInv'
<1> SUFFICES ASSUME FreshInv, WorthInv, [Next]_vars PROVE WorthInv'
  OBVIOUS
<1>1. TypeInv'
  BY NextTypeInv DEF WorthInv
<1>2. CASE UNCHANGED <<chain, utxo_set>>
  BY <1>1, <1>2 DEF WorthInv, height, Earned
<1>3. QED BY <1>1, <1>2, BlockSteps, AddBlockWorthInv

(* While no transaction of the pool is stale, the mining loop's template    *)
(* (commands.rs:209-240) is a valid block in whatever order the pool's map  *)
(* gives it: the fees are paid out of unspent outputs, so with the reward   *)
(* they stay within the schedule and do not wrap.                           *)
THEOREM FreshPoolsMine == ASSUME SumsFit PROVE Spec => []FreshPoolMines
<1> DEFINE Inv == FreshInv /\ WorthInv
<1>1. Init => Inv
  BY InitTypeInv, InitWorthInv DEF Init, FreshInv, PoolInv, PoolIsDisjoint
<1>2. Inv => FreshPoolMines
  <2> SUFFICES ASSUME Inv, height < MaxHeight, \A t \in txs : Spent(t) \subseteq utxo_set,
                      NEW body \in Templates
               PROVE  ValidateBody(body, utxo_set, height + 1)
    BY DEF FreshPoolMines
  <2> DEFINE own == OwnCoinbase[height + 1]
             n == height + 1
  <2>1. height \in Nat /\ n \in 1 .. MaxHeight /\ IsFiniteSet(txs) /\ txs \subseteq Tx
    BY HeightType, NodeAssumption DEF FreshInv, PoolInv, TypeInv, TypeOK
  <2>2. PICK order \in SetToSeqs(txs) : body = << own >> \o order
    BY DEF Templates
  <2>3. Cardinality(txs) \in Nat
    BY <2>1, FS_CardinalityType
  <2>4. /\ order \in Seq(txs) /\ Len(order) = Cardinality(txs)
        /\ \A i, j \in 1 .. Len(order) : i # j => order[i] # order[j]
    <3>1. order \in [ 1 .. Cardinality(txs) -> txs ]
      BY <2>2 DEF SetToSeqs
    <3>2. order \in Seq(txs) /\ Len(order) = Cardinality(txs)
      BY <2>3, <3>1, SeqDef, LenProperties
    <3>3. QED BY <2>2, <3>2 DEF SetToSeqs
  <2>5. /\ body # << >> /\ Len(body) = Len(order) + 1 /\ body[1] = own
        /\ \A i \in 2 .. Len(body) : i - 1 \in 1 .. Len(order) /\ body[i] = order[i - 1]
    <3>1. << own >> \in Seq({own} \cup txs) /\ order \in Seq({own} \cup txs)
      BY <2>4
    <3>2. QED BY <2>2, <3>1, ConcatProperties
  <2>6. IsCoinbase(body[1]) /\ TotalOutput(body[1]) = BlockReward(n) /\ body \in Seq(Tx)
    <3>1. height \in 0 .. MaxHeight - 1
      BY <2>1, NodeAssumption
    <3>2. body \in Seq(Tx)
      BY <3>1, TemplateType DEF FreshInv, PoolInv
    <3>3. QED BY <2>1, <2>5, <3>2, NodeAssumption
  <2>7. \A i, j \in 2 .. Len(body) : i # j => Spent(body[i]) \cap Spent(body[j]) = {}
    <3> SUFFICES ASSUME NEW i \in 2 .. Len(body), NEW j \in 2 .. Len(body), i # j
                 PROVE  Spent(body[i]) \cap Spent(body[j]) = {}
      OBVIOUS
    <3>1. /\ i - 1 \in 1 .. Len(order) /\ j - 1 \in 1 .. Len(order) /\ i - 1 # j - 1
          /\ body[i] = order[i - 1] /\ body[j] = order[j - 1]
      BY <2>5
    <3>2. body[i] # body[j] /\ body[i] \in txs /\ body[j] \in txs
      BY <2>4, <3>1
    <3>3. QED BY <3>2 DEF FreshInv, PoolIsDisjoint
  <2>8. ASSUME NEW i \in 2 .. Len(body)
        PROVE  /\ ~ IsCoinbase(body[i]) /\ Spent(body[i]) \subseteq utxo_set
               /\ ValidateTransaction(body[i], utxo_set, {})
               /\ ValidateTransaction(body[i], utxo_set, SpentBefore(body, i))
    <3> DEFINE t == body[i]
    <3>1. t = order[i - 1] /\ t \in txs /\ ~ IsCoinbase(t) /\ Spent(t) \subseteq utxo_set
      BY <2>4, <2>5 DEF FreshInv
    <3>2. ValidateTransaction(t, utxo_set, {})
      BY <3>1, ValidInLargerSet DEF FreshInv, PoolInv
    <3>3. Spent(t) \cap SpentBefore(body, i) = {}
      <4>1. \A j \in 2 .. i - 1 : j \in 2 .. Len(body) /\ i # j
        BY <2>4, <2>5
      <4>2. QED BY <2>7, <4>1 DEF SpentBefore
    <3>4. \A k \in DOMAIN Inputs[t] : OutPointOf(Inputs[t][k]) \in Spent(t)
      BY <3>1 DEF Spent
    <3>5. QED BY <3>1, <3>2, <3>3, <3>4 DEF ValidateTransaction
  <2>9. TotalOutput(body[1]) <= AddU64(BlockReward(n), CalculateFees(body))
    <3>1. n \in Nat /\ n = Len(chain) /\ n + 1 \in 0 .. MaxHeight + 1 /\ n \in 0 .. MaxHeight + 1
      BY <2>1, NodeAssumption DEF WorthInv, TypeInv, TypeOK, height
    <3>2. RewardsOf(n) < U64 /\ RewardsOf(n + 1) < U64
      BY <3>1, RewardsFit
    <3>3. Earned(utxo_set, n)
      BY <3>1 DEF WorthInv
    <3>4. \A i \in 2 .. Len(body) : OutputSum(body[i]) < U64
      <4>1. \A i \in 2 .. Len(body) : body[i] \in Tx
        BY <2>6
      <4>2. QED BY <4>1 DEF SumsFit
    <3> HIDE DEF n, Inv
    <3>5. CalculateFees(body) \in Nat /\ CalculateFees(body) <= RewardsOf(n)
      BY <2>6, <2>7, <2>8, <3>1, <3>2, <3>3, <3>4, FeesWithinSupply
    <3>6. /\ RewardsOf(n + 1) = RewardsOf(n) + BlockReward(n) /\ RewardsOf(n) \in Nat
          /\ BlockReward(n) \in Nat /\ U64 \in Nat \ {0}
      BY <3>1, RewardsStep, BlockRewardType, LedgerAssumption
    <3>7. /\ BlockReward(n) + CalculateFees(body) \in Nat
          /\ BlockReward(n) + CalculateFees(body) < U64
          /\ BlockReward(n) <= BlockReward(n) + CalculateFees(body)
      BY <3>2, <3>5, <3>6
    <3>8. (BlockReward(n) + CalculateFees(body)) % U64 = BlockReward(n) + CalculateFees(body)
      BY <3>6, <3>7
    <3>9. QED BY <2>6, <3>7, <3>8 DEF AddU64
  <2>10. QED BY <2>5, <2>6, <2>8, <2>9 DEF ValidateBody
<1>3. Inv /\ [Next]_vars => Inv'
  BY NextFreshInv, NextWorthInv
<1> HIDE DEF Inv
<1>4. QED BY <1>1, <1>2, <1>3, PTL DEF Spec

-----------------------------------------------------------------------------
(* Why no transaction that moves money is confirmed twice.  It is confirmed *)
(* by consuming an output that holds some.  That output could only be there *)
(* again if the transaction that created it were confirmed again, and that  *)
(* one moved money too, or is a coinbase, which a block may repeat.         *)

\* A block of the chain has its coinbase in front and no other.
CoinbaseFirst ==
    \A i \in DOMAIN chain :
        chain[i] # << >> /\ \A k \in 2 .. Len(chain[i]) : ~ IsCoinbase(chain[i][k])

\* What is confirmed and no coinbase pays as much as it consumes, fee included.
AllPay == \A t \in Confirmed : t \in Tx /\ (~ IsCoinbase(t) => Pays(t))

\* Outputs come from confirmed transactions only.
NothingFromOutside == \A o \in utxo_set \cup SpentOnChain : o[1] \in Confirmed

\* A confirmed output that holds money is unspent until it is spent, and then for
\* good.
UnspentUntilSpent ==
    \A o \in OutPoint : o[1] \in Confirmed /\ Amount[o] # 0 =>
        (o \in utxo_set <=> o \notin SpentOnChain)

ConfirmedInv ==
    /\ WorthInv
    /\ CoinbaseFirst
    /\ AllPay
    /\ NothingFromOutside
    /\ CoinbasesDiffer(Len(chain)) => UnspentUntilSpent
    /\ ConfirmedOnce

(* An outpoint names the transaction that creates it.                       *)
LEMMA OutPointIs ==
    /\ \A t, o : o \in Created(t) => o[1] = t
    /\ \A o \in OutPoint : o[1] \in Tx /\ o \in Created(o[1])
    /\ \A t \in Tx : Created(t) \subseteq OutPoint
<1>1. \A t, o : o \in Created(t) => o[1] = t
  BY DEF Created
<1>2. QED BY <1>1 DEF OutPoint

(* The transactions a block takes in besides its coinbase find their inputs *)
(* unspent, pay what they consume and share no input with one another.      *)
LEMMA TakenBody ==
    ASSUME SumsFit, WorthInv, NEW body \in Seq(Tx), AddBlock(body)
    PROVE  /\ \A t \in ToSet(body) : t \in Tx /\ Spent(t) \subseteq utxo_set /\ (~ IsCoinbase(t) => Pays(t))
           /\ \A i, j \in DOMAIN body : i # j => Spent(body[i]) \cap Spent(body[j]) = {}
<1>1. /\ ValidateBody(body, utxo_set, height + 1) /\ height < MaxHeight
      /\ utxo_set' = ApplyBlockUtxos(utxo_set, body)
  BY DEF AddBlock
<1>2. Len(chain) \in Nat /\ height = Len(chain) - 1 /\ MaxHeight \in Nat /\ height \in Nat
  BY HeightType, NodeAssumption DEF WorthInv, TypeInv, TypeOK, height
<1>3. Len(chain) \in 0 .. MaxHeight + 1
  BY <1>1, <1>2
<1>4. Earned(utxo_set, Len(chain)) /\ RewardsOf(Len(chain)) < U64
  BY <1>3, RewardsFit DEF WorthInv
<1>5. \A i \in DOMAIN body : body[i] \in Tx /\ OutputSum(body[i]) < U64 /\ i \in 1 .. Len(body)
  BY DEF SumsFit
<1>6. ASSUME NEW i \in DOMAIN body, ~ IsCoinbase(body[i])
      PROVE  /\ i \in 2 .. Len(body) /\ ValidateTransaction(body[i], utxo_set, SpentBefore(body, i))
             /\ Pays(body[i]) /\ Spent(body[i]) \subseteq utxo_set
  <2>1. i \in 2 .. Len(body)
    BY <1>1, <1>5, <1>6 DEF ValidateBody
  <2>2. ValidateTransaction(body[i], utxo_set, SpentBefore(body, i)) /\ Spent(body[i]) \subseteq utxo_set
    BY <1>1, <2>1 DEF ValidateBody
  <2>3. Pays(body[i])
    BY <1>2, <1>4, <1>5, <1>6, <2>2, ValidPays
  <2>4. QED BY <2>1, <2>2, <2>3
<1>7. \A t : IsCoinbase(t) => Spent(t) = {}
  BY DEF Spent
<1>8. ASSUME NEW i \in DOMAIN body, NEW j \in DOMAIN body, i < j
      PROVE  Spent(body[i]) \cap Spent(body[j]) = {}
  <2>1. CASE IsCoinbase(body[i]) \/ IsCoinbase(body[j])
    BY <1>7, <2>1
  <2>2. CASE ~ IsCoinbase(body[i]) /\ ~ IsCoinbase(body[j])
    <3>1. i \in 2 .. j - 1
      BY <1>6, <1>8, <2>2
    <3>2. Spent(body[i]) \subseteq SpentBefore(body, j)
      BY <3>1 DEF SpentBefore
    <3>3. Spent(body[j]) \cap SpentBefore(body, j) = {}
      <4>1. ValidateTransaction(body[j], utxo_set, SpentBefore(body, j))
        BY <1>6, <2>2
      <4>2. \A k \in DOMAIN Inputs[body[j]] :
               OutPointOf(Inputs[body[j]][k]) \notin SpentBefore(body, j)
        BY <4>1 DEF ValidateTransaction
      <4>3. QED BY <2>2, <4>2 DEF Spent
    <3>4. QED BY <3>2, <3>3
  <2>3. QED BY <2>1, <2>2
<1>9. \A t \in ToSet(body) : \E i \in DOMAIN body : t = body[i]
  BY DEF ToSet
<1>10. \A t \in ToSet(body) : t \in Tx /\ Spent(t) \subseteq utxo_set /\ (~ IsCoinbase(t) => Pays(t))
  BY <1>5, <1>6, <1>7, <1>9
<1>11. \A i, j \in DOMAIN body : i # j => i < j \/ j < i
  BY <1>5
<1>12. QED BY <1>8, <1>10, <1>11

(* What a transaction consumes and creates is worth nothing, if its inputs  *)
(* are.                                                                     *)
LEMMA PaysNothing ==
    ASSUME NEW t \in Tx, Pays(t), \A o \in Spent(t) : Amount[o] = 0
    PROVE  TotalInput(t) = 0 /\ \A o \in Created(t) : Amount[o] = 0
<1>1. IsFiniteSet(Spent(t)) /\ Spent(t) \subseteq OutPoint
  BY DEF Pays
<1>2. \A o \in Spent(t) : Amount[o] \in Nat
  BY <1>1, AmountType
<1>3. SumFunctionOnSet(Amount, Spent(t)) = 0
  BY <1>1, <1>2, SumIsZero
<1>4. InputSum(t) = 0 /\ TotalInput(t) = 0
  BY <1>3 DEF Pays
<1>5. /\ IsFiniteSet(Created(t)) /\ OutputSum(t) \in Nat
      /\ SumFunctionOnSet(Amount, Created(t)) \in Nat
      /\ SumFunctionOnSet(Amount, Created(t)) <= OutputSum(t)
  BY CreatedAmount
<1>6. OutputSum(t) = 0
  <2>1. Fee(t) \in Nat /\ OutputSum(t) + Fee(t) = InputSum(t)
    BY DEF Pays
  <2>2. QED BY <1>4, <1>5, <2>1
<1>7. \A o \in Created(t) : Amount[o] \in Nat
  BY OutPointIs, AmountType
<1>8. \A o \in Created(t) : Amount[o] = 0
  <2>1. SumFunctionOnSet(Amount, Created(t)) = 0
    BY <1>5, <1>6
  <2>2. QED BY <1>5, <1>7, <2>1, SumIsZero
<1>9. QED BY <1>4, <1>8

(* What a block takes in a second time moves no money, unless an earlier    *)
(* block had repeated a coinbase: nothing goes in and nothing comes out.    *)
LEMMA SecondTimeWorthless ==
    ASSUME SumsFit, ConfirmedInv, CoinbasesDiffer(Len(chain)),
           NEW body \in Seq(Tx), AddBlock(body),
           NEW t \in ToSet(body) \cap Confirmed, ~ IsCoinbase(t)
    PROVE  TotalInput(t) = 0 /\ \A o \in Created(t) \cup Spent(t) : Amount[o] = 0
<1>1. t \in Tx /\ Spent(t) \subseteq utxo_set /\ Pays(t)
  BY TakenBody DEF ConfirmedInv
<1>2. Spent(t) \subseteq SpentOnChain /\ Spent(t) \subseteq OutPoint
  BY <1>1 DEF SpentOnChain, Pays
<1>3. \A o \in Spent(t) : Amount[o] = 0
  BY <1>1, <1>2 DEF ConfirmedInv, NothingFromOutside, UnspentUntilSpent
<1>4. QED BY <1>1, <1>3, PaysNothing

(* A block extends the chain.  While the coinbases differ, that of the new   *)
(* block is not on the chain yet.                                           *)
LEMMA AddBlockCoinbases ==
    ASSUME TypeInv, CoinbaseFirst, NEW body \in Seq(Tx), AddBlock(body)
    PROVE  /\ DOMAIN chain' = DOMAIN chain \cup {Len(chain) + 1} /\ DOMAIN chain = 1 .. Len(chain)
           /\ Len(chain) \in Nat /\ Len(chain') = Len(chain) + 1
           /\ \A i \in DOMAIN chain : chain'[i] = chain[i]
           /\ chain'[Len(chain) + 1] = body
           /\ \A n \in 0 .. Len(chain) : CoinbasesDiffer(n)' <=> CoinbasesDiffer(n)
           /\ CoinbasesDiffer(Len(chain))' =>
                  CoinbasesDiffer(Len(chain)) /\ body[1] \notin Confirmed
           /\ 1 \in DOMAIN body /\ IsCoinbase(body[1])
           /\ \A k \in DOMAIN body : k # 1 => k \in 2 .. Len(body) /\ ~ IsCoinbase(body[k])
<1>1. /\ chain \in Seq(Seq(Tx)) /\ chain' = Append(chain, body) /\ Len(chain) \in Nat
      /\ ValidateBody(body, utxo_set, height + 1)
  BY DEF TypeInv, TypeOK, AddBlock
<1>2. /\ DOMAIN chain' = DOMAIN chain \cup {Len(chain) + 1} /\ DOMAIN chain = 1 .. Len(chain)
      /\ Len(chain') = Len(chain) + 1
      /\ \A i \in DOMAIN chain : chain'[i] = chain[i]
      /\ chain'[Len(chain) + 1] = body
  BY <1>1
<1>3. /\ IsCoinbase(body[1]) /\ body # << >>
      /\ \A k \in 2 .. Len(body) : ~ IsCoinbase(body[k])
  BY <1>1 DEF ValidateBody
<1>4. /\ Len(body) \in Nat /\ DOMAIN body = 1 .. Len(body) /\ 1 \in DOMAIN body
      /\ \A k \in DOMAIN body : k # 1 => k \in 2 .. Len(body)
  BY <1>3
<1>5. ASSUME NEW n \in 0 .. Len(chain) PROVE CoinbasesDiffer(n)' <=> CoinbasesDiffer(n)
  <2>1. \A i \in 1 .. n : chain'[i] = chain[i]
    BY <1>1, <1>2
  <2>2. QED BY <2>1 DEF CoinbasesDiffer
<1>6. ASSUME CoinbasesDiffer(Len(chain))'
      PROVE  CoinbasesDiffer(Len(chain)) /\ body[1] \notin Confirmed
  <2>1. \A i, j \in 1 .. Len(chain) + 1 : i # j => chain'[i][1] # chain'[j][1]
    BY <1>2, <1>6 DEF CoinbasesDiffer
  <2>2. CoinbasesDiffer(Len(chain))
    <3>1. \A i \in 1 .. Len(chain) : i \in 1 .. Len(chain) + 1 /\ chain'[i] = chain[i]
      BY <1>1, <1>2
    <3>2. QED BY <2>1, <3>1 DEF CoinbasesDiffer
  <2>3. ASSUME body[1] \in Confirmed PROVE FALSE
    <3>1. PICK i \in DOMAIN chain : body[1] \in ToSet(chain[i])
      BY <2>3 DEF Confirmed
    <3>2. PICK k \in DOMAIN chain[i] : body[1] = chain[i][k]
      BY <3>1 DEF ToSet
    <3>3. chain[i] \in Seq(Tx) /\ chain[i] # << >>
      BY <1>1, <3>1 DEF CoinbaseFirst
    <3>4. k \in 2 .. Len(chain[i]) \/ k = 1
      BY <3>2, <3>3
    <3>5. k = 1
      BY <1>3, <3>2, <3>4 DEF CoinbaseFirst
    <3>6. /\ i \in 1 .. Len(chain) + 1 /\ Len(chain) + 1 \in 1 .. Len(chain) + 1
          /\ i # Len(chain) + 1
      BY <1>1, <1>2
    <3>7. chain'[i][1] = chain'[Len(chain) + 1][1]
      BY <1>2, <3>2, <3>5
    <3>8. QED BY <2>1, <3>6, <3>7
  <2>4. QED BY <2>2, <2>3
<1>7. QED BY <1>1, <1>2, <1>3, <1>4, <1>5, <1>6

LEMMA AddBlockConfirmedInv ==
    ASSUME SumsFit, ConfirmedInv, TypeInv', NEW body \in Seq(Tx), AddBlock(body)
    PROVE  ConfirmedInv'
<1>1. TypeInv /\ WorthInv /\ CoinbaseFirst
  BY DEF ConfirmedInv, WorthInv
<1>2. /\ DOMAIN chain' = DOMAIN chain \cup {Len(chain) + 1} /\ DOMAIN chain = 1 .. Len(chain)
      /\ Len(chain) \in Nat
      /\ \A i \in DOMAIN chain : chain'[i] = chain[i]
      /\ chain'[Len(chain) + 1] = body
      /\ \A n \in 0 .. Len(chain) : CoinbasesDiffer(n)' <=> CoinbasesDiffer(n)
      /\ CoinbasesDiffer(Len(chain))' => CoinbasesDiffer(Len(chain)) /\ body[1] \notin Confirmed
      /\ 1 \in DOMAIN body
      /\ \A k \in DOMAIN body : k # 1 => k \in 2 .. Len(body) /\ ~ IsCoinbase(body[k])
  BY <1>1, AddBlockCoinbases
<1>3. Confirmed' = Confirmed \cup ToSet(body)
  BY <1>1, AddBlockConfirms
<1> DEFINE taken == UNION { Spent(t) : t \in ToSet(body) }
           made  == UNION { Created(t) : t \in ToSet(body) }
<1>4. SpentOnChain' = SpentOnChain \cup taken
  BY <1>3 DEF SpentOnChain
<1>5. \A t \in ToSet(body) : t \in Tx /\ Spent(t) \subseteq utxo_set /\ (~ IsCoinbase(t) => Pays(t))
  BY <1>1, TakenBody
<1>6. ASSUME CoinbasesDiffer(Len(chain))
      PROVE  \A t \in ToSet(body) \cap Confirmed : ~ IsCoinbase(t) =>
                TotalInput(t) = 0 /\ \A o \in Created(t) \cup Spent(t) : Amount[o] = 0
  BY <1>6, SecondTimeWorthless
<1>7. /\ utxo_set' \subseteq utxo_set \cup made
      /\ (utxo_set \cup made) \ taken \subseteq utxo_set'
      /\ utxo_set' \cap taken \subseteq made
  BY DEF AddBlock, ApplyBlockUtxos, ToSet
<1>8. \A o \in made : \E t \in ToSet(body) : t = o[1] /\ o \in Created(t)
  BY OutPointIs
<1>9. \A o \in utxo_set \cup SpentOnChain : o[1] \in Confirmed
  BY DEF ConfirmedInv, NothingFromOutside
<1>10. WorthInv'
  BY <1>1, AddBlockWorthInv
<1>11. CoinbaseFirst'
  <2>1. body # << >> /\ \A k \in 2 .. Len(body) : ~ IsCoinbase(body[k])
    BY DEF AddBlock, ValidateBody
  <2>2. QED BY <1>1, <1>2, <2>1 DEF CoinbaseFirst
<1>12. AllPay'
  BY <1>3, <1>5 DEF ConfirmedInv, AllPay
<1>13. NothingFromOutside'
  <2>1. taken \subseteq utxo_set
    BY <1>5
  <2>2. QED BY <1>3, <1>4, <1>7, <1>8, <1>9, <2>1 DEF NothingFromOutside
<1>14. ASSUME CoinbasesDiffer(Len(chain))' PROVE UnspentUntilSpent'
  <2> SUFFICES ASSUME NEW o \in OutPoint, o[1] \in Confirmed', Amount[o] # 0
               PROVE  o \in utxo_set' <=> o \notin SpentOnChain'
    BY DEF UnspentUntilSpent
  <2>1. o \in Created(o[1])
    BY OutPointIs
  <2>2. CoinbasesDiffer(Len(chain)) /\ body[1] \notin Confirmed
    BY <1>2, <1>14
  <2>3. CASE o[1] \in Confirmed
    <3>1. o[1] \in ToSet(body) => ~ IsCoinbase(o[1])
      BY <1>2, <2>2, <2>3 DEF ToSet
    <3>2. o \notin made
      BY <1>6, <1>8, <2>1, <2>2, <2>3, <3>1
    <3>3. o \in utxo_set <=> o \notin SpentOnChain
      BY <2>2, <2>3 DEF ConfirmedInv, UnspentUntilSpent
    <3>4. QED BY <1>4, <1>5, <1>7, <3>2, <3>3
  <2>4. CASE o[1] \notin Confirmed
    <3>1. o \notin utxo_set /\ o \notin SpentOnChain
      BY <1>9, <2>4
    <3>2. o \in made /\ o \notin taken
      BY <1>3, <1>5, <2>1, <2>4, <3>1
    <3>3. QED BY <1>4, <1>7, <3>1, <3>2
  <2>5. QED BY <2>3, <2>4
<1>15. ConfirmedOnce'
  <2> SUFFICES ASSUME NEW i \in DOMAIN chain', NEW j \in DOMAIN chain', i < j,
                      NEW t \in ToSet(chain'[i]) \cap ToSet(chain'[j]),
                      ~ IsCoinbase(t), CoinbasesDiffer(j - 1)'
               PROVE  TotalInput(t) = 0
    BY DEF ConfirmedOnce
  <2>1. /\ i \in DOMAIN chain /\ chain'[i] = chain[i] /\ j - 1 \in 0 .. Len(chain)
        /\ j = Len(chain) + 1 => j - 1 = Len(chain)
    BY <1>2
  <2>2. CoinbasesDiffer(j - 1)
    BY <1>2, <2>1
  <2>3. CASE j \in DOMAIN chain
    BY <1>2, <2>1, <2>2, <2>3 DEF ConfirmedInv, ConfirmedOnce
  <2>4. CASE j = Len(chain) + 1
    <3>1. t \in ToSet(body) \cap Confirmed
      BY <1>2, <2>1, <2>4 DEF Confirmed
    <3>2. QED BY <1>6, <2>1, <2>2, <2>4, <3>1
  <2>5. QED BY <1>2, <2>3, <2>4
<1>16. QED
  BY <1>10, <1>11, <1>12, <1>13, <1>14, <1>15 DEF ConfirmedInv

LEMMA InitConfirmedInv == ASSUME SumsFit PROVE Init => ConfirmedInv
<1> SUFFICES ASSUME Init PROVE ConfirmedInv
  OBVIOUS
<1>1. WorthInv
  BY InitWorthInv
<1>2. DOMAIN chain = {1} /\ chain[1] = GenesisBody /\ Confirmed = ToSet(GenesisBody)
  BY DEF Init, Confirmed
<1>3. /\ GenesisBody \in Seq(Tx) /\ Len(GenesisBody) = 1
      /\ \A t \in ToSet(GenesisBody) : IsCoinbase(t) /\ t \in Tx
  <2>1. GenesisBody \in Seq(Tx) /\ \A t \in ToSet(GenesisBody) : IsCoinbase(t)
    BY NodeAssumption
  <2>2. \A t \in ToSet(GenesisBody) : t \in Tx
    BY <2>1 DEF ToSet
  <2>3. QED BY <2>1, <2>2, NodeAssumption
<1>4. CoinbaseFirst
  <2>1. GenesisBody # << >> /\ 2 .. Len(GenesisBody) = {}
    BY <1>3
  <2>2. QED BY <1>2, <2>1 DEF CoinbaseFirst
<1>5. AllPay
  BY <1>2, <1>3 DEF AllPay
<1>6. \A t \in Confirmed : Spent(t) = {}
  BY <1>2, <1>3 DEF Spent
<1>7. SpentOnChain = {}
  BY <1>6 DEF SpentOnChain
<1>8. utxo_set = UNION { Created(t) : t \in Confirmed }
  BY <1>2, <1>6 DEF Init, ApplyBlockUtxos, ToSet
<1>9. NothingFromOutside /\ UnspentUntilSpent
  BY <1>7, <1>8, OutPointIs DEF NothingFromOutside, UnspentUntilSpent
<1>10. ConfirmedOnce
  BY <1>2 DEF ConfirmedOnce
<1>11. QED BY <1>1, <1>4, <1>5, <1>9, <1>10 DEF ConfirmedInv

LEMMA NextConfirmedInv ==
    ASSUME SumsFit
    PROVE  FreshInv /\ ConfirmedInv /\ [Next]_vars => (FreshInv /\ ConfirmedInv)'
<1> SUFFICES ASSUME FreshInv, ConfirmedInv, [Next]_vars PROVE (FreshInv /\ ConfirmedInv)'
  OBVIOUS
<1>1. FreshInv' /\ WorthInv' /\ TypeInv'
  BY NextFreshInv, NextWorthInv DEF ConfirmedInv, WorthInv
<1>2. ASSUME UNCHANGED <<chain, utxo_set>> PROVE ConfirmedInv'
  <2>1. Confirmed' = Confirmed /\ SpentOnChain' = SpentOnChain
    BY <1>2 DEF Confirmed, SpentOnChain
  <2>2. CoinbaseFirst' /\ AllPay' /\ NothingFromOutside'
    BY <1>2, <2>1 DEF ConfirmedInv, CoinbaseFirst, AllPay, NothingFromOutside
  <2>3. CoinbasesDiffer(Len(chain))' => UnspentUntilSpent'
    BY <1>2, <2>1 DEF ConfirmedInv, CoinbasesDiffer, UnspentUntilSpent
  <2>4. ConfirmedOnce'
    BY <1>2 DEF ConfirmedInv, ConfirmedOnce, CoinbasesDiffer
  <2>5. QED BY <1>1, <2>2, <2>3, <2>4 DEF ConfirmedInv
<1>3. QED BY <1>1, <1>2, BlockSteps, AddBlockConfirmedInv

(* While no coinbase of the chain was repeated, no block confirms again a   *)
(* transaction that moves money, if no sum of outputs wraps: neither the    *)
(* miner with a pool it has not cleared yet nor a peer can do it.           *)
THEOREM NothingConfirmedTwice ==
    ASSUME SumsFit PROVE Spec => []ConfirmedOnce
<1> DEFINE Inv == FreshInv /\ ConfirmedInv
<1>1. Init => Inv
  BY InitTypeInv, InitConfirmedInv DEF Init, FreshInv, PoolInv, PoolIsDisjoint
<1>2. Inv /\ [Next]_vars => Inv'
  BY NextConfirmedInv
<1>3. Inv => ConfirmedOnce
  BY DEF ConfirmedInv
<1> HIDE DEF Inv
<1>4. QED BY <1>1, <1>2, <1>3, PTL DEF Spec

-----------------------------------------------------------------------------
(* Why money is conserved, block by block: what the transactions of a block *)
(* consume they create again or leave as fees, and nothing worth something  *)
(* is inserted over anything else while the coinbases differ.               *)

\* What the blocks of the chain issued.
IssuedSoFar == SumFunction([ i \in DOMAIN chain |-> Issued(chain[i]) ])

\* No output shares its index with another of its transaction.
IndicesFit == \A t \in Confirmed : Len(Outputs[t]) <= U16

LEMMA ConservationIs ==
    Conservation <=>
        /\ TotalAmount(utxo_set) <= IssuedSoFar
        /\ CoinbasesDiffer(Len(chain)) /\ IndicesFit => TotalAmount(utxo_set) = IssuedSoFar
BY DEF Conservation, IssuedSoFar, IndicesFit

(* A block the chain takes in inserts nothing worth something over another  *)
(* output while the coinbases differ and the indices suffice.               *)
LEMMA AddBlockInsertsAnew ==
    ASSUME SumsFit, ConfirmedInv, NEW body \in Seq(Tx), AddBlock(body),
           CoinbasesDiffer(Len(chain))', IndicesFit'
    PROVE  InsertsAnew(utxo_set, body)
<1>1. /\ CoinbasesDiffer(Len(chain)) /\ body[1] \notin Confirmed
      /\ IsCoinbase(body[1])
      /\ \A k \in DOMAIN body : k # 1 => k \in 2 .. Len(body) /\ ~ IsCoinbase(body[k])
  BY AddBlockCoinbases DEF ConfirmedInv, WorthInv
<1>2. Confirmed' = Confirmed \cup ToSet(body)
  BY AddBlockConfirms DEF ConfirmedInv, WorthInv
<1>3. \A i \in DOMAIN body : body[i] \in ToSet(body) /\ body[i] \in Confirmed' /\ body[i] \in Tx
  BY <1>2 DEF ToSet
<1>4. \A i \in DOMAIN body : Len(Outputs[body[i]]) <= U16
  BY <1>3 DEF IndicesFit
<1>5. ASSUME NEW i \in DOMAIN body, NEW o \in Created(body[i]), Amount[o] # 0, o \in utxo_set
      PROVE  FALSE
  <2>1. o[1] = body[i] /\ body[i] \in Confirmed
    BY <1>5, OutPointIs DEF ConfirmedInv, NothingFromOutside
  <2>2. ~ IsCoinbase(body[i])
    BY <1>1, <2>1
  <2>3. body[i] \in ToSet(body) \cap Confirmed
    BY <1>3, <2>1
  <2>4. QED BY <1>1, <1>5, <2>2, <2>3, SecondTimeWorthless
<1>6. ASSUME NEW i \in DOMAIN body, NEW j \in DOMAIN body, j # i,
             NEW o \in Created(body[i]), o \in Created(body[j]), Amount[o] # 0
      PROVE  FALSE
  <2>1. body[i] = body[j]
    BY <1>6, OutPointIs
  <2>2. ~ IsCoinbase(body[i])
    BY <1>1, <1>6, <2>1
  <2>3. Spent(body[i]) \cap Spent(body[j]) = {} /\ Pays(body[i])
    BY <1>3, <1>6, <2>2, TakenBody DEF ConfirmedInv
  <2>4. \A p \in Spent(body[i]) : Amount[p] = 0
    BY <2>1, <2>3
  <2>5. QED BY <1>3, <1>6, <2>3, <2>4, PaysNothing
<1>7. QED BY <1>4, <1>5, <1>6 DEF InsertsAnew

(* A block adds to the issued coins what it issues itself.                  *)
LEMMA AddBlockIssues ==
    ASSUME TypeInv, SumsFit, CoinbaseFirst, NEW body \in Seq(Tx), AddBlock(body),
           \A i \in DOMAIN chain : Issued(chain[i]) \in Int, Issued(body) \in Int
    PROVE  IssuedSoFar' = IssuedSoFar + Issued(body) /\ IssuedSoFar \in Int
<1> DEFINE f == [ i \in DOMAIN chain |-> Issued(chain[i]) ]
           g == [ i \in DOMAIN chain' |-> Issued(chain'[i]) ]
           D == DOMAIN chain
           E == DOMAIN chain'
           n == Len(chain) + 1
<1>1. /\ E = D \cup {n} /\ D = 1 .. Len(chain) /\ Len(chain) \in Nat
      /\ (\A i \in D : chain'[i] = chain[i]) /\ chain'[n] = body
  BY AddBlockCoinbases
<1>2. IsFiniteSet(D) /\ IsFiniteSet(E) /\ n \in E /\ E \ {n} = D
  <2>1. IsFiniteSet(D)
    <3>1. IsFiniteSet(1 .. Len(chain))
      BY <1>1, FS_Interval
    <3>2. QED BY <1>1, <3>1
  <2>2. n \notin D
    BY <1>1
  <2> HIDE DEF D, E, n
  <2>3. QED BY <1>1, <2>1, <2>2, FS_AddElement
<1>3. /\ \A i \in D : f[i] \in Int /\ g[i] = f[i] /\ g[i] \in Int
      /\ g[n] = Issued(body) /\ \A i \in E : g[i] \in Int
  <2>1. \A i \in D : i \in E /\ f[i] \in Int /\ g[i] = f[i]
    BY <1>1
  <2>2. g[n] = Issued(body)
    BY <1>1
  <2>3. \A i \in E : g[i] \in Int
    BY <1>1, <2>1, <2>2
  <2>4. QED BY <2>1, <2>2, <2>3
<1>4. IssuedSoFar = SumFunctionOnSet(f, D) /\ IssuedSoFar' = SumFunctionOnSet(g, E)
  BY DEF IssuedSoFar, SumFunction
<1> HIDE DEF f, g, D, E, n
<1>5. SumFunctionOnSet(g, E) = g[n] + SumFunctionOnSet(g, D)
  BY <1>2, <1>3, SumTakes
<1>6. SumFunctionOnSet(g, D) = SumFunctionOnSet(f, D)
  BY <1>2, <1>3, SameSum
<1>7. SumFunctionOnSet(f, D) \in Int
  BY <1>2, <1>3, SumTakes
<1>8. QED BY <1>3, <1>4, <1>5, <1>6, <1>7

(* A transaction of known outputs issues a number of coins.                 *)
LEMMA IssuedType ==
    ASSUME NEW body \in Seq(Tx), body # << >>,
           \A i \in 2 .. Len(body) : Fee(body[i]) \in Nat
    PROVE  Issued(body) \in Int /\ Fees(body) \in Nat /\ CalculateFees(body) = Fees(body) % U64
<1> DEFINE I == 2 .. Len(body)
           fee == [ i \in I |-> Fee(body[i]) ]
<1>1. body[1] \in Tx /\ Len(body) \in Nat
  OBVIOUS
<1>2. OutputSum(body[1]) \in Nat /\ U64 \in Nat \ {0}
  BY <1>1, CreatedAmount, LedgerAssumption
<1>3. Fees(body) = SumFunctionOnSet(fee, I)
  BY DEF Fees, SumFunction
<1>4. SumFunctionOnSet(fee, I) \in Nat
  <2>1. IsFiniteSet(I) /\ \A i \in I : fee[i] \in Nat
    BY <1>1, FS_Interval
  <2> HIDE DEF fee, I
  <2>2. QED BY <2>1, SumOfNaturals
<1>5. CalculateFees(body) = Fees(body) % U64
  BY DEF CalculateFees, Fees
<1> HIDE DEF fee, I
<1>6. \A x \in Nat, y \in Nat \ {0} : x % y \in Int
  OBVIOUS
<1>7. TotalOutput(body[1]) \in Int /\ CalculateFees(body) \in Int
  BY <1>2, <1>3, <1>4, <1>5, <1>6 DEF TotalOutput
<1>8. QED BY <1>3, <1>4, <1>5, <1>7 DEF Issued

LEMMA AddBlockConservation ==
    ASSUME SumsFit, ConfirmedInv, ConfirmedInv', Conservation, NEW body \in Seq(Tx), AddBlock(body)
    PROVE  Conservation'
<1> DEFINE u == TotalAmount(utxo_set)
           a == TotalAmount(ApplyBlockUtxos(utxo_set, body))
           o == OutputSum(body[1])
           fees == Fees(body)
           made == Issued(body)
           issued == IssuedSoFar
<1>1. /\ TypeInv /\ TypeOK /\ WorthInv /\ CoinbaseFirst /\ AllPay
      /\ utxo_set \in SUBSET OutPoint /\ IsFiniteSet(utxo_set)
      /\ u <= RewardsOf(Len(chain))
      /\ ValidateBody(body, utxo_set, height + 1) /\ utxo_set' = ApplyBlockUtxos(utxo_set, body)
  BY DEF ConfirmedInv, WorthInv, Earned, AddBlock, TypeInv
<1>2. TakesFrom(utxo_set, body)
  BY <1>1, ValidTakesFrom DEF SumsFit
<1>3. /\ a \in Nat /\ u \in Nat /\ fees \in Nat /\ o \in Nat
      /\ a + fees <= u + o
      /\ InsertsAnew(utxo_set, body) /\ (\A i \in 2 .. Len(body) : InputSum(body[i]) < U64) =>
            a + fees = u + o
  BY <1>1, <1>2, BlockMoves
<1>4. U64 \in Nat \ {0} /\ \A x \in Nat : x % U64 < U64 /\ (x < U64 => x % U64 = x)
  <2>1. U64 \in Nat \ {0}
    BY LedgerAssumption
  <2>2. \A x \in Nat, y \in Nat \ {0} : x % y < y /\ (x < y => x % y = x)
    OBVIOUS
  <2>3. QED BY <2>1, <2>2
<1>5. \A i \in 2 .. Len(body) : Pays(body[i]) /\ InputSum(body[i]) < U64 /\ Fee(body[i]) \in Nat
  <2> SUFFICES ASSUME NEW i \in 2 .. Len(body)
               PROVE  Pays(body[i]) /\ InputSum(body[i]) < U64 /\ Fee(body[i]) \in Nat
    OBVIOUS
  <2>1. body[i] \in ToSet(body) /\ ~ IsCoinbase(body[i])
    BY <1>2 DEF ToSet, TakesFrom
  <2>2. Pays(body[i])
    BY <1>1, <2>1, TakenBody
  <2>3. InputSum(body[i]) \in Nat /\ InputSum(body[i]) = InputSum(body[i]) % U64 /\ Fee(body[i]) \in Nat
    BY <2>2 DEF Pays, TotalInput
  <2> DEFINE x == InputSum(body[i])
  <2>4. x \in Nat /\ x = x % U64
    BY <2>3
  <2> HIDE DEF x
  <2>5. x < U64
    BY <1>4, <2>4
  <2>6. QED BY <2>2, <2>3, <2>5 DEF x
<1>6. fees < U64
  <2>1. /\ IsFiniteSet(TakenBy(body)) /\ TakenBy(body) \subseteq utxo_set
        /\ SumFunctionOnSet(Amount, TakenBy(body)) = SumIn(body)
        /\ SumIn(body) \in Nat /\ SumOut(body) \in Nat
        /\ SumOut(body) + fees <= SumIn(body)
    BY <1>1, <1>2, BodyTakes
  <2>2. SumIn(body) <= u
    <3>1. \A p \in utxo_set : Amount[p] \in Nat
      BY <1>1, AmountType
    <3>2. SumFunctionOnSet(Amount, TakenBy(body)) <= SumFunctionOnSet(Amount, utxo_set)
      BY <1>1, <2>1, <3>1, SumOfNaturals
    <3>3. QED BY <1>1, <2>1, <3>2, TotalAmountIs
  <2>3. RewardsOf(Len(chain)) \in Nat /\ RewardsOf(Len(chain)) < U64
    <3>1. Len(chain) \in Nat /\ height = Len(chain) - 1 /\ height <= MaxHeight /\ MaxHeight \in Nat
      BY <1>1, NodeAssumption DEF WorthInv, TypeOK, height
    <3>2. Len(chain) \in 0 .. MaxHeight + 1
      BY <3>1
    <3>3. QED BY <3>1, <3>2, RewardsFit, RewardsStep
  <2> HIDE DEF u, fees
  <2>4. QED BY <1>1, <1>3, <1>4, <2>1, <2>2, <2>3
<1>7. body # << >> /\ body[1] \in Tx /\ o < U64
  <2>1. body # << >>
    BY <1>1 DEF ValidateBody
  <2>2. QED BY <2>1 DEF SumsFit
<1>8. made = o - fees /\ made \in Int
  <2>1. made \in Int /\ CalculateFees(body) = fees % U64
    BY <1>5, <1>7, IssuedType
  <2>2. TotalOutput(body[1]) = o
    BY <1>3, <1>4, <1>7 DEF TotalOutput
  <2>3. fees % U64 = fees
    BY <1>3, <1>4, <1>6
  <2>4. QED BY <2>1, <2>2, <2>3 DEF Issued
<1>9. IssuedSoFar' = issued + made /\ issued \in Int
  <2>1. \A i \in DOMAIN chain : Issued(chain[i]) \in Int
    <3> SUFFICES ASSUME NEW i \in DOMAIN chain PROVE Issued(chain[i]) \in Int
      OBVIOUS
    <3>1. chain[i] \in Seq(Tx) /\ chain[i] # << >>
      BY <1>1 DEF TypeOK, CoinbaseFirst
    <3>2. ASSUME NEW k \in 2 .. Len(chain[i]) PROVE Fee(chain[i][k]) \in Nat
      <4>1. chain[i][k] \in Confirmed
        BY <3>1 DEF Confirmed, ToSet
      <4>2. ~ IsCoinbase(chain[i][k])
        BY <1>1 DEF CoinbaseFirst
      <4>3. QED BY <1>1, <4>1, <4>2 DEF AllPay, Pays
    <3>3. QED BY <3>1, <3>2, IssuedType
  <2>2. QED BY <1>1, <1>8, <2>1, AddBlockIssues
<1>10. u <= issued /\ (CoinbasesDiffer(Len(chain)) /\ IndicesFit => u = issued)
  BY ConservationIs
<1>11. ASSUME CoinbasesDiffer(Len(chain))', IndicesFit'
       PROVE  u = issued /\ a + fees = u + o
  <2>1. InsertsAnew(utxo_set, body)
    BY <1>11, AddBlockInsertsAnew
  <2>2. CoinbasesDiffer(Len(chain))
    BY <1>1, <1>11, AddBlockCoinbases
  <2>3. Confirmed \subseteq Confirmed'
    BY <1>1, AddBlockConfirms
  <2>4. IndicesFit
    BY <1>11, <2>3 DEF IndicesFit
  <2>5. QED BY <1>3, <1>5, <1>10, <2>1, <2>2, <2>4
<1>12. TotalAmount(utxo_set)' = a
  BY <1>1
<1> HIDE DEF u, a, o, fees, made, issued
<1>13. a <= issued + made
  BY <1>3, <1>8, <1>9, <1>10
<1>14. ASSUME CoinbasesDiffer(Len(chain))', IndicesFit' PROVE a = issued + made
  BY <1>3, <1>8, <1>9, <1>11, <1>14
<1>15. /\ (TotalAmount(utxo_set) <= IssuedSoFar)'
       /\ (CoinbasesDiffer(Len(chain)) /\ IndicesFit => TotalAmount(utxo_set) = IssuedSoFar)'
  BY <1>9, <1>12, <1>13, <1>14
<1>16. QED BY <1>15 DEF Conservation, IssuedSoFar, IndicesFit

LEMMA InitConservation == ASSUME SumsFit PROVE Init => Conservation
<1> SUFFICES ASSUME Init PROVE Conservation
  OBVIOUS
<1> DEFINE t == GenesisBody[1]
           f == [ i \in DOMAIN chain |-> Issued(chain[i]) ]
<1>1. /\ GenesisBody \in Seq(Tx) /\ Len(GenesisBody) = 1 /\ t \in Tx
      /\ chain = << GenesisBody >> /\ DOMAIN GenesisBody = {1} /\ t \in ToSet(GenesisBody)
  <2>1. GenesisBody \in Seq(Tx) /\ Len(GenesisBody) = 1
    BY NodeAssumption
  <2>2. DOMAIN GenesisBody = {1} /\ t \in Tx
    BY <2>1
  <2>3. QED BY <2>1, <2>2 DEF Init, ToSet
<1>2. utxo_set = Created(t)
  <2>1. Spent(t) = {}
    BY <1>1, NodeAssumption DEF Spent
  <2>2. QED BY <1>1, <2>1 DEF Init, ApplyBlockUtxos
<1>3. /\ IsFiniteSet(Created(t)) /\ Created(t) \in SUBSET OutPoint /\ OutputSum(t) \in Nat
      /\ TotalAmount(Created(t)) \in Nat
      /\ TotalAmount(Created(t)) <= OutputSum(t)
      /\ Len(Outputs[t]) <= U16 => TotalAmount(Created(t)) = OutputSum(t)
  BY <1>1, CreatedAmount, TotalAmountIs
<1>4. TotalOutput(t) = OutputSum(t)
  <2>1. \A x \in Nat : x < U64 => x % U64 = x
    BY LedgerAssumption
  <2>2. QED BY <1>1, <1>3, <2>1 DEF SumsFit, TotalOutput
<1>5. CalculateFees(GenesisBody) = 0
  <2>1. DOMAIN [ i \in 2 .. Len(GenesisBody) |-> Fee(GenesisBody[i]) ] = {}
    BY <1>1
  <2>2. SumFunction([ i \in 2 .. Len(GenesisBody) |-> Fee(GenesisBody[i]) ]) = 0
    BY <2>1, SumOfNone DEF SumFunction
  <2>3. 0 % U64 = 0
    BY LedgerAssumption
  <2>4. QED BY <2>2, <2>3 DEF CalculateFees
<1>6. Issued(GenesisBody) = OutputSum(t)
  BY <1>3, <1>4, <1>5 DEF Issued
<1>7. IssuedSoFar = OutputSum(t)
  <2>1. DOMAIN chain = {1} /\ f[1] = OutputSum(t) /\ \A i \in {1} : f[i] \in Int
    BY <1>1, <1>3, <1>6
  <2>2. IssuedSoFar = SumFunctionOnSet(f, {1})
    BY <2>1 DEF IssuedSoFar, SumFunction
  <2> HIDE DEF f, t
  <2>3. SumFunctionOnSet(f, {1}) = f[1] + SumFunctionOnSet(f, {1} \ {1})
    BY <2>1, FS_Singleton, SumTakes
  <2>4. SumFunctionOnSet(f, {1} \ {1}) = 0
    <3>1. {1} \ {1} = {}
      OBVIOUS
    <3>2. QED BY <3>1, SumOfNone
  <2>5. QED BY <1>3, <2>1, <2>2, <2>3, <2>4
<1>8. t \in Confirmed
  BY <1>1 DEF Confirmed
<1>9. QED BY <1>2, <1>3, <1>7, <1>8, ConservationIs DEF IndicesFit

(* The unspent outputs never hold more than the coinbases created less the  *)
(* fees no coinbase claimed, and just that unless a coinbase was repeated   *)
(* or a transaction has more outputs than indices: no block of the mining   *)
(* loop or of a peer makes or loses money otherwise.                        *)
THEOREM MoneyIsConserved ==
    ASSUME SumsFit PROVE Spec => []Conservation
<1> DEFINE Inv == FreshInv /\ ConfirmedInv /\ Conservation
<1>1. Init => Inv
  BY InitTypeInv, InitConfirmedInv, InitConservation DEF Init, FreshInv, PoolInv, PoolIsDisjoint
<1>2. Inv /\ [Next]_vars => Inv'
  <2> SUFFICES ASSUME FreshInv, ConfirmedInv, Conservation, [Next]_vars PROVE Inv'
    OBVIOUS
  <2>1. FreshInv' /\ ConfirmedInv'
    BY NextConfirmedInv
  <2>2. ASSUME UNCHANGED <<chain, utxo_set>> PROVE Conservation'
    BY <2>2 DEF Conservation, CoinbasesDiffer, Confirmed
  <2>3. Conservation'
    BY <2>1, <2>2, BlockSteps, AddBlockConservation
  <2>4. QED BY <2>1, <2>3
<1>3. Inv => Conservation
  OBVIOUS
<1> HIDE DEF Inv
<1>4. QED BY <1>1, <1>2, <1>3, PTL DEF Spec
=============================================================================
