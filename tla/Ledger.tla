------------------------------- MODULE Ledger -------------------------------
(***************************************************************************)
(* Transactions, outpoints and the validation rules of micro_blockchain:   *)
(* types/transaction.rs, consensus/validation.rs, the reward schedule of   *)
(* consensus/pow.rs and the UTXO update of chain/blockchain.rs.            *)
(*                                                                         *)
(* A transaction is named by its txid.  The txid is a hash of the contents *)
(* (transaction.rs:34), so a txid fixes its inputs and outputs for good    *)
(* and the two tables below are constants.  For the same reason a UTXO set *)
(* is a set of outpoints: what an outpoint is worth never changes, but for *)
(* one moment, told at OutputAt.                                           *)
(***************************************************************************)
EXTENDS Integers, Sequences, Functions

CONSTANTS
    Tx,              \* txids
    ZeroTxId,        \* [0u8; 32], the prev_tx_hash of a coinbase input
    Inputs,          \* txid -> sequence of [from, index, owner, signed]
    Outputs,         \* txid -> sequence of [amount, owner]
    InitialReward,   \* 5000 in the code
    HalvingInterval, \* 210_000 in the code
    U64,             \* the number of values of a u64
    U16              \* the number of values of a u16, 65_536 in the code

ASSUME LedgerAssumption ==
    /\ ZeroTxId \notin Tx
    /\ \A t \in Tx : /\ Inputs[t] \in Seq(Range(Inputs[t]))
                    /\ Outputs[t] \in Seq(Range(Outputs[t]))
    /\ U64 \in Nat \ {0} /\ U16 \in Nat \ {0}
    /\ \A t \in Tx : \A i \in DOMAIN Outputs[t] : Outputs[t][i].amount \in 0 .. U64 - 1
    /\ HalvingInterval \in Nat \ {0}
    /\ InitialReward \in Nat

CoinbaseIndex == U16 - 1   \* 0xFFFF

OutPointOf(input) == <<input.from, input.index>>

IsCoinbase(t) ==
    /\ Len(Inputs[t]) = 1
    /\ OutPointOf(Inputs[t][1]) = <<ZeroTxId, CoinbaseIndex>>

\* The index an output goes by: `i as u16' of its position, which is 0-based in the
\* code, 1-based in TLA+.
OutputIndex(i) == (i - 1) % U16

Created(t) == { <<t, OutputIndex(i)>> : i \in DOMAIN Outputs[t] }

\* The positions whose outputs stay: a later output of the same index overwrites.
Lasting(t) == { i \in DOMAIN Outputs[t] : i + U16 > Len(Outputs[t]) }

\* The output an outpoint stands for.  (Between two writes of one index to the tree
\* "utxos" the disk holds the earlier output, and a crash may leave it there.)
OutputAt(o) ==
    LET t == o[1]
    IN  Outputs[t][CHOOSE i \in Lasting(t) : OutputIndex(i) = o[2]]

OutPoint == UNION { Created(t) : t \in Tx }

\* A coinbase consumes nothing: apply_block_utxos skips its input.
Spent(t) ==
    IF IsCoinbase(t) THEN {} ELSE { OutPointOf(Inputs[t][i]) : i \in DOMAIN Inputs[t] }

-----------------------------------------------------------------------------
(* u64 sums, which wrap in a release build: to wrap at every addition is to  *)
(* wrap the whole sum once                                                  *)

AddU64(a, b) == (a + b) % U64

OutputSum(t) == SumFunction([ i \in DOMAIN Outputs[t] |-> Outputs[t][i].amount ])

InputSum(t) ==
    SumFunction([ i \in DOMAIN Inputs[t] |-> OutputAt(OutPointOf(Inputs[t][i])).amount ])

TotalOutput(t) == OutputSum(t) % U64

TotalInput(t) == InputSum(t) % U64

\* INITIAL_REWARD >> n
Halved[n \in 0 .. 63] == IF n = 0 THEN InitialReward ELSE Halved[n - 1] \div 2

BlockReward(h) ==
    LET halvings == h \div HalvingInterval
    IN  IF halvings >= 64 THEN 0 ELSE Halved[halvings]

\* What the outpoints of a set are worth together.
TotalAmount(utxos) == SumFunctionOnSet([ o \in utxos |-> OutputAt(o).amount ], utxos)

-----------------------------------------------------------------------------
(* consensus/validation.rs *)

\* Checks of one input against the UTXO set, and of the key that spends it.
InputOk(in, utxos) ==
    /\ OutPointOf(in) \in utxos
    /\ in.owner = OutputAt(OutPointOf(in)).owner
    /\ in.signed

\* validate_transaction: `spent' holds the outpoints already consumed by
\* earlier transactions of the block (none for the mempool).
ValidateTransaction(t, utxos, spent) ==
    LET refs == [ i \in DOMAIN Inputs[t] |-> OutPointOf(Inputs[t][i]) ]
    IN  /\ \A i \in DOMAIN refs : refs[i] \notin spent
        /\ \A i, j \in DOMAIN refs : refs[i] = refs[j] => i = j
        /\ \A i \in DOMAIN refs : InputOk(Inputs[t][i], utxos)
        /\ TotalInput(t) >= TotalOutput(t)

\* Mutant: the transaction itself counts among the earlier ones.
SpentUpTo(body, i) == UNION { Spent(body[j]) : j \in 2 .. i }

\* The outpoints consumed by the transactions of a body before position i.
SpentBefore(body, i) == UNION { Spent(body[j]) : j \in 2 .. i - 1 }

Fee(t) == IF TotalInput(t) >= TotalOutput(t) THEN TotalInput(t) - TotalOutput(t) ELSE 0

CalculateFees(body) == SumFunction([ i \in 2 .. Len(body) |-> Fee(body[i]) ]) % U64

\* Mutant: the coinbase may claim any amount.
ValidateBodyUncapped(body, utxos, h) ==
    /\ body # <<>>
    /\ IsCoinbase(body[1])
    /\ \A i \in 2 .. Len(body) :
          ~ IsCoinbase(body[i]) /\ ValidateTransaction(body[i], utxos, SpentBefore(body, i))

\* validate_block, less the two header checks (proof of work, merkle root).
\* The UTXO set is the one before the block: a transaction cannot spend an
\* output of an earlier transaction of its own block.
ValidateBody(body, utxos, h) ==
    /\ body # <<>>
    /\ IsCoinbase(body[1])
    /\ \A i \in 2 .. Len(body) :
          /\ ~ IsCoinbase(body[i])
          /\ Spent(body[i]) \subseteq utxos
    /\ TotalOutput(body[1]) <= AddU64(BlockReward(h), CalculateFees(body))
    /\ \A i \in 2 .. Len(body) :
          ValidateTransaction(body[i], utxos, SpentBefore(body, i))

-----------------------------------------------------------------------------
\* Mutant: spent outputs stay in the set.
KeepSpentUtxos(utxos, body) == utxos \cup UNION { Created(body[i]) : i \in DOMAIN body }

\* Mutant: what a transaction refers to is inserted, the coinbase's too.
InsertReferences(utxos, body) ==
    utxos \cup UNION { { OutPointOf(Inputs[body[i]][k]) : k \in DOMAIN Inputs[body[i]] } :
                       i \in DOMAIN body }

(* apply_block_utxos: the transactions in order, each removing what it      *)
(* spends and then inserting what it creates.  An outpoint is in the result *)
(* when no later transaction of the block removes it for good.              *)
ApplyBlockUtxos(utxos, body) ==
    { o \in utxos \cup UNION { Created(body[i]) : i \in DOMAIN body } :
        \A j \in DOMAIN body :
            o \in Spent(body[j]) => \E i \in j .. Len(body) : o \in Created(body[i]) }
=============================================================================
