------------------------------- MODULE Wallet -------------------------------
(***************************************************************************)
(* What a user does with a phrase and the chain: the wallet of             *)
(* wallet/wallet.rs, build_transaction of wallet/builder.rs, and the       *)
(* commands `wallet' and `send' of cli/commands.rs.                        *)
(*                                                                         *)
(* None of these writes anything: they are functions of the chain state.   *)
(* A text is what the user types as a phrase, its words and the white      *)
(* space between them.  validate_mnemonic looks at the words only, the key *)
(* is derived from the text as it stands.                                  *)
(***************************************************************************)
EXTENDS Chain, Mnemonic

CONSTANTS
    Text,       \* bound: the texts a user may type, [words, spacing]
    KeyOf,      \* text -> owner, the key derived from it; no two texts share one
    Recipient,  \* bound: what a user types as the address to pay, by its owner
    Addresses,  \* the recipients decode_address accepts
    NewTx,      \* the txid of the transaction that is built
    MaxSend     \* bound: amounts and fees a user asks for

ASSUME WalletAssumption ==
    /\ IsFiniteSet(Tx)   \* a txid is 32 bytes
    /\ NewTx \notin Tx \cup {ZeroTxId}
    /\ \A text \in Text : text.words \in Seq(Range(text.words))
    /\ MaxSend \in Nat /\ 2 * MaxSend < U64   \* an amount and a fee fit a u64

-----------------------------------------------------------------------------
(* Wallet *)

\* Wallet::create: a phrase from fresh entropy, joined by single spaces.
FreshText(entropy) == [ words |-> EntropyToMnemonic(entropy), spacing |-> "single" ]

\* Wallet::from_mnemonic, the owner it gives access to; none on an error.
FromMnemonic(text) == IF ValidateMnemonic(text.words) THEN { KeyOf[text] } ELSE {}

-----------------------------------------------------------------------------
(* Coins and the transaction builder *)

UtxosFor(owner) == { o \in utxo_set : OutputAt(o).owner = owner }

Balance(owner) == TotalAmount(UtxosFor(owner)) % U64

\* sort_by on the amounts, over a set that comes in any order.
LargestFirst(coins) ==
    { order \in SetToSeqs(coins) :
        \A i, j \in DOMAIN order :
            i < j => OutputAt(order[i]).amount >= OutputAt(order[j]).amount }

Worth(coins) == SumFunction([ i \in DOMAIN coins |-> OutputAt(coins[i]).amount ]) % U64

\* The coins taken from the front of the order: one is always taken, and no more
\* once they are worth what is needed.
IsSelection(coins, order, need) ==
    /\ IsPrefix(coins, order)
    /\ coins = <<>> => order = <<>>
    /\ \A n \in 1 .. Len(coins) - 1 : Worth(SubSeq(coins, 1, n)) < need
    /\ Worth(coins) >= need \/ coins = order

Selected(order, need) ==
    CHOOSE coins \in { SubSeq(order, 1, n) : n \in 0 .. Len(order) } :
        IsSelection(coins, order, need)

\* Mutant: the fee stays in the change.
PaymentKeepsFee(owner, to, amount, fee, coins) ==
    LET change == Worth(coins) - amount
    IN  [ inputs  |-> [ i \in DOMAIN coins |-> [ from |-> coins[i][1], index |-> coins[i][2],
                                                 owner |-> owner, signed |-> TRUE ] ],
          outputs |-> << [ amount |-> amount, owner |-> to ] >>
                      \o IF change > 0 THEN << [ amount |-> change, owner |-> owner ] >> ELSE <<>> ]

Payment(owner, to, amount, fee, coins) ==
    LET change == Worth(coins) - AddU64(amount, fee)
    IN  [ inputs  |-> [ i \in DOMAIN coins |-> [ from |-> coins[i][1], index |-> coins[i][2],
                                                 owner |-> owner, signed |-> TRUE ] ],
          outputs |-> << [ amount |-> amount, owner |-> to ] >>
                      \o IF change > 0 THEN << [ amount |-> change, owner |-> owner ] >> ELSE <<>> ]

\* build_transaction: what it may build, nothing on an error.
BuildTransaction(owner, coins, to, amount, fee) ==
    LET need == AddU64(amount, fee)
        enough == { order \in LargestFirst(coins) : Worth(Selected(order, need)) >= need }
    IN  IF to \in Addresses
        THEN { Payment(owner, to, amount, fee, Selected(order, need)) : order \in enough }
        ELSE {}

\* run_send
Send(text, to, amount, fee) ==
    UNION { BuildTransaction(owner, UtxosFor(owner), to, amount, fee) :
            owner \in FromMnemonic(text) }

-----------------------------------------------------------------------------
(* Properties *)

\* The rules of Ledger with the new transaction among the others.
Rules(tx) == INSTANCE Ledger WITH
    Tx      <- Tx \cup {NewTx},
    Inputs  <- [ t \in Tx \cup {NewTx} |-> IF t = NewTx THEN tx.inputs ELSE Inputs[t] ],
    Outputs <- [ t \in Tx \cup {NewTx} |-> IF t = NewTx THEN tx.outputs ELSE Outputs[t] ]

\* A node with this UTXO set takes the transaction, for the fee asked for.
Acceptable(tx, fee) ==
    /\ Rules(tx)!ValidateTransaction(NewTx, utxo_set, {})
    /\ Rules(tx)!Fee(NewTx) = fee

PaidTo(owner, tx) ==
    SumFunction([ i \in DOMAIN tx.outputs |->
                    IF tx.outputs[i].owner = owner THEN tx.outputs[i].amount ELSE 0 ])

\* No smaller choice of the sender's coins would have been enough.
Thrifty(owner, tx, need) ==
    \A coins \in SUBSET UtxosFor(owner) :
        need > 0 /\ TotalAmount(coins) >= need => Cardinality(coins) >= Len(tx.inputs)

Phrases == { FreshText(entropy).words : entropy \in Entropy }

\* `send' works for exactly those whose words a wallet generated from some
\* entropy, who pay a valid address and whose balance covers amount and fee, as
\* long as the sum of the two fits a u64.  What it builds is then accepted by a
\* node for exactly that fee, pays the recipient the amount and nobody but the
\* sender the rest, and spends no more coins than it has to.
SendIsValid ==
    pc = "idle" =>
        \A text \in Text, to \in Recipient, amount, fee \in 0 .. MaxSend :
            LET owner == KeyOf[text]
                built == Send(text, to, amount, fee)
            IN  /\ built # {} <=> /\ text.words \in Phrases
                                 /\ to \in Addresses
                                 /\ Balance(owner) >= amount + fee
                /\ \A tx \in built :
                      /\ Acceptable(tx, fee)
                      /\ to # owner => PaidTo(to, tx) = amount
                      /\ \A i \in DOMAIN tx.outputs : tx.outputs[i].owner \in { to, owner }
                      /\ Thrifty(owner, tx, amount + fee)
=============================================================================
