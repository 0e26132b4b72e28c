-------------------------------- MODULE Node --------------------------------
(***************************************************************************)
(* One running node: chain, mempool and the actors that share them, namely *)
(* the mining loop of the terminal interface (cli/commands.rs) and the     *)
(* peer connections that deliver blocks and transactions                   *)
(* (network/sync_manager.rs).                                              *)
(*                                                                         *)
(* Each action is one critical section: the mining loop holds chain.write  *)
(* from the template to the clean-up of the pool, process_new_tx holds     *)
(* chain.read while it changes the pool, process_new_block holds           *)
(* chain.write.  The chain itself is the one that Chain shows add_block to *)
(* implement without faults, a sequence of bodies and the UTXO set they    *)
(* leave.                                                                  *)
(***************************************************************************)
EXTENDS Ledger, SequencesExt

CONSTANTS
    GenesisBody,   \* the body of the genesis block
    OwnCoinbase,   \* height -> txid of new_coinbase(reward, own wallet, height)
    PeerBodies,    \* height -> the bodies peers may offer for a block there
    MaxHeight      \* bound: no block is added above this height

\* The last conjunct: the schedule never pays out as much as a u64 holds.  In the
\* code it is less than 2 * 210_000 * 5000.
ASSUME NodeAssumption ==
    /\ MaxHeight \in Nat
    /\ GenesisBody \in Seq(Tx)
    /\ Len(GenesisBody) = 1 /\ TotalOutput(GenesisBody[1]) = InitialReward
    /\ OwnCoinbase \in [ 1 .. MaxHeight -> Tx ]
    /\ \A h \in 1 .. MaxHeight : TotalOutput(OwnCoinbase[h]) = BlockReward(h)
    /\ PeerBodies \in [ 1 .. MaxHeight + 1 -> SUBSET Seq(Tx) ]
    /\ \A t \in ToSet(GenesisBody) \cup { OwnCoinbase[h] : h \in 1 .. MaxHeight } : IsCoinbase(t)
    /\ SumFunction([ h \in 0 .. MaxHeight |-> BlockReward(h) ]) < U64

\* A premise of theorems about Node that the code does not enforce: the outputs of a
\* transaction add up to less than 2^64 (a sum of u64 wraps unseen).
SumsFit == \A t \in Tx : OutputSum(t) < U64

VARIABLES chain,      \* the bodies of the blocks, genesis first
          utxo_set,   \* Blockchain::utxo_set
          txs,        \* Mempool::txs, by txid
          mining      \* App::mining

vars == <<chain, utxo_set, txs, mining>>

height == Len(chain) - 1

Init ==
    /\ chain = << GenesisBody >>
    /\ utxo_set = ApplyBlockUtxos({}, GenesisBody)
    /\ txs = {}
    /\ mining = FALSE

-----------------------------------------------------------------------------
(* chain/mempool.rs *)

\* Mutant: the pool is not searched for the inputs of a new transaction.
PoolNotSearched == {}

PoolSpent == UNION { Spent(t) : t \in txs }

\* Mutant: the transaction is not validated against the UTXO set.
AcceptsUnvalidated(t) ==
    /\ ~ IsCoinbase(t)
    /\ t \notin txs
    /\ Spent(t) \cap PoolSpent = {}

\* Mempool::add: the pool, then the UTXO set.  It knows nothing of outputs that
\* other pool transactions create.
Accepts(t) ==
    /\ ~ IsCoinbase(t)
    /\ t \notin txs
    /\ Spent(t) \cap PoolSpent = {}
    /\ ValidateTransaction(t, utxo_set, {})

\* process_new_tx
ProcessNewTx(t) ==
    /\ Accepts(t)
    /\ txs' = txs \cup {t}
    /\ UNCHANGED <<chain, utxo_set, mining>>

-----------------------------------------------------------------------------
(* The chain *)

AddBlock(body) ==
    /\ height < MaxHeight
    /\ ValidateBody(body, utxo_set, height + 1)
    /\ chain' = Append(chain, body)
    /\ utxo_set' = ApplyBlockUtxos(utxo_set, body)

\* process_new_block: a block of a peer on our tip.  The pool is not touched.
ProcessNewBlock(body) ==
    /\ AddBlock(body)
    /\ UNCHANGED <<txs, mining>>

\* Mutant: the block template leaves the pool out.
EmptyTemplates == { << OwnCoinbase[height + 1] >> }

\* The template: a coinbase of the bare reward, then the whole pool in the order
\* a HashMap happens to give.
Templates ==
    { << OwnCoinbase[height + 1] >> \o order : order \in SetToSeqs(txs) }

ToggleMining ==
    /\ mining' = ~ mining
    /\ UNCHANGED <<chain, utxo_set, txs>>

\* Mutant: the pool drops the transactions of the template before add_block has
\* taken the block.
MineForgets ==
    /\ mining
    /\ height < MaxHeight
    /\ \E body \in Templates :
          /\ AddBlock(body) \/ UNCHANGED <<chain, utxo_set>>
          /\ txs' = txs \ ToSet(Tail(body))
    /\ UNCHANGED mining

\* One iteration of the mining loop that finds a nonce: on success the pool
\* drops what the block confirmed; an error of add_block is only logged.
Mine ==
    /\ mining
    /\ height < MaxHeight
    /\ \E body \in Templates :
          /\ AddBlock(body)
          /\ txs' = txs \ ToSet(Tail(body))
    /\ UNCHANGED mining

Next ==
    \/ \E t \in Tx : ProcessNewTx(t)
    \/ \E body \in PeerBodies[height + 1] : ProcessNewBlock(body)
    \/ ToggleMining
    \/ Mine

Spec == Init /\ [][Next]_vars

\* The loop of run_tui comes round every 250 ms and tries 100 000 nonces with a
\* fresh timestamp each time, so it does not fail to find one for ever.
FairSpec == Spec /\ WF_vars(Mine)

-----------------------------------------------------------------------------
(* Invariants *)

TypeOK ==
    /\ chain \in Seq(Seq(Tx))
    /\ utxo_set \subseteq OutPoint
    /\ txs \subseteq Tx
    /\ mining \in BOOLEAN

Confirmed == UNION { ToSet(chain[i]) : i \in DOMAIN chain }

SpentOnChain == UNION { Spent(t) : t \in Confirmed }

\* Two transactions of the pool never spend the same output, however blocks and
\* transactions interleave.
PoolIsDisjoint ==
    \A s, t \in txs : s # t => Spent(s) \cap Spent(t) = {}

\* A pool transaction stops being valid in one way only: a block consumed one of
\* its inputs.  No input is ever unknown to the chain.
StaleOnlyBySpend ==
    \A t \in txs :
        /\ Spent(t) \subseteq utxo_set \cup SpentOnChain
        /\ Spent(t) \subseteq utxo_set => ValidateTransaction(t, utxo_set, {})

\* While no pool transaction is stale the whole pool fits in one block, in
\* whatever order the HashMap gives it.
FreshPoolMines ==
    (height < MaxHeight /\ \A t \in txs : Spent(t) \subseteq utxo_set) =>
        \A body \in Templates : ValidateBody(body, utxo_set, height + 1)

\* The first n blocks have n coinbases.  validate_block does not look for a coinbase
\* that is on the chain already: a block may repeat one, and so make it anew.
CoinbasesDiffer(n) ==
    \A i, j \in 1 .. n : i # j => chain[i][1] # chain[j][1]

\* What a block adds to the coins there are: what its coinbase pays, less the fees
\* of the other transactions.
Issued(body) == TotalOutput(body[1]) - CalculateFees(body)

\* Money is conserved: the unspent outputs never hold more than the blocks issued,
\* and just as much as long as no output was inserted over another, which takes a
\* repeated coinbase or a transaction with more outputs than there are indices.
Conservation ==
    LET issued == SumFunction([ i \in DOMAIN chain |-> Issued(chain[i]) ])
    IN  /\ TotalAmount(utxo_set) <= issued
        /\ CoinbasesDiffer(Len(chain)) /\ (\A t \in Confirmed : Len(Outputs[t]) <= U16)
              => TotalAmount(utxo_set) = issued

\* A transaction that moves money is confirmed again in one case only, when an
\* earlier block had repeated a coinbase.  One without inputs is valid any number of
\* times, and so is what spends its worthless outputs.
ConfirmedOnce ==
    \A i, j \in DOMAIN chain : i < j =>
        \A t \in ToSet(chain[i]) \cap ToSet(chain[j]) :
            IsCoinbase(t) \/ TotalInput(t) = 0 \/ ~ CoinbasesDiffer(j - 1)

\* Only a mined block takes transactions out of the pool, and it takes them all
\* into the chain: none is lost on the way.
PoolLossless ==
    [][ \A t \in txs : t \notin txs' => t \in Confirmed' ]_vars

-----------------------------------------------------------------------------
(* Liveness *)

Stale == \E t \in txs : ~ Spent(t) \subseteq utxo_set

\* Every transaction of the pool is confirmed, unless mining is switched off, the
\* pool goes stale or the next block is a peer's: no mix of transactions in the
\* pool leaves one waiting while the node mines blocks of its own.
PoolIsMined ==
    \A t \in { u \in Tx : ~ IsCoinbase(u) } : \A h \in 0 .. MaxHeight - 1 :
        (t \in txs /\ height = h)
            ~> (\/ t \in Confirmed
                \/ ~ mining
                \/ Stale
                \/ height > h /\ chain[h + 2][1] # OwnCoinbase[h + 1])

-----------------------------------------------------------------------------
(* What the documentation says, and the code does not do *)

\* commands.rs:209: "mine one block per iteration if enabled": while mining is
\* on the chain grows.
MiningGrowsChain ==
    \A h \in 0 .. MaxHeight - 1 :
        (mining /\ height = h) ~> (~ mining \/ height > h)
=============================================================================
