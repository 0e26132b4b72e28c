------------------------------- MODULE Blocks -------------------------------
(***************************************************************************)
(* Blocks as values: types/block.rs, the genesis block and validate_block. *)
(* A block is named by its hash, which covers the header.  The tables hold *)
(* the header's fields and the body that came with it; whether the header  *)
(* fixes the body is for the merkle root to show (RootFixesBody).          *)
(***************************************************************************)
EXTENDS Ledger, Merkle, SequencesExt

CONSTANTS
    Block,     \* block hashes
    NoBlock,   \* no hash: the zero prev_hash of genesis, an absent key
    Genesis,   \* the block create_genesis_block builds
    Prev,      \* block -> prev_hash
    Body,      \* block -> sequence of txids
    PowOk,     \* block -> does the hash meet the header's own target?
    Root       \* block -> merkle_root of its header

ASSUME BlocksAssumption ==
    /\ NoBlock \notin Block
    /\ Genesis \in Block
    /\ Prev \in [Block -> Block \cup {NoBlock}]
    /\ Prev[Genesis] = NoBlock
    /\ Body \in [Block -> Seq(Tx)]
    /\ Len(Body[Genesis]) = 1 /\ TotalOutput(Body[Genesis][1]) = InitialReward

\* verify_merkle_root: the root over the txids of the body.
VerifyMerkleRoot(b) == Root[b] = MerkleRoot(Body[b])

ValidateBlock(b, utxos, h) ==
    /\ PowOk[b]
    /\ VerifyMerkleRoot(b)
    /\ ValidateBody(Body[b], utxos, h)

\* What apply_block_utxos takes out of the UTXO set for a block, and puts in.
OutPointsSpentBy(b) == UNION { Spent(Body[b][i]) : i \in DOMAIN Body[b] }
OutPointsCreatedBy(b) == UNION { Created(Body[b][i]) : i \in DOMAIN Body[b] }

\* The UTXO set after the blocks of a sequence, in order, from the empty set: an
\* outpoint is in it when some block leaves it there and every later block,
\* finding it there, leaves it too.
Replay(blocks) ==
    UNION { { o \in ApplyBlockUtxos({}, Body[blocks[i]]) :
                \A j \in i + 1 .. Len(blocks) : o \in ApplyBlockUtxos({o}, Body[blocks[j]]) } :
            i \in DOMAIN blocks }

\* The blocks from genesis to b along the prev_hash links.
Ancestry[b \in Block] ==
    IF Prev[b] \notin Block THEN <<b>> ELSE Append(Ancestry[Prev[b]], b)

\* The links form no cycle, so that every block has such a sequence: a header is
\* hashed with its prev_hash in it, which must be there first.
ASSUME AncestryAssumption ==
    /\ Ancestry \in [Block -> Seq(Block)]
    /\ \A b \in Block :
          Ancestry[b] = IF Prev[b] \notin Block THEN <<b>> ELSE Append(Ancestry[Prev[b]], b)

Depth(b) == Len(Ancestry[b]) - 1
=============================================================================
