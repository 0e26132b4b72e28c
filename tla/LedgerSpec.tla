----------------------------- MODULE LedgerSpec -----------------------------
(***************************************************************************)
(* What a chain promises: a sequence of blocks that starts with genesis    *)
(* and only ever grows, each block valid against the outputs left unspent  *)
(* by all the blocks before it.  There is no disk, no UTXO index and no    *)
(* height counter here: all three are derived from the sequence.  The      *)
(* rules are parameters; Chain puts those of Blocks in their place.        *)
(***************************************************************************)
EXTENDS Naturals, Sequences

CONSTANTS
    Block,                   \* block hashes
    Genesis,                 \* the first block
    Prev,                    \* block -> the block it names as its parent
    Replay(_),               \* the outputs a sequence of blocks leaves unspent
    ValidateBlock(_, _, _),  \* is a block valid against such a set, at a height?
    OutPointsSpentBy(_),     \* the outputs a block consumes
    OutPointsCreatedBy(_)    \* the outputs a block creates

VARIABLE ledger

Init == ledger = <<>>

Start ==
    /\ ledger = <<>>
    /\ ledger' = <<Genesis>>

Extend(b) ==
    /\ ledger # <<>>
    /\ Prev[b] = ledger[Len(ledger)]
    /\ ValidateBlock(b, Replay(ledger), Len(ledger))
    /\ ledger' = Append(ledger, b)

Next == Start \/ \E b \in Block : Extend(b)

Spec == Init /\ [][Next]_ledger

-----------------------------------------------------------------------------
\* Two blocks of the chain consume the same output only if it was made anew in
\* between: by a block from the first of them on, before the second.  Only a
\* transaction that is confirmed twice makes its outputs twice.
SpentOncePerCreation ==
    \A i, j \in DOMAIN ledger :
        i < j => \A o \in OutPointsSpentBy(ledger[i]) \cap OutPointsSpentBy(ledger[j]) :
                    \E k \in i .. j - 1 : o \in OutPointsCreatedBy(ledger[k])
=============================================================================
