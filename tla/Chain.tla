------------------------------- MODULE Chain --------------------------------
(***************************************************************************)
(* chain/blockchain.rs on top of storage/db.rs: the chain state in memory, *)
(* the sled database under it, and the one process that owns both.         *)
(*                                                                         *)
(* add_block and init_genesis run under one lock, so no other code sees    *)
(* the memory half way.  The disk is another matter: each write is its own *)
(* sled operation, sled writes its log to the disk in the background and   *)
(* nothing calls Database::flush, so a crash may leave the state of any    *)
(* moment since the last time the log was known to be complete.            *)
(*                                                                         *)
(*   disk         what the running process reads back from sled            *)
(*   recoverable  the states of the disk that a crash may leave            *)
(*   pc           "down", "idle" or the next persistence step              *)
(*   adding, newHeight, pending   locals of the call in progress           *)
(*   utxo_set, tip, height, tracked   the fields of Blockchain; tracked    *)
(*                stands for both timestamps and difficulty_scores, which  *)
(*                are always pushed together, once per block               *)
(***************************************************************************)
EXTENDS Blocks

CONSTANTS
    MaxHeight,    \* bound: no block is added above this height
    MaxCrashes,   \* bound: crashes in a behaviour
    MaxFailures   \* bound: storage errors in a behaviour

ASSUME ChainAssumption ==
    /\ MaxHeight \in Nat
    /\ MaxCrashes \in Nat
    /\ MaxFailures \in Nat

VARIABLES disk, recoverable, pc, adding, newHeight, pending,
          utxo_set, tip, height, tracked, crashes, failures

process == <<pc, adding, newHeight, pending>>
memory == <<utxo_set, tip, height, tracked>>
faults == <<crashes, failures>>
vars == <<disk, recoverable, process, memory, faults>>

Heights == 0 .. MaxHeight
MaybeBlock == Block \cup {NoBlock}
NoHeight == -1

\* Trees "blocks" and "utxos"; tree "meta" holds the tip, the height and one
\* "h:<height>" key per height.
Disk == [ blocks : SUBSET Block,
          index  : [Heights -> MaybeBlock],
          tip    : MaybeBlock,
          height : Heights \cup {NoHeight},
          utxos  : SUBSET OutPoint ]

EmptyDisk == [ blocks |-> {}, index |-> [h \in Heights |-> NoBlock],
               tip |-> NoBlock, height |-> NoHeight, utxos |-> {} ]

Init ==
    /\ disk = EmptyDisk
    /\ recoverable = {EmptyDisk}
    /\ pc = "down"
    /\ adding = NoBlock
    /\ newHeight = 0
    /\ pending = {}
    /\ utxo_set = {}
    /\ tip = NoBlock
    /\ height = 0
    /\ tracked = <<>>
    /\ crashes = 0
    /\ failures = 0

-----------------------------------------------------------------------------
(* Opening the database *)

\* Every read of Blockchain::new succeeds.
Loadable(d) ==
    /\ d.height # NoHeight
    /\ \A h \in 0 .. d.height : d.index[h] \in d.blocks

\* Mutant: the range of heights excludes the last one (0..height).
LoadBelowHeight ==
    /\ pc = "down"
    /\ disk.tip # NoBlock
    /\ Loadable(disk)
    /\ tip' = disk.tip
    /\ height' = disk.height
    /\ utxo_set' = disk.utxos
    /\ tracked' = [ i \in 1 .. disk.height |-> disk.index[i - 1] ]
    /\ pc' = "idle"
    /\ UNCHANGED <<disk, recoverable, adding, newHeight, pending, faults>>

Load ==
    /\ pc = "down"
    /\ disk.tip # NoBlock
    /\ Loadable(disk)
    /\ tip' = disk.tip
    /\ height' = disk.height
    /\ utxo_set' = disk.utxos
    /\ tracked' = [ i \in 1 .. disk.height + 1 |-> disk.index[i - 1] ]
    /\ pc' = "idle"
    /\ UNCHANGED <<disk, recoverable, adding, newHeight, pending, faults>>

\* Blockchain::new returns the error of a read and the program exits.
LoadFails ==
    /\ pc = "down"
    /\ disk.tip # NoBlock
    /\ ~ Loadable(disk)
    /\ UNCHANGED vars

-----------------------------------------------------------------------------
(* Changing the chain: memory first, then the disk one write at a time *)

\* Mutant: spent outputs are never removed from the tree.
NoRemovals(body) == {}

\* Mutant: only the first output of a transaction is stored, not its change.
FirstOutputs(body) == { <<i, "put", 1>> : i \in DOMAIN body }

\* The operations persist_utxo_changes makes on the tree "utxos", each named by
\* the position of its transaction, its kind and the input or output it is for.
Removals(body) ==
    UNION { { <<i, "remove", k>> : k \in DOMAIN Inputs[body[i]] } :
            i \in { j \in DOMAIN body : ~ IsCoinbase(body[j]) } }

Insertions(body) ==
    UNION { { <<i, "put", k>> : k \in DOMAIN Outputs[body[i]] } : i \in DOMAIN body }

UtxoOps(body) == Removals(body) \cup Insertions(body)

Before(p, q) ==
    \/ p[1] < q[1]
    \/ p[1] = q[1] /\ p[2] = "remove" /\ q[2] = "put"
    \/ p[1] = q[1] /\ p[2] = q[2] /\ p[3] < q[3]

IsNext(op) == op \in pending /\ \A other \in pending \ {op} : Before(op, other)

RemovedBy(op) == OutPointOf(Inputs[Body[adding][op[1]]][op[3]])

\* Mutant: the output index counts from one.
PutByFromOne(op) == <<Body[adding][op[1]], OutputIndex(op[3] + 1)>>

PutBy(op) == <<Body[adding][op[1]], OutputIndex(op[3])>>

\* What add_block and init_genesis do before the first write: the UTXO set and
\* the LWMA data take the block in, tip and height do not.
TakeIn(b, h) ==
    /\ utxo_set' = ApplyBlockUtxos(utxo_set, Body[b])
    /\ tracked' = Append(tracked, b)
    /\ adding' = b
    /\ newHeight' = h
    /\ pending' = UtxoOps(Body[b])
    /\ pc' = "put_block"
    /\ UNCHANGED <<disk, recoverable, tip, height>>

\* No tip on disk: Blockchain::new starts init_genesis on an empty UTXO set.
InitGenesis ==
    /\ pc = "down"
    /\ disk.tip = NoBlock
    /\ TakeIn(Genesis, 0)
    /\ UNCHANGED faults

\* Mutant: the parent of the block is not compared with the tip.
AddBlockAnyParent(b) ==
    /\ pc = "idle"
    /\ b \notin disk.blocks
    /\ height < MaxHeight
    /\ ValidateBlock(b, utxo_set, height + 1)
    /\ TakeIn(b, height + 1)
    /\ UNCHANGED faults

\* Mutant: the reward is the one of the current height, not of the next.
AddBlockOldReward(b) ==
    /\ pc = "idle"
    /\ b \notin disk.blocks
    /\ Prev[b] = tip
    /\ height < MaxHeight
    /\ ValidateBlock(b, utxo_set, height)
    /\ TakeIn(b, height + 1)
    /\ UNCHANGED faults

AddBlock(b) ==
    /\ pc = "idle"
    /\ b \notin disk.blocks
    /\ Prev[b] = tip
    /\ height < MaxHeight
    /\ ValidateBlock(b, utxo_set, height + 1)
    /\ TakeIn(b, height + 1)
    /\ UNCHANGED faults

\* One insert or remove of sled, not flushed: the moment after it joins those a
\* crash may go back to.
Write(d) ==
    /\ disk' = d
    /\ recoverable' = recoverable \cup {d}
    /\ UNCHANGED <<adding, newHeight, memory, faults>>

PutBlock ==
    /\ pc = "put_block"
    /\ pc' = "set_block_at_height"
    /\ Write([disk EXCEPT !.blocks = @ \cup {adding}])
    /\ UNCHANGED pending

\* Mutant: the block goes under the height of its parent.
IndexUnderOldHeight ==
    /\ pc = "set_block_at_height"
    /\ pc' = "set_tip"
    /\ Write([disk EXCEPT !.index[height] = adding])
    /\ UNCHANGED pending

SetBlockAtHeight ==
    /\ pc = "set_block_at_height"
    /\ pc' = "set_tip"
    /\ Write([disk EXCEPT !.index[newHeight] = adding])
    /\ UNCHANGED pending

SetTip ==
    /\ pc = "set_tip"
    /\ pc' = "set_height"
    /\ Write([disk EXCEPT !.tip = adding])
    /\ UNCHANGED pending

\* Mutant: the height stored is the one before the block.
StoreOldHeight ==
    /\ pc = "set_height"
    /\ pc' = "persist_utxos"
    /\ Write([disk EXCEPT !.height = height])
    /\ UNCHANGED pending

SetHeight ==
    /\ pc = "set_height"
    /\ pc' = "persist_utxos"
    /\ Write([disk EXCEPT !.height = newHeight])
    /\ UNCHANGED pending

RemoveUtxo ==
    /\ pc = "persist_utxos"
    /\ \E op \in pending :
          /\ IsNext(op)
          /\ op[2] = "remove"
          /\ pending' = pending \ {op}
          /\ Write([disk EXCEPT !.utxos = @ \ {RemovedBy(op)}])
    /\ UNCHANGED pc

PutUtxo ==
    /\ pc = "persist_utxos"
    /\ \E op \in pending :
          /\ IsNext(op)
          /\ op[2] = "put"
          /\ pending' = pending \ {op}
          /\ Write([disk EXCEPT !.utxos = @ \cup {PutBy(op)}])
    /\ UNCHANGED pc

\* Only now do tip and height name the new block.
Finish ==
    /\ pc = "persist_utxos"
    /\ pending = {}
    /\ tip' = adding
    /\ height' = newHeight
    /\ pc' = "idle"
    /\ adding' = NoBlock
    /\ newHeight' = 0
    /\ UNCHANGED <<disk, recoverable, pending, utxo_set, tracked, faults>>

-----------------------------------------------------------------------------
(* Failures and restarts *)

Persisting == pc \in { "put_block", "set_block_at_height", "set_tip", "set_height", "persist_utxos" }

\* The process is gone: its memory, and any call in progress.
Stopped ==
    /\ pc' = "down"
    /\ adding' = NoBlock
    /\ newHeight' = 0
    /\ pending' = {}
    /\ utxo_set' = {}
    /\ tip' = NoBlock
    /\ height' = 0
    /\ tracked' = <<>>

\* The next write is one whose error `?' returns to the caller.
ErrorReturns ==
    /\ Persisting
    /\ pc = "persist_utxos" => \E op \in pending : IsNext(op) /\ op[2] = "put"

Fail ==
    /\ failures < MaxFailures
    /\ failures' = failures + 1
    /\ UNCHANGED crashes

\* Blockchain::new takes every error of get_tip for an empty database, a failed
\* read too, and starts init_genesis on a database that holds a chain.
GetTipFails ==
    /\ pc = "down"
    /\ disk.tip # NoBlock
    /\ Fail
    /\ TakeIn(Genesis, 0)

\* has_block takes a failed read for "not stored" (unwrap_or(false)): add_block goes
\* on with a block that is.  For a block that is not stored the answer is right.
HasBlockFails(b) ==
    /\ pc = "idle"
    /\ b \in disk.blocks
    /\ Prev[b] = tip
    /\ height < MaxHeight
    /\ ValidateBlock(b, utxo_set, height + 1)
    /\ Fail
    /\ TakeIn(b, height + 1)

\* add_block returns the storage error.  The UTXO set and the LWMA data keep
\* the block, tip and height keep the old one, and the process goes on.
AddBlockFails ==
    /\ ErrorReturns
    /\ adding # Genesis
    /\ Fail
    /\ pc' = "idle"
    /\ adding' = NoBlock
    /\ newHeight' = 0
    /\ pending' = {}
    /\ UNCHANGED <<disk, recoverable, memory>>

\* Blockchain::new returns the error and the program exits; what was written
\* is flushed when the database is dropped.
InitGenesisFails ==
    /\ ErrorReturns
    /\ adding = Genesis
    /\ Fail
    /\ recoverable' = {disk}
    /\ Stopped
    /\ UNCHANGED disk

\* persist_utxo_changes discards the result of remove_utxo.
RemoveUtxoLost ==
    /\ pc = "persist_utxos"
    /\ \E op \in pending :
          /\ IsNext(op)
          /\ op[2] = "remove"
          /\ pending' = pending \ {op}
    /\ Fail
    /\ UNCHANGED <<disk, recoverable, pc, adding, newHeight, memory>>

Crash ==
    /\ pc # "down"
    /\ crashes < MaxCrashes
    /\ crashes' = crashes + 1
    /\ \E d \in recoverable :
          /\ disk' = d
          /\ recoverable' = {d}
    /\ Stopped
    /\ UNCHANGED failures

\* A clean exit; sled flushes its log when the last handle is dropped.
Quit ==
    /\ pc = "idle"
    /\ recoverable' = {disk}
    /\ Stopped
    /\ UNCHANGED <<disk, faults>>

Next ==
    \/ Load
    \/ LoadFails
    \/ InitGenesis
    \/ \E b \in Block : AddBlock(b)
    \/ PutBlock
    \/ SetBlockAtHeight
    \/ SetTip
    \/ SetHeight
    \/ RemoveUtxo
    \/ PutUtxo
    \/ Finish
    \/ GetTipFails
    \/ \E b \in Block : HasBlockFails(b)
    \/ AddBlockFails
    \/ InitGenesisFails
    \/ RemoveUtxoLost
    \/ Crash
    \/ Quit

Spec == Init /\ [][Next]_vars

-----------------------------------------------------------------------------
(* Invariants *)

TypeOK ==
    /\ disk \in Disk
    /\ recoverable \subseteq Disk
    /\ pc \in { "down", "idle" } \/ Persisting
    /\ adding \in MaybeBlock
    /\ Persisting => adding \in Block /\ pending \subseteq UtxoOps(Body[adding])
    /\ newHeight \in Heights
    /\ utxo_set \subseteq OutPoint
    /\ tip \in MaybeBlock
    /\ height \in Heights
    /\ tracked \in Seq(Block)
    /\ crashes \in 0 .. MaxCrashes
    /\ failures \in 0 .. MaxFailures

\* A stored name always leads to a stored block: the tip and every height key
\* name a block of the tree "blocks", and the height is stored only when every
\* height up to it has its key.  add_block writes block, index, tip and height
\* in that order (blockchain.rs:133-136) for this.
StoredBeforeNamed(d) ==
    /\ d.tip # NoBlock => d.tip \in d.blocks
    /\ \A h \in Heights : d.index[h] # NoBlock => d.index[h] \in d.blocks
    /\ d.height # NoHeight => Loadable(d)

\* Whatever state of the disk a crash leaves, at any step of any add_block and
\* after any storage error, no stored name dangles.
NamesNeverDangle == \A d \in recoverable \cup {disk} : StoredBeforeNamed(d)

\* Why that holds at every step: the order of the writes.  Every height below
\* the one being written, and every height of an idle process, is indexed and
\* stored; past put_block the new block is stored; past set_block_at_height it
\* is indexed.  The state on disk is itself one that a crash may leave.
WritesInOrder ==
    /\ disk \in recoverable
    /\ pc = "idle" => \A h \in 0 .. height : disk.index[h] \in disk.blocks
    /\ Persisting =>
          /\ adding # Genesis => newHeight = height + 1
          /\ \A h \in 0 .. newHeight - 1 : disk.index[h] \in disk.blocks
          /\ pc # "put_block" => adding \in disk.blocks
          /\ pc \in { "set_tip", "set_height", "persist_utxos" }
                => disk.index[newHeight] = adding

\* With no fault, what a clean exit and a restart would load is what the
\* process has in memory: nothing that add_block did is lost or done twice.
MemoryMatchesDisk ==
    pc = "idle" =>
        /\ tip = disk.tip
        /\ height = disk.height
        /\ utxo_set = disk.utxos
        /\ tracked = [ i \in 1 .. height + 1 |-> disk.index[i - 1] ]

\* With no fault, the UTXO index that add_block updates incrementally is the
\* one a replay of the whole chain from genesis would compute.
UtxoIsReplay == pc = "idle" => utxo_set = Replay(Ancestry[tip])

\* The unspent outputs never hold more than the rewards the schedule allowed
\* up to the current height: fees are moved, never minted.
SupplyWithinRewards ==
    pc = "idle" =>
        TotalAmount(utxo_set) <= SumFunction([ h \in 0 .. height |-> BlockReward(h) ])

\* How far the stored height can fall behind the tip with no storage error: one
\* block for each crash that hit between set_tip and set_height.  It is never
\* ahead.
HeightLag ==
    pc = "idle" /\ failures = 0 => Depth(tip) - height \in 0 .. crashes

\* Before the first fault, a crash leaves the UTXO tree on the way from the set
\* before the last block to the one after it: no output is lost that this block
\* does not consume, and none is there that neither the chain before it left
\* unspent nor the block itself creates.
TornByOneBlock ==
    crashes + failures = 0 =>
        \A d \in recoverable :
            d.tip # NoBlock =>
                LET before == Replay(Front(Ancestry[d.tip]))
                IN  /\ before \ OutPointsSpentBy(d.tip) \subseteq d.utxos
                    /\ d.utxos \subseteq before \cup OutPointsCreatedBy(d.tip)

\* A block on disk that is not in the chain of the tip is not added again while the
\* storage answers (has_block gives BlockExists): with no storage error, each crash
\* strands at most one.
StrandedBlocks ==
    pc = "idle" /\ failures = 0 =>
        Cardinality(disk.blocks \ ToSet(Ancestry[tip])) <= crashes

\* The LWMA data may hold entries of blocks that were not added, at most one
\* for each storage error.
LwmaDataExcess ==
    pc = "idle" => Len(tracked) - (height + 1) \in 0 .. failures

\* The database cannot be opened in one case only, a start that was interrupted
\* between set_tip and set_height of genesis: once a start has succeeded, no
\* crash and no storage error keeps a later one from loading the chain.
OnlyGenesisUnloadable ==
    \A d \in recoverable \cup {disk} :
        d.tip # NoBlock /\ ~ Loadable(d) => d.tip = Genesis /\ d.height = NoHeight

\* A restart never jumps to another branch: with no storage error, the chain a
\* crash leaves is a prefix of the chain on disk when the process died.
CrashKeepsPrefix ==
    [][ pc # "down" /\ pc' = "down" /\ disk'.tip # NoBlock /\ failures = 0
          => disk'.tip \in ToSet(Ancestry[disk.tip]) ]_vars

HasInputs(t) == Inputs[t] # <<>>

\* The transactions with inputs, each with its place in the body.
Moves(body) == { <<i, body[i]>> : i \in { j \in DOMAIN body : HasInputs(body[j]) } }

\* Every body over the transactions of b, up to twice its length.
BodiesOver(b) ==
    UNION { [ 1 .. n -> ToSet(Body[b]) ] : n \in 1 .. 2 * Len(Body[b]) }

\* A block is looked up, exchanged and stored by the hash of its header, which
\* fixes the body only through the merkle root, and merkle_root pairs an odd
\* last txid with itself: bodies with repeated transactions share a root.  Of
\* all the bodies that fit the header of a block the chain would take, the one
\* accepted has the same transactions with inputs, at the same places: they differ
\* by copies of transactions without inputs alone.
RootFixesBody ==
    pc = "idle" =>
        \A b \in { c \in Block : Prev[c] = tip /\ ValidateBlock(c, utxo_set, height + 1) } :
            \A twin \in BodiesOver(b) :
                MerkleRoot(twin) = Root[b] /\ ValidateBody(twin, utxo_set, height + 1)
                    => Moves(twin) = Moves(Body[b])

-----------------------------------------------------------------------------
(* The chain of blocks this implementation stands for: on a disk that no   *)
(* process has open, the blocks of the height index; in a running process, *)
(* the blocks taken in.                                                    *)

DiskChain == [ i \in 1 .. disk.height + 1 |-> disk.index[i - 1] ]

Promise == INSTANCE LedgerSpec WITH ledger <- IF pc = "down" THEN DiskChain ELSE tracked

\* With no fault, the chain implements the abstract ledger across restarts.
ImplementsLedger == Promise!Spec

\* No output is consumed by two blocks of the chain, across restarts, unless one of
\* them or a block between them made it anew: what validate_block checks against
\* the UTXO index holds of the whole history.
SpentOncePerCreation == Promise!SpentOncePerCreation

-----------------------------------------------------------------------------
(* What the documentation says, and the code does not keep *)

Sum(amounts) == FoldLeft(LAMBDA sum, amount : sum + amount, 0, amounts)

\* ARCHITECTURE.md:219: "Total input >= total output": no transaction of the
\* chain creates more than it consumes.
InputsCoverOutputs ==
    pc = "idle" =>
        \A b \in ToSet(Ancestry[tip]) : \A i \in 2 .. Len(Body[b]) :
            LET t == Body[b][i]
            IN  Sum([ k \in DOMAIN Outputs[t] |-> Outputs[t][k].amount ])
                    <= Sum([ k \in DOMAIN Inputs[t] |->
                                OutputAt(OutPointOf(Inputs[t][k])).amount ])
=============================================================================
