---------------------------- MODULE ChainProofs -----------------------------
(***************************************************************************)
(* Proofs about Chain for every universe of blocks and transactions, every *)
(* height bound and every number of crashes and storage errors: first the  *)
(* order of the writes, then what the memory and the disk say of each      *)
(* other, then what the header of a block fixes of its body; last, what a  *)
(* wallet makes of a phrase and of the coins a state of the chain holds.   *)
(***************************************************************************)
EXTENDS Wallet, LedgerProofs, SequenceTheorems, FiniteSetTheorems

-----------------------------------------------------------------------------
(* The order of the writes *)

(* An insertion that persist_utxo_changes still has to make is of an output *)
(* of the block in progress.                                                *)
LEMMA PutByType ==
    ASSUME adding \in Block, NEW op \in UtxoOps(Body[adding]), op[2] = "put"
    PROVE  PutBy(op) \in OutPoint
<1>1. PICK i \in DOMAIN Body[adding] :
          \E k \in DOMAIN Outputs[Body[adding][i]] : op = <<i, "put", k>>
  <2>1. op \notin Removals(Body[adding])
    BY DEF Removals
  <2>2. QED BY <2>1 DEF UtxoOps, Insertions
<1>2. PICK k \in DOMAIN Outputs[Body[adding][i]] : op = <<i, "put", k>>
  BY <1>1
<1>3. Body[adding][i] \in Tx
  BY <1>1, BlocksAssumption
<1>4. <<Body[adding][i], OutputIndex(k)>> \in Created(Body[adding][i])
  BY <1>2 DEF Created
<1>5. QED BY <1>2, <1>3, <1>4 DEF PutBy, OutPoint

LEMMA InitTypeOK == Init => TypeOK
<1> SUFFICES ASSUME Init PROVE TypeOK
  OBVIOUS
<1> USE ChainAssumption DEF Init
<1>1. EmptyDisk \in Disk
  BY DEF EmptyDisk, Disk, MaybeBlock, Heights
<1>2. QED
  BY <1>1 DEF TypeOK, Persisting, MaybeBlock, Heights

(* The memory that add_block and init_genesis leave behind before the first *)
(* write has the right types.                                               *)
LEMMA TakeInTypeOK ==
    ASSUME TypeOK, NEW b \in Block, NEW h \in Heights, TakeIn(b, h),
           crashes' \in 0 .. MaxCrashes, failures' \in 0 .. MaxFailures
    PROVE  TypeOK'
<1> USE DEF TypeOK, TakeIn
<1>1. utxo_set' \subseteq OutPoint
  BY ApplyBlockUtxosType, BlocksAssumption
<1>2. tracked' \in Seq(Block)
  OBVIOUS
<1>3. QED
  BY <1>1, <1>2 DEF Persisting, MaybeBlock

(* Stopping a process leaves well-typed memory whatever was in progress.    *)
LEMMA StoppedTypeOK ==
    ASSUME TypeOK, Stopped, disk' \in Disk, recoverable' \subseteq Disk,
           crashes' \in 0 .. MaxCrashes, failures' \in 0 .. MaxFailures
    PROVE  TypeOK'
BY ChainAssumption DEF TypeOK, Stopped, Persisting, MaybeBlock, Heights

(* A write that keeps the disk well typed, in a step that keeps a process   *)
(* persisting and adds nothing to its pending writes.                       *)
LEMMA WriteTypeOK ==
    ASSUME TypeOK, Persisting, Persisting', NEW d \in Disk, Write(d),
           pending' \subseteq pending
    PROVE  TypeOK'
BY DEF TypeOK, Write, Persisting, memory, faults

LEMMA NextTypeOK == TypeOK /\ [Next]_vars => TypeOK'
<1> SUFFICES ASSUME TypeOK, [Next]_vars PROVE TypeOK'
  OBVIOUS
<1>0. /\ disk \in Disk /\ recoverable \subseteq Disk
      /\ crashes \in 0 .. MaxCrashes /\ failures \in 0 .. MaxFailures
  BY DEF TypeOK
<1>1. CASE Load
  <2>1. /\ disk.height \in Heights
        /\ \A h \in 0 .. disk.height : disk.index[h] \in Block
    BY <1>0, <1>1 DEF Load, Loadable, Disk
  <2>2. tracked' \in Seq(Block)
    <3>1. disk.height + 1 \in Nat
      BY <2>1, ChainAssumption DEF Heights
    <3>2. \A i \in 1 .. disk.height + 1 : disk.index[i - 1] \in Block
      BY <2>1, <3>1, ChainAssumption DEF Heights
    <3>3. [i \in 1 .. disk.height + 1 |-> disk.index[i - 1]]
              \in [1 .. disk.height + 1 -> Block]
      BY <3>2
    <3>4. [i \in 1 .. disk.height + 1 |-> disk.index[i - 1]] \in Seq(Block)
      <4> DEFINE n == disk.height + 1
                 loaded == [i \in 1 .. n |-> disk.index[i - 1]]
      <4>1. n \in Nat /\ loaded \in [1 .. n -> Block]
        BY <3>1, <3>3
      <4> HIDE DEF n, loaded
      <4>2. loaded \in Seq(Block)
        BY <4>1, SeqDef
      <4>3. QED BY <4>2 DEF n, loaded
    <3>5. tracked' = [i \in 1 .. disk.height + 1 |-> disk.index[i - 1]]
      BY <1>1 DEF Load
    <3>6. QED BY <3>4, <3>5
  <2>3. utxo_set' \subseteq OutPoint /\ tip' \in MaybeBlock
    BY <1>0, <1>1 DEF Load, Disk
  <2>4. QED
    BY <1>1, <2>1, <2>2, <2>3 DEF Load, TypeOK, Persisting, faults
<1>2. CASE LoadFails
  BY <1>2 DEF LoadFails, vars, process, memory, faults, TypeOK, Persisting
<1>3. CASE InitGenesis
  <2>1. Genesis \in Block /\ 0 \in Heights
    BY BlocksAssumption, ChainAssumption DEF Heights
  <2>2. QED
    BY <1>0, <1>3, <2>1, TakeInTypeOK DEF InitGenesis, faults
<1>4. ASSUME NEW b \in Block, AddBlock(b) PROVE TypeOK'
  <2>1. height + 1 \in Heights
    BY <1>4, ChainAssumption DEF AddBlock, TypeOK, Heights
  <2>2. QED
    BY <1>0, <1>4, <2>1, TakeInTypeOK DEF AddBlock, faults
<1>5. CASE PutBlock
  <2>1. [disk EXCEPT !.blocks = @ \cup {adding}] \in Disk
    BY <1>5 DEF PutBlock, TypeOK, Persisting, Disk
  <2>2. QED BY <1>5, <2>1, WriteTypeOK DEF PutBlock, Persisting
<1>6. CASE SetBlockAtHeight
  <2>1. [disk EXCEPT !.index[newHeight] = adding] \in Disk
    BY <1>6 DEF SetBlockAtHeight, TypeOK, Persisting, Disk, MaybeBlock
  <2>2. QED BY <1>6, <2>1, WriteTypeOK DEF SetBlockAtHeight, Persisting
<1>7. CASE SetTip
  <2>1. [disk EXCEPT !.tip = adding] \in Disk
    BY <1>7 DEF SetTip, TypeOK, Persisting, Disk, MaybeBlock
  <2>2. QED BY <1>7, <2>1, WriteTypeOK DEF SetTip, Persisting
<1>8. CASE SetHeight
  <2>1. [disk EXCEPT !.height = newHeight] \in Disk
    BY <1>8 DEF SetHeight, TypeOK, Persisting, Disk
  <2>2. QED BY <1>8, <2>1, WriteTypeOK DEF SetHeight, Persisting
<1>9. CASE RemoveUtxo
  <2>1. PICK op \in pending :
            /\ pending' = pending \ {op}
            /\ Write([disk EXCEPT !.utxos = @ \ {RemovedBy(op)}])
    BY <1>9 DEF RemoveUtxo
  <2>2. [disk EXCEPT !.utxos = @ \ {RemovedBy(op)}] \in Disk
    BY <1>0 DEF Disk
  <2>3. QED BY <1>9, <2>1, <2>2, WriteTypeOK DEF RemoveUtxo, Persisting
<1>10. CASE PutUtxo
  <2>1. PICK op \in pending :
            /\ op[2] = "put"
            /\ pending' = pending \ {op}
            /\ Write([disk EXCEPT !.utxos = @ \cup {PutBy(op)}])
    BY <1>10 DEF PutUtxo
  <2>2. adding \in Block /\ op \in UtxoOps(Body[adding])
    BY <1>10 DEF PutUtxo, TypeOK, Persisting
  <2>3. PutBy(op) \in OutPoint
    BY <2>1, <2>2, PutByType
  <2>4. [disk EXCEPT !.utxos = @ \cup {PutBy(op)}] \in Disk
    BY <1>0, <2>3 DEF Disk
  <2>5. QED BY <1>10, <2>1, <2>4, WriteTypeOK DEF PutUtxo, Persisting
<1>11. CASE Finish
  BY <1>11, ChainAssumption DEF Finish, TypeOK, Persisting, MaybeBlock, Heights, faults
<1>12. CASE GetTipFails
  <2>1. Genesis \in Block /\ 0 \in Heights
    BY BlocksAssumption, ChainAssumption DEF Heights
  <2>2. crashes' \in 0 .. MaxCrashes /\ failures' \in 0 .. MaxFailures
    BY <1>0, <1>12, ChainAssumption DEF GetTipFails, Fail
  <2>3. QED
    BY <1>12, <2>1, <2>2, TakeInTypeOK DEF GetTipFails
<1>12h. ASSUME NEW b \in Block, HasBlockFails(b) PROVE TypeOK'
  <2>1. height + 1 \in Heights
    BY <1>12h, ChainAssumption DEF HasBlockFails, TypeOK, Heights
  <2>2. crashes' \in 0 .. MaxCrashes /\ failures' \in 0 .. MaxFailures
    BY <1>0, <1>12h, ChainAssumption DEF HasBlockFails, Fail
  <2>3. QED
    BY <1>12h, <2>1, <2>2, TakeInTypeOK DEF HasBlockFails
<1>13. CASE AddBlockFails
  BY <1>13, ChainAssumption
     DEF AddBlockFails, Fail, TypeOK, Persisting, MaybeBlock, Heights, memory
<1>14. CASE InitGenesisFails
  <2>1. crashes' \in 0 .. MaxCrashes /\ failures' \in 0 .. MaxFailures
    BY <1>0, <1>14, ChainAssumption DEF InitGenesisFails, Fail
  <2>2. disk' \in Disk /\ recoverable' \subseteq Disk
    BY <1>0, <1>14 DEF InitGenesisFails
  <2>3. QED BY <1>14, <2>1, <2>2, StoppedTypeOK DEF InitGenesisFails
<1>15. CASE RemoveUtxoLost
  BY <1>15, ChainAssumption DEF RemoveUtxoLost, Fail, TypeOK, Persisting, memory
<1>16. CASE Crash
  <2>1. crashes' \in 0 .. MaxCrashes /\ failures' \in 0 .. MaxFailures
    BY <1>0, <1>16, ChainAssumption DEF Crash
  <2>2. disk' \in Disk /\ recoverable' \subseteq Disk
    BY <1>0, <1>16 DEF Crash
  <2>3. QED BY <1>16, <2>1, <2>2, StoppedTypeOK DEF Crash
<1>17. CASE Quit
  BY <1>0, <1>17, StoppedTypeOK DEF Quit, faults
<1>18. CASE UNCHANGED vars
  BY <1>18 DEF vars, process, memory, faults, TypeOK, Persisting
<1>19. QED
  BY <1>1, <1>2, <1>3, <1>4, <1>5, <1>6, <1>7, <1>8, <1>9, <1>10, <1>11, <1>12, <1>12h,
     <1>13, <1>14, <1>15, <1>16, <1>17, <1>18 DEF Next

(* Every value the chain, its disk and every disk a crash may leave can     *)
(* take has the type the code gives it (blockchain.rs:22-31, db.rs:17-22).  *)
THEOREM TypeCorrect == Spec => []TypeOK
<1>1. TypeOK /\ [Next]_vars => TypeOK'
  BY NextTypeOK
<1>2. QED BY <1>1, InitTypeOK, PTL DEF Spec
-----------------------------------------------------------------------------
(* No stored name ever dangles *)

\* NamesNeverDangle alone is not inductive: that set_tip names a stored block
\* follows from what the earlier steps of the same call wrote.
DiskInv == TypeOK /\ NamesNeverDangle /\ WritesInOrder

(* A write after which the disk still names stored blocks only adds one     *)
(* sound state to those a crash may leave.                                  *)
LEMMA WriteKeepsNames ==
    ASSUME NamesNeverDangle, NEW d, Write(d), StoredBeforeNamed(d)
    PROVE  NamesNeverDangle' /\ disk' \in recoverable'
BY DEF NamesNeverDangle, Write

(* A step that writes nothing, or reduces what a crash may leave to some    *)
(* states it could leave before, keeps every one of them sound.             *)
LEMMA NoWriteKeepsNames ==
    ASSUME NamesNeverDangle, disk' \in recoverable \cup {disk},
           recoverable' \subseteq recoverable \cup {disk}
    PROVE  NamesNeverDangle'
BY DEF NamesNeverDangle

LEMMA InitDiskInv == Init => DiskInv
<1> SUFFICES ASSUME Init PROVE DiskInv
  OBVIOUS
<1>1. StoredBeforeNamed(EmptyDisk)
  BY BlocksAssumption DEF StoredBeforeNamed, EmptyDisk, Heights
<1>2. NamesNeverDangle /\ WritesInOrder
  BY <1>1 DEF Init, NamesNeverDangle, WritesInOrder, Persisting
<1>3. QED BY <1>2, InitTypeOK DEF DiskInv

(* The five kinds of write, each with the earlier writes it relies on.      *)
LEMMA PutBlockKeeps ==
    ASSUME DiskInv, PutBlock
    PROVE  NamesNeverDangle' /\ WritesInOrder'
<1> DEFINE d == [disk EXCEPT !.blocks = @ \cup {adding}]
<1>1. disk \in Disk /\ adding \in Block /\ StoredBeforeNamed(disk)
  BY DEF DiskInv, TypeOK, PutBlock, Persisting, NamesNeverDangle
<1>2. /\ d.blocks = disk.blocks \cup {adding} /\ d.index = disk.index
      /\ d.tip = disk.tip /\ d.height = disk.height
  BY <1>1 DEF Disk
<1>3. StoredBeforeNamed(d)
  <2> HIDE DEF d
  <2>1. QED BY <1>1, <1>2 DEF StoredBeforeNamed, Loadable
<1>4. NamesNeverDangle' /\ disk' \in recoverable'
  BY <1>3, WriteKeepsNames DEF DiskInv, PutBlock
<1>5. disk' = d /\ newHeight' = newHeight /\ adding' = adding /\ height' = height
  BY DEF PutBlock, Write, memory
<1>6. QED
  <2> HIDE DEF d
  <2>1. QED
    BY <1>2, <1>4, <1>5 DEF PutBlock, DiskInv, WritesInOrder, Persisting

LEMMA SetBlockAtHeightKeeps ==
    ASSUME DiskInv, SetBlockAtHeight
    PROVE  NamesNeverDangle' /\ WritesInOrder'
<1> DEFINE d == [disk EXCEPT !.index[newHeight] = adding]
<1>1. /\ disk \in Disk /\ adding \in disk.blocks /\ newHeight \in Heights
      /\ StoredBeforeNamed(disk)
  BY DEF DiskInv, TypeOK, SetBlockAtHeight, Persisting, NamesNeverDangle, WritesInOrder
<1>2. /\ d.blocks = disk.blocks /\ d.tip = disk.tip /\ d.height = disk.height
      /\ d.index[newHeight] = adding
      /\ \A h \in Heights \ {newHeight} : d.index[h] = disk.index[h]
  BY <1>1 DEF Disk
<1>3. d.height # NoHeight => d.height \in Heights
  BY <1>1, <1>2 DEF Disk
<1>4. StoredBeforeNamed(d)
  <2> HIDE DEF d
  <2>1. QED BY <1>1, <1>2, <1>3, ChainAssumption DEF StoredBeforeNamed, Loadable, Heights
<1>5. NamesNeverDangle' /\ disk' \in recoverable'
  BY <1>4, WriteKeepsNames DEF DiskInv, SetBlockAtHeight
<1>6. disk' = d /\ newHeight' = newHeight /\ adding' = adding /\ height' = height
  BY DEF SetBlockAtHeight, Write, memory
<1>7. \A h \in 0 .. newHeight - 1 : disk.index[h] \in disk.blocks
  BY DEF DiskInv, WritesInOrder, SetBlockAtHeight, Persisting
<1>8. QED
  <2> HIDE DEF d
  <2>1. QED
    BY <1>1, <1>2, <1>5, <1>6, <1>7, ChainAssumption
       DEF SetBlockAtHeight, DiskInv, WritesInOrder, Persisting, Heights

LEMMA SetTipKeeps ==
    ASSUME DiskInv, SetTip
    PROVE  NamesNeverDangle' /\ WritesInOrder'
<1> DEFINE d == [disk EXCEPT !.tip = adding]
<1>1. disk \in Disk /\ adding \in disk.blocks /\ StoredBeforeNamed(disk)
  BY DEF DiskInv, TypeOK, SetTip, Persisting, NamesNeverDangle, WritesInOrder
<1>2. /\ d.blocks = disk.blocks /\ d.index = disk.index
      /\ d.tip = adding /\ d.height = disk.height
  BY <1>1 DEF Disk
<1>3. StoredBeforeNamed(d)
  <2> HIDE DEF d
  <2>1. QED BY <1>1, <1>2 DEF StoredBeforeNamed, Loadable
<1>4. NamesNeverDangle' /\ disk' \in recoverable'
  BY <1>3, WriteKeepsNames DEF DiskInv, SetTip
<1>5. disk' = d /\ newHeight' = newHeight /\ adding' = adding /\ height' = height
  BY DEF SetTip, Write, memory
<1>6. QED
  <2> HIDE DEF d
  <2>1. QED
    BY <1>2, <1>4, <1>5 DEF SetTip, DiskInv, WritesInOrder, Persisting

LEMMA SetHeightKeeps ==
    ASSUME DiskInv, SetHeight
    PROVE  NamesNeverDangle' /\ WritesInOrder'
<1> DEFINE d == [disk EXCEPT !.height = newHeight]
<1>1. /\ disk \in Disk /\ newHeight \in Heights /\ StoredBeforeNamed(disk)
      /\ \A h \in 0 .. newHeight - 1 : disk.index[h] \in disk.blocks
      /\ disk.index[newHeight] \in disk.blocks
  BY DEF DiskInv, TypeOK, SetHeight, Persisting, NamesNeverDangle, WritesInOrder
<1>2. /\ d.blocks = disk.blocks /\ d.index = disk.index
      /\ d.tip = disk.tip /\ d.height = newHeight
  BY <1>1 DEF Disk
<1>3. \A h \in 0 .. newHeight : disk.index[h] \in disk.blocks
  BY <1>1, ChainAssumption DEF Heights
<1>4. newHeight # NoHeight
  BY <1>1, ChainAssumption DEF Heights, NoHeight
<1>5. StoredBeforeNamed(d)
  <2> HIDE DEF d
  <2>1. QED BY <1>1, <1>2, <1>3, <1>4 DEF StoredBeforeNamed, Loadable
<1>6. NamesNeverDangle' /\ disk' \in recoverable'
  BY <1>5, WriteKeepsNames DEF DiskInv, SetHeight
<1>7. disk' = d /\ newHeight' = newHeight /\ adding' = adding /\ height' = height
  BY DEF SetHeight, Write, memory
<1>8. QED
  <2> HIDE DEF d
  <2>1. QED
    BY <1>2, <1>6, <1>7 DEF SetHeight, DiskInv, WritesInOrder, Persisting

(* A write of the tree "utxos" changes nothing that a name refers to.       *)
LEMMA UtxoWriteKeeps ==
    ASSUME DiskInv, pc = "persist_utxos", pc' = pc,
           NEW utxos, Write([disk EXCEPT !.utxos = utxos])
    PROVE  NamesNeverDangle' /\ WritesInOrder'
<1> DEFINE d == [disk EXCEPT !.utxos = utxos]
<1>1. disk \in Disk /\ StoredBeforeNamed(disk)
  BY DEF DiskInv, TypeOK, NamesNeverDangle
<1>2. /\ d.blocks = disk.blocks /\ d.index = disk.index
      /\ d.tip = disk.tip /\ d.height = disk.height
  BY <1>1 DEF Disk
<1>3. StoredBeforeNamed(d)
  <2> HIDE DEF d
  <2>1. QED BY <1>1, <1>2 DEF StoredBeforeNamed, Loadable
<1>4. NamesNeverDangle' /\ disk' \in recoverable'
  BY <1>3, WriteKeepsNames DEF DiskInv
<1>5. disk' = d /\ newHeight' = newHeight /\ adding' = adding /\ height' = height
  BY DEF Write, memory
<1>6. QED
  <2> HIDE DEF d
  <2>1. QED
    BY <1>2, <1>4, <1>5 DEF DiskInv, WritesInOrder, Persisting

(* Taking a block in starts a call whose block is at a height all of whose  *)
(* predecessors are indexed and stored.                                     *)
LEMMA TakeInKeeps ==
    ASSUME DiskInv, NEW b, NEW h \in Nat, TakeIn(b, h),
           b # Genesis => h = height + 1,
           \A k \in 0 .. h - 1 : disk.index[k] \in disk.blocks
    PROVE  NamesNeverDangle' /\ WritesInOrder'
<1>1. NamesNeverDangle'
  BY NoWriteKeepsNames DEF DiskInv, TakeIn
<1>2. WritesInOrder'
  BY DEF DiskInv, TakeIn, WritesInOrder, Persisting
<1>3. QED BY <1>1, <1>2

LEMMA NextDiskInv == DiskInv /\ [Next]_vars => DiskInv'
<1> SUFFICES ASSUME DiskInv, [Next]_vars
             PROVE  NamesNeverDangle' /\ WritesInOrder'
  BY NextTypeOK DEF DiskInv
<1>0. /\ NamesNeverDangle /\ WritesInOrder
      /\ disk \in recoverable /\ disk \in Disk
      /\ height \in Nat /\ newHeight \in Nat
  BY ChainAssumption DEF DiskInv, WritesInOrder, TypeOK, Heights
<1>1. CASE Load
  <2>1. NamesNeverDangle'
    BY <1>0, <1>1, NoWriteKeepsNames DEF Load
  <2>2. WritesInOrder'
    BY <1>0, <1>1 DEF Load, Loadable, WritesInOrder, Persisting
  <2>3. QED BY <2>1, <2>2
<1>2. CASE LoadFails
  BY <1>0, <1>2 DEF LoadFails, vars, process, memory, NamesNeverDangle, WritesInOrder,
                    Persisting
<1>3. CASE InitGenesis
  BY <1>3, TakeInKeeps DEF InitGenesis
<1>4. ASSUME NEW b \in Block, AddBlock(b) PROVE NamesNeverDangle' /\ WritesInOrder'
  <2>1. \A k \in 0 .. height + 1 - 1 : disk.index[k] \in disk.blocks
    BY <1>0, <1>4 DEF AddBlock, WritesInOrder
  <2>2. QED BY <1>0, <1>4, <2>1, TakeInKeeps DEF AddBlock
<1>5. CASE PutBlock
  BY <1>5, PutBlockKeeps
<1>6. CASE SetBlockAtHeight
  BY <1>6, SetBlockAtHeightKeeps
<1>7. CASE SetTip
  BY <1>7, SetTipKeeps
<1>8. CASE SetHeight
  BY <1>8, SetHeightKeeps
<1>9. CASE RemoveUtxo
  <2>1. PICK op \in pending : Write([disk EXCEPT !.utxos = @ \ {RemovedBy(op)}])
    BY <1>9 DEF RemoveUtxo
  <2>2. Write([disk EXCEPT !.utxos = disk.utxos \ {RemovedBy(op)}])
    BY <1>0, <2>1 DEF Disk
  <2>3. QED BY <1>9, <2>2, UtxoWriteKeeps DEF RemoveUtxo
<1>10. CASE PutUtxo
  <2>1. PICK op \in pending : Write([disk EXCEPT !.utxos = @ \cup {PutBy(op)}])
    BY <1>10 DEF PutUtxo
  <2>2. Write([disk EXCEPT !.utxos = disk.utxos \cup {PutBy(op)}])
    BY <1>0, <2>1 DEF Disk
  <2>3. QED BY <1>10, <2>2, UtxoWriteKeeps DEF PutUtxo
<1>11. CASE Finish
  <2>1. NamesNeverDangle'
    BY <1>0, <1>11, NoWriteKeepsNames DEF Finish
  <2>2. \A h \in 0 .. newHeight : disk.index[h] \in disk.blocks
    BY <1>0, <1>11 DEF Finish, WritesInOrder, Persisting
  <2>3. WritesInOrder'
    BY <1>0, <1>11, <2>2 DEF Finish, WritesInOrder, Persisting
  <2>4. QED BY <2>1, <2>3
<1>12. CASE GetTipFails
  BY <1>12, TakeInKeeps DEF GetTipFails
<1>12h. ASSUME NEW b \in Block, HasBlockFails(b) PROVE NamesNeverDangle' /\ WritesInOrder'
  <2>1. \A k \in 0 .. height + 1 - 1 : disk.index[k] \in disk.blocks
    BY <1>0, <1>12h DEF HasBlockFails, WritesInOrder
  <2>2. QED BY <1>0, <1>12h, <2>1, TakeInKeeps DEF HasBlockFails
<1>13. CASE AddBlockFails
  <2>1. NamesNeverDangle'
    BY <1>0, <1>13, NoWriteKeepsNames DEF AddBlockFails
  <2>2. \A h \in 0 .. height : disk.index[h] \in disk.blocks
    BY <1>0, <1>13 DEF AddBlockFails, ErrorReturns, WritesInOrder
  <2>3. WritesInOrder'
    BY <1>0, <1>13, <2>2 DEF AddBlockFails, WritesInOrder, Persisting, memory
  <2>4. QED BY <2>1, <2>3
<1>14. CASE InitGenesisFails
  <2>1. NamesNeverDangle'
    BY <1>0, <1>14, NoWriteKeepsNames DEF InitGenesisFails
  <2>2. WritesInOrder'
    BY <1>14 DEF InitGenesisFails, Stopped, WritesInOrder, Persisting
  <2>3. QED BY <2>1, <2>2
<1>15. CASE RemoveUtxoLost
  <2>1. NamesNeverDangle'
    BY <1>0, <1>15, NoWriteKeepsNames DEF RemoveUtxoLost
  <2>2. WritesInOrder'
    BY <1>0, <1>15 DEF RemoveUtxoLost, WritesInOrder, Persisting, memory
  <2>3. QED BY <2>1, <2>2
<1>16. CASE Crash
  <2>1. NamesNeverDangle'
    BY <1>0, <1>16, NoWriteKeepsNames DEF Crash
  <2>2. WritesInOrder'
    BY <1>16 DEF Crash, Stopped, WritesInOrder, Persisting
  <2>3. QED BY <2>1, <2>2
<1>17. CASE Quit
  <2>1. NamesNeverDangle'
    BY <1>0, <1>17, NoWriteKeepsNames DEF Quit
  <2>2. WritesInOrder'
    BY <1>17 DEF Quit, Stopped, WritesInOrder, Persisting
  <2>3. QED BY <2>1, <2>2
<1>18. CASE UNCHANGED vars
  BY <1>0, <1>18 DEF vars, process, memory, NamesNeverDangle, WritesInOrder, Persisting
<1>19. QED
  BY <1>1, <1>2, <1>3, <1>4, <1>5, <1>6, <1>7, <1>8, <1>9, <1>10, <1>11, <1>12,
     <1>12h, <1>13, <1>14, <1>15, <1>16, <1>17, <1>18 DEF Next

(* The order of the writes in add_block (blockchain.rs:133-137) is safe: at *)
(* every step, on the disk and on every disk a crash may leave, the tip and *)
(* every height key name a stored block and a stored height has all its     *)
(* keys.  That holds when a read of the storage fails, too: a block that    *)
(* has_block (db.rs:54-56) takes for a new one is stored again and indexed  *)
(* before it is named.                                                      *)
THEOREM NamesSafe == Spec => [](NamesNeverDangle /\ WritesInOrder)
<1>1. DiskInv /\ [Next]_vars => DiskInv'
  BY NextDiskInv
<1>2. DiskInv => NamesNeverDangle /\ WritesInOrder
  BY DEF DiskInv
<1>3. QED BY <1>1, <1>2, InitDiskInv, PTL DEF Spec
-----------------------------------------------------------------------------
(* A database that was opened once can always be opened                     *)

\* OnlyGenesisUnloadable is not inductive either: that set_tip of a later block
\* finds a stored height follows from a start that went all the way.
NoHeightYet(d) == d.height = NoHeight => d.tip \in {NoBlock, Genesis}

HeightStored ==
    /\ \A d \in recoverable \cup {disk} : NoHeightYet(d)
    /\ pc \in { "idle", "persist_utxos" } => disk.height # NoHeight
    /\ Persisting /\ adding # Genesis => disk.height # NoHeight

(* A write keeps HeightStored when it leaves a height where it needs one.   *)
LEMMA WriteKeepsHeight ==
    ASSUME HeightStored, NEW d, Write(d), NoHeightYet(d), pc' # "idle",
           pc' = "persist_utxos" => d.height # NoHeight,
           adding # Genesis => d.height # NoHeight
    PROVE  HeightStored'
BY DEF HeightStored, Write

(* A step that writes nothing keeps HeightStored when the process that goes *)
(* on has a height on disk.                                                 *)
LEMMA NoWriteKeepsHeight ==
    ASSUME HeightStored, disk' = disk, recoverable' \subseteq recoverable \cup {disk},
           pc' \in { "idle", "persist_utxos" } => disk.height # NoHeight,
           pc' # "down" /\ adding' # Genesis => disk.height # NoHeight
    PROVE  HeightStored'
BY DEF HeightStored, Persisting

LEMMA NextHeightStored == TypeOK /\ HeightStored /\ [Next]_vars => HeightStored'
<1> SUFFICES ASSUME TypeOK, HeightStored, [Next]_vars PROVE HeightStored'
  OBVIOUS
<1>0. /\ disk \in Disk /\ newHeight \in Heights /\ NoHeightYet(disk)
      /\ pc \in { "idle", "persist_utxos" } => disk.height # NoHeight
      /\ Persisting /\ adding # Genesis => disk.height # NoHeight
  BY DEF TypeOK, HeightStored
<1>1. CASE Load
  BY <1>0, <1>1, NoWriteKeepsHeight DEF Load, Loadable
<1>2. CASE LoadFails
  BY <1>2 DEF LoadFails, vars, process, memory, HeightStored, Persisting
<1>3. CASE InitGenesis
  BY <1>3, NoWriteKeepsHeight DEF InitGenesis, TakeIn
<1>4. ASSUME NEW b \in Block, AddBlock(b) PROVE HeightStored'
  BY <1>0, <1>4, NoWriteKeepsHeight DEF AddBlock, TakeIn
<1>5. CASE PutBlock
  <2> DEFINE d == [disk EXCEPT !.blocks = @ \cup {adding}]
  <2>1. d.tip = disk.tip /\ d.height = disk.height
    BY <1>0 DEF Disk
  <2>2. Write(d) /\ pc' = "set_block_at_height" /\ Persisting
    BY <1>5 DEF PutBlock, Persisting
  <2> HIDE DEF d
  <2>3. QED BY <1>0, <2>1, <2>2, WriteKeepsHeight DEF NoHeightYet
<1>6. CASE SetBlockAtHeight
  <2> DEFINE d == [disk EXCEPT !.index[newHeight] = adding]
  <2>1. d.tip = disk.tip /\ d.height = disk.height
    BY <1>0 DEF Disk
  <2>2. Write(d) /\ pc' = "set_tip" /\ Persisting
    BY <1>6 DEF SetBlockAtHeight, Persisting
  <2> HIDE DEF d
  <2>3. QED BY <1>0, <2>1, <2>2, WriteKeepsHeight DEF NoHeightYet
<1>7. CASE SetTip
  <2> DEFINE d == [disk EXCEPT !.tip = adding]
  <2>1. d.tip = adding /\ d.height = disk.height
    BY <1>0 DEF Disk
  <2>2. Write(d) /\ pc' = "set_height" /\ Persisting
    BY <1>7 DEF SetTip, Persisting
  <2> HIDE DEF d
  <2>3. QED BY <1>0, <2>1, <2>2, WriteKeepsHeight DEF NoHeightYet
<1>8. CASE SetHeight
  <2> DEFINE d == [disk EXCEPT !.height = newHeight]
  <2>1. d.height # NoHeight
    BY <1>0, ChainAssumption DEF Disk, Heights, NoHeight
  <2>2. Write(d) /\ pc' = "persist_utxos"
    BY <1>8 DEF SetHeight
  <2> HIDE DEF d
  <2>3. QED BY <2>1, <2>2, WriteKeepsHeight DEF NoHeightYet
<1>9. CASE RemoveUtxo \/ PutUtxo
  <2>1. PICK utxos : Write([disk EXCEPT !.utxos = utxos])
    BY <1>0, <1>9 DEF RemoveUtxo, PutUtxo, Disk
  <2> DEFINE d == [disk EXCEPT !.utxos = utxos]
  <2>2. d.tip = disk.tip /\ d.height = disk.height
    BY <1>0 DEF Disk
  <2>3. Write(d) /\ pc = "persist_utxos" /\ pc' = pc
    BY <1>9, <2>1 DEF RemoveUtxo, PutUtxo
  <2> HIDE DEF d
  <2>4. QED BY <1>0, <2>2, <2>3, WriteKeepsHeight DEF NoHeightYet
<1>10. CASE Finish
  BY <1>0, <1>10, NoWriteKeepsHeight DEF Finish
<1>11. CASE GetTipFails
  BY <1>11, NoWriteKeepsHeight DEF GetTipFails, TakeIn
<1>11h. ASSUME NEW b \in Block, HasBlockFails(b) PROVE HeightStored'
  BY <1>0, <1>11h, NoWriteKeepsHeight DEF HasBlockFails, TakeIn
<1>12. CASE AddBlockFails
  BY <1>0, <1>12, NoWriteKeepsHeight DEF AddBlockFails, ErrorReturns
<1>13. CASE InitGenesisFails
  BY <1>13, NoWriteKeepsHeight DEF InitGenesisFails, Stopped
<1>14. CASE RemoveUtxoLost
  BY <1>0, <1>14, NoWriteKeepsHeight DEF RemoveUtxoLost, Persisting
<1>15. CASE Crash
  BY <1>15 DEF Crash, Stopped, HeightStored, Persisting
<1>16. CASE Quit
  BY <1>16, NoWriteKeepsHeight DEF Quit, Stopped
<1>17. CASE UNCHANGED vars
  BY <1>17 DEF vars, process, memory, HeightStored, Persisting
<1>18. QED
  BY <1>1, <1>2, <1>3, <1>4, <1>5, <1>6, <1>7, <1>8, <1>9, <1>10, <1>11, <1>11h, <1>12,
     <1>13, <1>14, <1>15, <1>16, <1>17 DEF Next

(* Blockchain::new (blockchain.rs:34-53) fails in one case only: on every   *)
(* disk that any crash or storage error may leave, a tip that cannot be     *)
(* loaded is genesis, from a first start that did not get to set_height.    *)
THEOREM OpensOnceStarted == Spec => []OnlyGenesisUnloadable
<1>1. Init => HeightStored
  BY BlocksAssumption DEF Init, EmptyDisk, HeightStored, NoHeightYet, Persisting
<1>2. TypeOK /\ HeightStored /\ [Next]_vars => HeightStored'
  BY NextHeightStored
<1>3. NamesNeverDangle /\ HeightStored => OnlyGenesisUnloadable
  BY DEF NamesNeverDangle, StoredBeforeNamed, HeightStored, NoHeightYet,
         OnlyGenesisUnloadable
<1>4. QED
  BY <1>1, <1>2, <1>3, TypeCorrect, NamesSafe, PTL DEF Spec
-----------------------------------------------------------------------------
(* The LWMA data and the height                                             *)

\* What LwmaDataExcess says of an idle process, a call in progress says of the
\* height it is about to reach; a start begins with no entries.
ExcessOver(h) == Len(tracked) - (h + 1)

ExcessInv ==
    /\ pc = "idle" => ExcessOver(height) \in 0 .. failures
    /\ Persisting => ExcessOver(newHeight) \in 0 .. failures
    /\ pc = "down" => tracked = << >>

(* A step that leaves the LWMA data, the heights and the failures alone     *)
(* keeps the excess while a call goes on.                                   *)
LEMMA PersistingKeepsExcess ==
    ASSUME ExcessInv, Persisting, Persisting', pc' # "idle", pc' # "down",
           UNCHANGED <<tracked, newHeight, failures>>
    PROVE  ExcessInv'
BY DEF ExcessInv, ExcessOver, Persisting

(* Taking a block in gives the LWMA data one entry more.                    *)
LEMMA TakeInKeepsExcess ==
    ASSUME tracked \in Seq(Block), NEW b \in Block, NEW h \in Int, TakeIn(b, h),
           failures' \in Nat, Len(tracked) - h \in 0 .. failures'
    PROVE  ExcessInv'
<1>1. tracked' = Append(tracked, b) /\ newHeight' = h /\ pc' = "put_block"
  BY DEF TakeIn
<1>2. Len(tracked') = Len(tracked) + 1 /\ Len(tracked) \in Nat
  BY <1>1
<1>3. QED BY <1>1, <1>2 DEF ExcessInv, ExcessOver, Persisting

LEMMA NextExcessInv == DiskInv /\ ExcessInv /\ [Next]_vars => ExcessInv'
<1> SUFFICES ASSUME DiskInv, ExcessInv, [Next]_vars PROVE ExcessInv'
  OBVIOUS
<1>0. /\ failures \in Nat /\ height \in Nat /\ newHeight \in Nat
      /\ tracked \in Seq(Block) /\ Len(tracked) \in Nat /\ disk \in Disk
      /\ Persisting /\ adding # Genesis => newHeight = height + 1
  BY ChainAssumption DEF DiskInv, WritesInOrder, TypeOK, Heights
<1>1. CASE Load
  <2>1. disk.height \in Nat
    BY <1>0, <1>1 DEF Load, Loadable, Disk, Heights
  <2>2. Len(tracked') = disk.height + 1
    BY <1>1, <2>1 DEF Load
  <2>3. height' = disk.height /\ pc' = "idle" /\ failures' = failures
    BY <1>1 DEF Load, faults
  <2>4. QED BY <1>0, <2>1, <2>2, <2>3 DEF ExcessInv, ExcessOver, Persisting
<1>2. CASE LoadFails
  BY <1>2 DEF LoadFails, vars, process, memory, faults, ExcessInv, ExcessOver, Persisting
<1>3. CASE InitGenesis
  <2>1. Len(tracked) = 0
    BY <1>3 DEF InitGenesis, ExcessInv
  <2>2. QED
    BY <1>0, <1>3, <2>1, TakeInKeepsExcess, BlocksAssumption DEF InitGenesis, faults
<1>4. ASSUME NEW b \in Block, AddBlock(b) PROVE ExcessInv'
  BY <1>0, <1>4, TakeInKeepsExcess DEF AddBlock, faults, ExcessInv, ExcessOver
<1>5. CASE PutBlock
  BY <1>5, PersistingKeepsExcess DEF PutBlock, Write, memory, faults, Persisting
<1>6. CASE SetBlockAtHeight
  BY <1>6, PersistingKeepsExcess DEF SetBlockAtHeight, Write, memory, faults, Persisting
<1>7. CASE SetTip
  BY <1>7, PersistingKeepsExcess DEF SetTip, Write, memory, faults, Persisting
<1>8. CASE SetHeight
  BY <1>8, PersistingKeepsExcess DEF SetHeight, Write, memory, faults, Persisting
<1>9. CASE RemoveUtxo \/ PutUtxo
  BY <1>9, PersistingKeepsExcess DEF RemoveUtxo, PutUtxo, Write, memory, faults, Persisting
<1>10. CASE Finish
  BY <1>0, <1>10 DEF Finish, faults, ExcessInv, ExcessOver, Persisting
<1>11. CASE GetTipFails
  <2>1. Len(tracked) = 0 /\ failures' = failures + 1
    BY <1>11 DEF GetTipFails, Fail, ExcessInv
  <2>2. QED
    BY <1>0, <1>11, <2>1, TakeInKeepsExcess, BlocksAssumption DEF GetTipFails
<1>11h. ASSUME NEW b \in Block, HasBlockFails(b) PROVE ExcessInv'
  <2>1. failures' = failures + 1 /\ Len(tracked) - (height + 1) \in 0 .. failures
    BY <1>11h DEF HasBlockFails, Fail, ExcessInv, ExcessOver
  <2>2. QED
    BY <1>0, <1>11h, <2>1, TakeInKeepsExcess DEF HasBlockFails
<1>12. CASE AddBlockFails
  <2>1. newHeight = height + 1 /\ ExcessOver(newHeight) \in 0 .. failures
    BY <1>0, <1>12 DEF AddBlockFails, ErrorReturns, ExcessInv
  <2>2. /\ pc' = "idle" /\ failures' = failures + 1
        /\ height' = height /\ tracked' = tracked
    BY <1>12 DEF AddBlockFails, Fail, memory
  <2>3. QED BY <1>0, <2>1, <2>2 DEF ExcessInv, ExcessOver, Persisting
<1>13. CASE InitGenesisFails \/ Crash \/ Quit
  BY <1>13 DEF InitGenesisFails, Crash, Quit, Stopped, ExcessInv, Persisting
<1>14. CASE RemoveUtxoLost
  <2>1. ExcessOver(newHeight) \in 0 .. failures
    BY <1>14 DEF RemoveUtxoLost, ExcessInv, Persisting
  <2>2. /\ pc' = "persist_utxos" /\ failures' = failures + 1
        /\ newHeight' = newHeight /\ tracked' = tracked
    BY <1>14 DEF RemoveUtxoLost, Fail, memory
  <2>3. QED BY <1>0, <2>1, <2>2 DEF ExcessInv, ExcessOver, Persisting
<1>15. CASE UNCHANGED vars
  BY <1>15 DEF vars, process, memory, faults, ExcessInv, ExcessOver, Persisting
<1>16. QED
  BY <1>1, <1>2, <1>3, <1>4, <1>5, <1>6, <1>7, <1>8, <1>9, <1>10, <1>11, <1>11h, <1>12,
     <1>13, <1>14, <1>15 DEF Next

(* pow.rs:176 has one entry of LWMA data per block of the chain; add_block  *)
(* pushes it before the writes that may fail (blockchain.rs:128-137).  The  *)
(* entries are never fewer than the blocks, and each error leaves at most   *)
(* one too many: those returned to a running process, and those has_block   *)
(* misreads as "not stored" (blockchain.rs:112), by which a block may be    *)
(* pushed a second time.                                                    *)
THEOREM LwmaDataFollows == Spec => []LwmaDataExcess
<1>1. Init => ExcessInv
  BY DEF Init, ExcessInv, Persisting
<1>2. DiskInv /\ ExcessInv /\ [Next]_vars => ExcessInv'
  BY NextExcessInv
<1>3. ExcessInv => LwmaDataExcess
  BY DEF ExcessInv, ExcessOver, LwmaDataExcess
<1>4. QED BY <1>1, <1>2, <1>3, InitDiskInv, NextDiskInv, PTL DEF Spec

-----------------------------------------------------------------------------
(* Recovery: with crashes at every step, a restart loads what the process   *)
(* had, or a prefix of it whose distance is known; and, before the first    *)
(* fault, the chain implements the abstract ledger.                         *)

(* What an operation on the tree "utxos" is: a removal for an input of a    *)
(* transaction that is no coinbase, or an insertion for an output.          *)
LEMMA OpsOfBody ==
    ASSUME NEW b \in Block, NEW op \in UtxoOps(Body[b])
    PROVE  /\ op[1] \in DOMAIN Body[b] /\ op[1] \in Nat /\ op[3] \in Nat
           /\ \/ /\ op[2] = "remove" /\ ~ IsCoinbase(Body[b][op[1]])
                 /\ op[3] \in DOMAIN Inputs[Body[b][op[1]]]
              \/ op[2] = "put" /\ op[3] \in DOMAIN Outputs[Body[b][op[1]]]
<1>1. Body[b] \in Seq(Tx)
  BY BlocksAssumption
<1>2. \A i \in DOMAIN Body[b] :
          /\ i \in Nat /\ Body[b][i] \in Tx
          /\ DOMAIN Inputs[Body[b][i]] \subseteq Nat
          /\ DOMAIN Outputs[Body[b][i]] \subseteq Nat
  <2>1. \A i \in DOMAIN Body[b] : i \in Nat /\ Body[b][i] \in Tx
    BY <1>1
  <2>2. \A t \in Tx : DOMAIN Inputs[t] \subseteq Nat
    BY LedgerAssumption
  <2>3. \A t \in Tx : DOMAIN Outputs[t] \subseteq Nat
    BY LedgerAssumption
  <2>4. QED BY <2>1, <2>2, <2>3, Zenon
<1>3. CASE op \in Removals(Body[b])
  <2>1. PICK i \in { j \in DOMAIN Body[b] : ~ IsCoinbase(Body[b][j]) } :
            op \in { <<i, "remove", k>> : k \in DOMAIN Inputs[Body[b][i]] }
    BY <1>3 DEF Removals
  <2>2. QED BY <1>2, <2>1
<1>4. CASE op \in Insertions(Body[b])
  <2>1. PICK i \in DOMAIN Body[b] :
            op \in { <<i, "put", k>> : k \in DOMAIN Outputs[Body[b][i]] }
    BY <1>4 DEF Insertions
  <2>2. QED BY <1>2, <2>1
<1>5. QED BY <1>3, <1>4 DEF UtxoOps

(* The order in which the operations of a block are made is one.            *)
LEMMA BeforeAsymmetric ==
    ASSUME NEW b \in Block, NEW p \in UtxoOps(Body[b]), NEW q \in UtxoOps(Body[b]),
           Before(p, q)
    PROVE  ~ Before(q, p)
<1>1. p[1] \in Nat /\ p[3] \in Nat /\ q[1] \in Nat /\ q[3] \in Nat
  BY OpsOfBody
<1>2. QED BY <1>1 DEF Before

-----------------------------------------------------------------------------
(* The UTXO tree on disk and the operations it still waits for              *)

PutsOf(o) == { op \in pending : op[2] = "put" /\ PutBy(op) = o }
RemovalsOf(o) == { op \in pending : op[2] = "remove" /\ RemovedBy(op) = o }

\* An outpoint will be in the tree once the pending operations are made: it is
\* there or will be put, and no removal of it is the last word.
WillHold(o) ==
    /\ o \in disk.utxos \/ PutsOf(o) # {}
    /\ \A r \in RemovalsOf(o) : \E p \in PutsOf(o) : Before(r, p)

(* The operations a block starts with lead the tree to the set that         *)
(* apply_block_utxos computes in memory.                                    *)
LEMMA OpsApplyBlock ==
    ASSUME NEW b \in Block, NEW h, TakeIn(b, h), disk.utxos = utxo_set,
           utxo_set \subseteq OutPoint
    PROVE  utxo_set' = { o \in OutPoint : WillHold(o)' }
<1> DEFINE body == Body[b]
           puts(o) == { op \in UtxoOps(body) :
                            op[2] = "put" /\ <<body[op[1]], OutputIndex(op[3])>> = o }
           removals(o) == { op \in UtxoOps(body) :
                            op[2] = "remove" /\ OutPointOf(Inputs[body[op[1]]][op[3]]) = o }
<1>0. body \in Seq(Tx) /\ \A i \in DOMAIN body : i \in Nat
  BY BlocksAssumption
<1>1. \A o, i : (i \in DOMAIN body /\ o \in Created(body[i]))
                    <=> \E p \in puts(o) : p[1] = i
  <2>1. ASSUME NEW o, NEW i \in DOMAIN body, o \in Created(body[i])
        PROVE  \E p \in puts(o) : p[1] = i
    <3>1. PICK k \in DOMAIN Outputs[body[i]] : o = <<body[i], OutputIndex(k)>>
      BY <2>1 DEF Created
    <3>2. <<i, "put", k>> \in UtxoOps(body)
      BY <3>1 DEF UtxoOps, Insertions
    <3>3. <<i, "put", k>> \in puts(o)
      BY <3>1, <3>2
    <3>4. QED BY <3>3
  <2>2. ASSUME NEW o, NEW p \in puts(o)
        PROVE  p[1] \in DOMAIN body /\ o \in Created(body[p[1]])
    BY <2>2, OpsOfBody DEF Created
  <2>3. QED BY <2>1, <2>2
<1>2. \A o, i : (i \in DOMAIN body /\ o \in Spent(body[i]))
                    <=> \E r \in removals(o) : r[1] = i
  <2>1. ASSUME NEW o, NEW i \in DOMAIN body, o \in Spent(body[i])
        PROVE  \E r \in removals(o) : r[1] = i
    <3>1. ~ IsCoinbase(body[i])
      BY <2>1 DEF Spent
    <3>2. PICK k \in DOMAIN Inputs[body[i]] : o = OutPointOf(Inputs[body[i]][k])
      BY <2>1, <3>1 DEF Spent
    <3>3. <<i, "remove", k>> \in UtxoOps(body)
      BY <3>1, <3>2 DEF UtxoOps, Removals
    <3>4. <<i, "remove", k>> \in removals(o)
      BY <3>2, <3>3
    <3>5. QED BY <3>4
  <2>2. ASSUME NEW o, NEW r \in removals(o)
        PROVE  r[1] \in DOMAIN body /\ o \in Spent(body[r[1]])
    BY <2>2, OpsOfBody DEF Spent
  <2>3. QED BY <2>1, <2>2
<1>3. \A o : \A r \in removals(o), p \in puts(o) :
          Before(r, p) <=> p[1] \in r[1] .. Len(body)
  <2>1. ASSUME NEW o, NEW r \in removals(o), NEW p \in puts(o)
        PROVE  Before(r, p) <=> p[1] \in r[1] .. Len(body)
    <3>1. r[1] \in Nat /\ p[1] \in DOMAIN body /\ r[2] = "remove" /\ p[2] = "put"
      BY OpsOfBody
    <3>2. p[1] \in Nat /\ p[1] <= Len(body) /\ Len(body) \in Nat
      BY <1>0, <3>1
    <3>3. QED BY <3>1, <3>2 DEF Before
  <2>2. QED BY <2>1
<1>4. \A o : /\ PutsOf(o)' = puts(o) /\ RemovalsOf(o)' = removals(o)
             /\ disk' = disk
  BY DEF TakeIn, PutsOf, RemovalsOf, PutBy, RemovedBy
<1>5. utxo_set' = { o \in utxo_set \cup UNION { Created(body[i]) : i \in DOMAIN body } :
            \A j \in DOMAIN body :
                o \in Spent(body[j]) => \E i \in j .. Len(body) : o \in Created(body[i]) }
  BY DEF TakeIn, ApplyBlockUtxos
<1>6. UNION { Created(body[i]) : i \in DOMAIN body } \subseteq OutPoint
  BY <1>0 DEF OutPoint
<1> HIDE DEF body, puts, removals
<1>7. ASSUME NEW o PROVE
          o \in UNION { Created(body[i]) : i \in DOMAIN body } <=> puts(o) # {}
  <2>1. o \in UNION { Created(body[i]) : i \in DOMAIN body }
            <=> \E i : i \in DOMAIN body /\ o \in Created(body[i])
    OBVIOUS
  <2>2. (\E i : i \in DOMAIN body /\ o \in Created(body[i]))
            <=> \E i : \E p \in puts(o) : p[1] = i
    BY <1>1
  <2>3. QED BY <2>1, <2>2
<1>8. ASSUME NEW o
      PROVE  (\A j \in DOMAIN body :
                 o \in Spent(body[j]) => \E i \in j .. Len(body) : o \in Created(body[i]))
             <=> \A r \in removals(o) : \E p \in puts(o) : Before(r, p)
  <2>1. ASSUME \A j \in DOMAIN body :
                   o \in Spent(body[j]) => \E i \in j .. Len(body) : o \in Created(body[i]),
               NEW r \in removals(o)
        PROVE  \E p \in puts(o) : Before(r, p)
    <3>1. r[1] \in DOMAIN body /\ o \in Spent(body[r[1]])
      BY <1>2
    <3>2. PICK i \in r[1] .. Len(body) : o \in Created(body[i])
      BY <2>1, <3>1
    <3>3. i \in DOMAIN body
      BY <1>0, <3>1
    <3>4. PICK p \in puts(o) : p[1] = i
      BY <1>1, <3>2, <3>3
    <3>5. QED BY <1>3, <3>4
  <2>2. ASSUME \A r \in removals(o) : \E p \in puts(o) : Before(r, p),
               NEW j \in DOMAIN body, o \in Spent(body[j])
        PROVE  \E i \in j .. Len(body) : o \in Created(body[i])
    <3>1. PICK r \in removals(o) : r[1] = j
      BY <1>2, <2>2
    <3>2. PICK p \in puts(o) : Before(r, p)
      BY <2>2
    <3>3. p[1] \in j .. Len(body) /\ o \in Created(body[p[1]])
      BY <1>1, <1>3, <3>1, <3>2
    <3>4. QED BY <3>3
  <2>3. QED BY <2>1, <2>2
<1>9. ASSUME NEW o
      PROVE  WillHold(o)' <=> /\ o \in utxo_set \/ puts(o) # {}
                              /\ \A r \in removals(o) : \E p \in puts(o) : Before(r, p)
  BY <1>4 DEF WillHold
<1>10. QED
  <2>1. ASSUME NEW o PROVE o \in utxo_set' <=> o \in OutPoint /\ WillHold(o)'
    BY <1>5, <1>6, <1>7, <1>8, <1>9
  <2>2. QED BY <2>1

(* Taking the first pending operation off the list changes the puts or the  *)
(* removals of one outpoint only.                                           *)
LEMMA OpsLeft ==
    ASSUME NEW op \in pending, pending' = pending \ {op}, adding' = adding
    PROVE  \A o : PutsOf(o)' = PutsOf(o) \ {op} /\ RemovalsOf(o)' = RemovalsOf(o) \ {op}
BY DEF PutsOf, RemovalsOf, PutBy, RemovedBy

(* Making a removal when it is its turn changes nothing about where the     *)
(* tree is going: what is put later is still to be put.                     *)
LEMMA RemovalInTurn ==
    ASSUME adding' = adding, NEW op, IsNext(op), op[2] = "remove",
           pending' = pending \ {op}, disk'.utxos = disk.utxos \ {RemovedBy(op)}
    PROVE  \A o : WillHold(o)' <=> WillHold(o)
<1>0. op \in pending
  BY DEF IsNext
<1>1. ASSUME NEW o PROVE WillHold(o)' <=> WillHold(o)
  <2>1. PutsOf(o)' = PutsOf(o) /\ RemovalsOf(o)' = RemovalsOf(o) \ {op}
    BY <1>0, OpsLeft DEF PutsOf
  <2>2. CASE o = RemovedBy(op)
    <3>1. op \in RemovalsOf(o) /\ o \notin disk'.utxos
      BY <1>0, <2>2 DEF RemovalsOf
    <3>2. \A p \in PutsOf(o) : Before(op, p)
      BY DEF IsNext, PutsOf
    <3>3. QED BY <2>1, <3>1, <3>2 DEF WillHold
  <2>3. CASE o # RemovedBy(op)
    <3>1. op \notin RemovalsOf(o) /\ (o \in disk'.utxos <=> o \in disk.utxos)
      BY <2>3 DEF RemovalsOf
    <3>2. QED BY <2>1, <3>1 DEF WillHold
  <2>4. QED BY <2>2, <2>3
<1>2. QED BY <1>1

(* Nor does an insertion: a removal still to come has its own insertion.    *)
LEMMA InsertionInTurn ==
    ASSUME adding' = adding, adding \in Block, pending \subseteq UtxoOps(Body[adding]),
           NEW op, IsNext(op), op[2] = "put",
           pending' = pending \ {op}, disk'.utxos = disk.utxos \cup {PutBy(op)}
    PROVE  \A o : WillHold(o)' <=> WillHold(o)
<1>0. op \in pending
  BY DEF IsNext
<1>1. ASSUME NEW o PROVE WillHold(o)' <=> WillHold(o)
  <2>1. PutsOf(o)' = PutsOf(o) \ {op} /\ RemovalsOf(o)' = RemovalsOf(o)
    BY <1>0, OpsLeft DEF RemovalsOf
  <2>2. CASE o = PutBy(op)
    <3>1. op \in PutsOf(o) /\ o \in disk'.utxos
      BY <1>0, <2>2 DEF PutsOf
    <3>2. \A r \in RemovalsOf(o) : r \in pending /\ r # op
      BY DEF RemovalsOf
    <3>3. \A r \in RemovalsOf(o) : Before(op, r)
      BY <3>2 DEF IsNext
    <3>4. \A r \in RemovalsOf(o) : ~ Before(r, op)
      BY <1>0, <3>2, <3>3, BeforeAsymmetric
    <3>5. QED BY <2>1, <3>1, <3>4 DEF WillHold
  <2>3. CASE o # PutBy(op)
    <3>1. op \notin PutsOf(o) /\ (o \in disk'.utxos <=> o \in disk.utxos)
      BY <2>3 DEF PutsOf
    <3>2. QED BY <2>1, <3>1 DEF WillHold
  <2>4. QED BY <2>2, <2>3
<1>2. QED BY <1>1

-----------------------------------------------------------------------------
(* A database without a tip holds no outputs                                *)

\* init_genesis starts from an empty UTXO set and takes the tree for empty: it is,
\* for the tip is written before the first output.
Blank(d) == d.tip = NoBlock => d.utxos = {} /\ d.height = NoHeight

BlankInv ==
    /\ \A d \in recoverable \cup {disk} : Blank(d)
    /\ pc \in { "set_height", "persist_utxos" } => disk.tip # NoBlock

(* A write of a disk that is blank or has a tip.                            *)
LEMMA WriteKeepsBlank ==
    ASSUME BlankInv, NEW d, Write(d), Blank(d),
           pc' \in { "set_height", "persist_utxos" } => d.tip # NoBlock
    PROVE  BlankInv'
BY DEF BlankInv, Blank, Write

LEMMA NextBlankInv == TypeOK /\ BlankInv /\ [Next]_vars => BlankInv'
<1> SUFFICES ASSUME TypeOK, BlankInv, [Next]_vars PROVE BlankInv'
  OBVIOUS
<1>0. /\ disk \in Disk /\ Blank(disk) /\ adding \in MaybeBlock
      /\ Persisting => adding # NoBlock
      /\ pc \in { "set_height", "persist_utxos" } => disk.tip # NoBlock
  BY BlocksAssumption DEF TypeOK, BlankInv
<1>1. CASE PutBlock
  <2> DEFINE d == [disk EXCEPT !.blocks = @ \cup {adding}]
  <2>1. d.tip = disk.tip /\ d.height = disk.height /\ d.utxos = disk.utxos
    BY <1>0 DEF Disk
  <2>2. Write(d) /\ pc' = "set_block_at_height"
    BY <1>1 DEF PutBlock
  <2> HIDE DEF d
  <2>3. QED BY <1>0, <2>1, <2>2, WriteKeepsBlank DEF Blank
<1>2. CASE SetBlockAtHeight
  <2> DEFINE d == [disk EXCEPT !.index[newHeight] = adding]
  <2>1. d.tip = disk.tip /\ d.height = disk.height /\ d.utxos = disk.utxos
    BY <1>0 DEF Disk
  <2>2. Write(d) /\ pc' = "set_tip"
    BY <1>2 DEF SetBlockAtHeight
  <2> HIDE DEF d
  <2>3. QED BY <1>0, <2>1, <2>2, WriteKeepsBlank DEF Blank
<1>3. CASE SetTip
  <2> DEFINE d == [disk EXCEPT !.tip = adding]
  <2>1. d.tip # NoBlock
    BY <1>0, <1>3 DEF SetTip, Persisting, Disk
  <2>2. Write(d)
    BY <1>3 DEF SetTip
  <2> HIDE DEF d
  <2>3. QED BY <2>1, <2>2, WriteKeepsBlank DEF Blank
<1>4. CASE SetHeight
  <2> DEFINE d == [disk EXCEPT !.height = newHeight]
  <2>1. d.tip # NoBlock
    BY <1>0, <1>4 DEF SetHeight, Disk
  <2>2. Write(d)
    BY <1>4 DEF SetHeight
  <2> HIDE DEF d
  <2>3. QED BY <2>1, <2>2, WriteKeepsBlank DEF Blank
<1>5. CASE RemoveUtxo \/ PutUtxo
  <2>1. PICK utxos : Write([disk EXCEPT !.utxos = utxos])
    BY <1>0, <1>5 DEF RemoveUtxo, PutUtxo, Disk
  <2> DEFINE d == [disk EXCEPT !.utxos = utxos]
  <2>2. d.tip # NoBlock
    BY <1>0, <1>5 DEF RemoveUtxo, PutUtxo, Disk
  <2>3. Write(d)
    BY <2>1
  <2> HIDE DEF d
  <2>4. QED BY <2>2, <2>3, WriteKeepsBlank DEF Blank
<1>6. CASE /\ disk' \in recoverable \cup {disk}
           /\ recoverable' \subseteq recoverable \cup {disk}
           /\ pc' \in { "set_height", "persist_utxos" } => pc' = pc /\ disk' = disk
  BY <1>6 DEF BlankInv
<1>7. ASSUME NEW b \in Block, AddBlock(b) \/ HasBlockFails(b) PROVE BlankInv'
  BY <1>6, <1>7 DEF AddBlock, HasBlockFails, TakeIn
<1>8. CASE Load \/ LoadFails \/ InitGenesis \/ GetTipFails \/ UNCHANGED vars
  BY <1>6, <1>8 DEF Load, LoadFails, InitGenesis, GetTipFails, TakeIn, vars, process
<1>9. CASE Finish \/ AddBlockFails \/ RemoveUtxoLost
  BY <1>6, <1>9 DEF Finish, AddBlockFails, RemoveUtxoLost
<1>10. CASE InitGenesisFails \/ Crash \/ Quit
  BY <1>6, <1>10 DEF InitGenesisFails, Crash, Quit, Stopped
<1>11. QED
  BY <1>1, <1>2, <1>3, <1>4, <1>5, <1>7, <1>8, <1>9, <1>10 DEF Next

LEMMA InitBlankInv == Init => BlankInv
BY DEF Init, EmptyDisk, BlankInv, Blank

-----------------------------------------------------------------------------
(* Without storage errors, memory and disk agree                            *)

IndexedTo(n) == [ i \in 1 .. n |-> disk.index[i - 1] ]

TipNotWritten == pc \in { "put_block", "set_block_at_height", "set_tip" }

\* MemoryMatchesDisk says this of an idle process.  In a call, the memory is what
\* the disk will be after the writes that are left; without a process there is
\* no memory.
MemoryInv ==
    /\ pc = "down" => utxo_set = {} /\ tracked = << >>
    /\ pc = "idle" =>
          /\ tip \in Block /\ tip = disk.tip /\ height = disk.height
          /\ utxo_set = disk.utxos
          /\ tracked = IndexedTo(height + 1)
    /\ Persisting =>
          /\ utxo_set = { o \in OutPoint : WillHold(o) }
          /\ tracked = Append(IndexedTo(newHeight), adding)
          /\ IF TipNotWritten THEN Prev[adding] = disk.tip ELSE disk.tip = adding
          /\ newHeight = IF pc = "persist_utxos" THEN disk.height ELSE disk.height + 1

(* A call starts with the memory one block ahead of the disk.               *)
LEMMA TakeInKeepsMemory ==
    ASSUME TypeOK, NEW b \in Block, NEW h \in Heights, TakeIn(b, h),
           disk.utxos = utxo_set, tracked = IndexedTo(h), Prev[b] = disk.tip,
           h = disk.height + 1
    PROVE  MemoryInv'
<1>1. utxo_set' = { o \in OutPoint : WillHold(o)' }
  BY OpsApplyBlock DEF TypeOK
<1>2. utxo_set' = { o \in OutPoint : WillHold(o) }'
  BY <1>1
<1>3. tracked' = Append(IndexedTo(newHeight)', adding')
  BY DEF TakeIn, IndexedTo
<1>4. pc' = "put_block" /\ adding' = b /\ newHeight' = h /\ disk' = disk
  BY DEF TakeIn
<1>5. QED BY <1>2, <1>3, <1>4 DEF MemoryInv, Persisting, TipNotWritten

(* A write outside the tree "utxos" keeps the memory ahead of the disk.     *)
LEMMA MetaWriteKeepsMemory ==
    ASSUME MemoryInv, Persisting, Persisting', NEW d, Write(d), pending' = pending,
           d.utxos = disk.utxos,
           \A i \in 1 .. newHeight : d.index[i - 1] = disk.index[i - 1],
           IF TipNotWritten' THEN Prev[adding] = d.tip ELSE d.tip = adding,
           newHeight = IF pc' = "persist_utxos" THEN d.height ELSE d.height + 1
    PROVE  MemoryInv'
<1>1. /\ disk' = d /\ adding' = adding /\ newHeight' = newHeight
      /\ utxo_set' = utxo_set /\ tracked' = tracked
  BY DEF Write, memory
<1>2. \A o : PutsOf(o)' = PutsOf(o) /\ RemovalsOf(o)' = RemovalsOf(o)
  BY <1>1 DEF PutsOf, RemovalsOf, PutBy, RemovedBy
<1>3. \A o : WillHold(o)' <=> WillHold(o)
  BY <1>1, <1>2 DEF WillHold
<1>4. utxo_set' = { o \in OutPoint : WillHold(o) }'
  <2>1. utxo_set = { o \in OutPoint : WillHold(o) }
    BY DEF MemoryInv
  <2>2. { o \in OutPoint : WillHold(o) } = { o \in OutPoint : WillHold(o)' }
    BY <1>3
  <2>3. QED BY <1>1, <2>1, <2>2
<1>5. IndexedTo(newHeight)' = IndexedTo(newHeight)
  BY <1>1 DEF IndexedTo
<1>6. tracked' = Append(IndexedTo(newHeight)', adding')
  BY <1>1, <1>5 DEF MemoryInv
<1>7. pc' # "down" /\ pc' # "idle"
  BY DEF Persisting
<1>8. QED BY <1>1, <1>4, <1>6, <1>7 DEF MemoryInv

(* So does a write of the tree that was next in turn.                       *)
LEMMA UtxoWriteKeepsMemory ==
    ASSUME MemoryInv, disk \in Disk, pc = "persist_utxos", pc' = pc, NEW utxos,
           Write([disk EXCEPT !.utxos = utxos]),
           \A o : WillHold(o)' <=> WillHold(o)
    PROVE  MemoryInv'
<1> DEFINE d == [disk EXCEPT !.utxos = utxos]
<1>1. /\ d.index = disk.index /\ d.tip = disk.tip /\ d.height = disk.height
  BY DEF Disk
<1>2. /\ disk' = d /\ adding' = adding /\ newHeight' = newHeight
      /\ utxo_set' = utxo_set /\ tracked' = tracked
  BY DEF Write, memory
<1> HIDE DEF d
<1>3. Persisting /\ Persisting' /\ ~ TipNotWritten /\ ~ TipNotWritten'
  BY DEF Persisting, TipNotWritten
<1>4. utxo_set' = { o \in OutPoint : WillHold(o) }'
  <2>1. utxo_set = { o \in OutPoint : WillHold(o) }
    BY <1>3 DEF MemoryInv
  <2>2. { o \in OutPoint : WillHold(o) } = { o \in OutPoint : WillHold(o)' }
    OBVIOUS
  <2>3. QED BY <1>2, <2>1, <2>2
<1>5. tracked' = Append(IndexedTo(newHeight)', adding')
  BY <1>1, <1>2, <1>3 DEF MemoryInv, IndexedTo
<1>6. disk'.tip = adding' /\ newHeight' = disk'.height
  BY <1>1, <1>2, <1>3 DEF MemoryInv
<1>7. QED BY <1>3, <1>4, <1>5, <1>6 DEF MemoryInv

LEMMA NextMemoryInv ==
    ASSUME DiskInv, BlankInv, failures = 0, failures' = 0, MemoryInv, [Next]_vars
    PROVE  MemoryInv'
<1>0. /\ TypeOK /\ disk \in Disk /\ newHeight \in Heights /\ height \in Heights
      /\ Persisting => adding \in Block /\ pending \subseteq UtxoOps(Body[adding])
      /\ disk.utxos \subseteq OutPoint
  BY DEF DiskInv, TypeOK, Disk
<1>1. CASE Load
  <2>1. disk.tip \in Block
    BY <1>0, <1>1 DEF Load, Disk, MaybeBlock
  <2>2. tracked' = IndexedTo(height + 1)'
    BY <1>1 DEF Load, IndexedTo
  <2>3. QED BY <1>1, <2>1, <2>2 DEF Load, MemoryInv, Persisting
<1>2. CASE InitGenesis
  <2>1. disk.height + 1 = 0 /\ disk.utxos = {} /\ utxo_set = {} /\ tracked = << >>
    BY <1>2 DEF InitGenesis, BlankInv, Blank, NoHeight, MemoryInv
  <2>2. IndexedTo(0) = << >>
    BY DEF IndexedTo
  <2>3. Genesis \in Block /\ 0 \in Heights /\ Prev[Genesis] = disk.tip
    BY <1>2, BlocksAssumption, ChainAssumption DEF InitGenesis, Heights
  <2>4. QED BY <1>0, <1>2, <2>1, <2>2, <2>3, TakeInKeepsMemory DEF InitGenesis
<1>3. ASSUME NEW b \in Block, AddBlock(b) PROVE MemoryInv'
  <2>1. height + 1 \in Heights
    BY <1>0, <1>3, ChainAssumption DEF AddBlock, Heights
  <2>2. /\ height = disk.height /\ disk.utxos = utxo_set /\ Prev[b] = disk.tip
        /\ tracked = IndexedTo(height + 1)
    BY <1>3 DEF AddBlock, MemoryInv
  <2>3. QED BY <1>0, <1>3, <2>1, <2>2, TakeInKeepsMemory DEF AddBlock
<1>4. CASE PutBlock
  <2> DEFINE d == [disk EXCEPT !.blocks = @ \cup {adding}]
  <2>1. /\ d.utxos = disk.utxos /\ d.index = disk.index
        /\ d.tip = disk.tip /\ d.height = disk.height
    BY <1>0 DEF Disk
  <2>2. /\ Write(d) /\ pc' = "set_block_at_height" /\ pending' = pending
        /\ Persisting /\ Persisting' /\ TipNotWritten /\ TipNotWritten'
        /\ pc # "persist_utxos"
    BY <1>4 DEF PutBlock, Persisting, TipNotWritten
  <2> HIDE DEF d
  <2>3. QED BY <2>1, <2>2, MetaWriteKeepsMemory DEF MemoryInv
<1>5. CASE SetBlockAtHeight
  <2> DEFINE d == [disk EXCEPT !.index[newHeight] = adding]
  <2>1. /\ d.utxos = disk.utxos /\ d.tip = disk.tip /\ d.height = disk.height
        /\ \A h \in Heights \ {newHeight} : d.index[h] = disk.index[h]
    BY <1>0 DEF Disk
  <2>2. /\ Write(d) /\ pc' = "set_tip" /\ pending' = pending
        /\ Persisting /\ Persisting' /\ TipNotWritten /\ TipNotWritten'
        /\ pc # "persist_utxos"
    BY <1>5 DEF SetBlockAtHeight, Persisting, TipNotWritten
  <2> HIDE DEF d
  <2>3. \A i \in 1 .. newHeight : d.index[i - 1] = disk.index[i - 1]
    BY <1>0, <2>1, ChainAssumption DEF Heights
  <2>4. QED BY <2>1, <2>2, <2>3, MetaWriteKeepsMemory DEF MemoryInv
<1>6. CASE SetTip
  <2> DEFINE d == [disk EXCEPT !.tip = adding]
  <2>1. /\ d.utxos = disk.utxos /\ d.index = disk.index
        /\ d.tip = adding /\ d.height = disk.height
    BY <1>0 DEF Disk
  <2>2. /\ Write(d) /\ pc' = "set_height" /\ pending' = pending
        /\ Persisting /\ Persisting' /\ ~ TipNotWritten' /\ pc # "persist_utxos"
    BY <1>6 DEF SetTip, Persisting, TipNotWritten
  <2> HIDE DEF d
  <2>3. QED BY <2>1, <2>2, MetaWriteKeepsMemory DEF MemoryInv
<1>7. CASE SetHeight
  <2> DEFINE d == [disk EXCEPT !.height = newHeight]
  <2>1. /\ d.utxos = disk.utxos /\ d.index = disk.index
        /\ d.tip = disk.tip /\ d.height = newHeight
    BY <1>0 DEF Disk
  <2>2. /\ Write(d) /\ pc' = "persist_utxos" /\ pending' = pending
        /\ Persisting /\ Persisting' /\ ~ TipNotWritten /\ ~ TipNotWritten'
    BY <1>7 DEF SetHeight, Persisting, TipNotWritten
  <2> HIDE DEF d
  <2>3. QED BY <2>1, <2>2, MetaWriteKeepsMemory DEF MemoryInv
<1>8. CASE RemoveUtxo
  <2>1. PICK op \in pending :
            /\ IsNext(op) /\ op[2] = "remove" /\ pending' = pending \ {op}
            /\ Write([disk EXCEPT !.utxos = @ \ {RemovedBy(op)}])
    BY <1>8 DEF RemoveUtxo
  <2>2. /\ Write([disk EXCEPT !.utxos = disk.utxos \ {RemovedBy(op)}])
        /\ disk'.utxos = disk.utxos \ {RemovedBy(op)}
    BY <1>0, <2>1 DEF Disk, Write
  <2>3. adding' = adding
    BY <2>1 DEF Write
  <2>4. \A o : WillHold(o)' <=> WillHold(o)
    BY <2>1, <2>2, <2>3, RemovalInTurn
  <2>5. QED BY <1>0, <1>8, <2>2, <2>4, UtxoWriteKeepsMemory DEF RemoveUtxo
<1>9. CASE PutUtxo
  <2>1. PICK op \in pending :
            /\ IsNext(op) /\ op[2] = "put" /\ pending' = pending \ {op}
            /\ Write([disk EXCEPT !.utxos = @ \cup {PutBy(op)}])
    BY <1>9 DEF PutUtxo
  <2>2. /\ Write([disk EXCEPT !.utxos = disk.utxos \cup {PutBy(op)}])
        /\ disk'.utxos = disk.utxos \cup {PutBy(op)}
    BY <1>0, <2>1 DEF Disk, Write
  <2>3. adding' = adding /\ adding \in Block /\ pending \subseteq UtxoOps(Body[adding])
    BY <1>0, <1>9, <2>1 DEF Write, PutUtxo, Persisting
  <2>4. \A o : WillHold(o)' <=> WillHold(o)
    BY <2>1, <2>2, <2>3, InsertionInTurn
  <2>5. QED BY <1>0, <1>9, <2>2, <2>4, UtxoWriteKeepsMemory DEF PutUtxo
<1>10. CASE Finish
  <2>1. /\ Persisting /\ pc = "persist_utxos" /\ ~ TipNotWritten /\ adding \in Block
        /\ pending = {}
    BY <1>0, <1>10 DEF Finish, Persisting, TipNotWritten
  <2>2. \A o \in OutPoint : WillHold(o) <=> o \in disk.utxos
    BY <2>1 DEF WillHold, PutsOf, RemovalsOf
  <2>3. utxo_set = disk.utxos
    BY <1>0, <2>1, <2>2 DEF MemoryInv
  <2>4. disk.index[newHeight] = adding /\ newHeight \in Nat
    BY <1>0, <2>1, ChainAssumption DEF DiskInv, WritesInOrder, Heights
  <2>5. tracked = IndexedTo(newHeight + 1)
    <3>1. tracked = Append(IndexedTo(newHeight), adding)
      BY <2>1 DEF MemoryInv
    <3>2. QED BY <2>4, <3>1 DEF IndexedTo
  <2>6. /\ disk' = disk /\ utxo_set' = utxo_set /\ tracked' = tracked
        /\ tip' = adding /\ height' = newHeight /\ pc' = "idle"
    BY <1>10 DEF Finish
  <2>7. disk.tip = adding /\ disk.height = newHeight
    BY <2>1 DEF MemoryInv
  <2>8. tracked' = IndexedTo(height + 1)'
    BY <2>5, <2>6 DEF IndexedTo
  <2>9. QED BY <2>1, <2>3, <2>6, <2>7, <2>8 DEF MemoryInv, Persisting
<1>11. CASE Crash \/ Quit
  BY <1>11 DEF Crash, Quit, Stopped, MemoryInv, Persisting
<1>12. CASE LoadFails \/ UNCHANGED vars
  <2>1. UNCHANGED vars
    BY <1>12 DEF LoadFails
  <2>2. \A o : WillHold(o)' <=> WillHold(o)
    BY <2>1 DEF vars, process, WillHold, PutsOf, RemovalsOf, PutBy, RemovedBy
  <2>3. { o \in OutPoint : WillHold(o) }' = { o \in OutPoint : WillHold(o) }
    BY <2>2
  <2>4. \A n : IndexedTo(n)' = IndexedTo(n)
    BY <2>1 DEF vars, IndexedTo
  <2>5. QED BY <2>1, <2>3, <2>4 DEF vars, process, memory, MemoryInv, Persisting, TipNotWritten
<1>13. CASE \/ GetTipFails \/ AddBlockFails \/ InitGenesisFails \/ RemoveUtxoLost
            \/ \E b \in Block : HasBlockFails(b)
  BY <1>13 DEF GetTipFails, HasBlockFails, AddBlockFails, InitGenesisFails, RemoveUtxoLost, Fail
<1>14. QED
  BY <1>1, <1>2, <1>3, <1>4, <1>5, <1>6, <1>7, <1>8, <1>9, <1>10, <1>11, <1>12, <1>13
     DEF Next

FaultlessInv == DiskInv /\ BlankInv /\ (failures = 0 => MemoryInv)

LEMMA InitFaultlessInv == Init => FaultlessInv
<1> SUFFICES ASSUME Init PROVE FaultlessInv
  OBVIOUS
<1>1. MemoryInv
  BY DEF Init, MemoryInv, Persisting
<1>2. QED BY <1>1, InitDiskInv, InitBlankInv DEF FaultlessInv

(* The storage errors of a behaviour are counted and never forgotten.       *)
LEMMA FailuresStay ==
    ASSUME TypeOK, [Next]_vars, failures' = 0
    PROVE  failures = 0
<1>1. failures \in Nat
  BY ChainAssumption DEF TypeOK
<1>2. failures' = failures \/ failures' = failures + 1
  BY DEF Next, Load, LoadFails, InitGenesis, AddBlock, PutBlock, SetBlockAtHeight, SetTip,
         SetHeight, RemoveUtxo, PutUtxo, Finish, GetTipFails, HasBlockFails,
         AddBlockFails, InitGenesisFails, RemoveUtxoLost, Crash, Quit, Write, Fail, vars, faults
<1>3. QED BY <1>1, <1>2

LEMMA NextFaultlessInv == FaultlessInv /\ [Next]_vars => FaultlessInv'
<1> SUFFICES ASSUME FaultlessInv, [Next]_vars PROVE FaultlessInv'
  OBVIOUS
<1>1. DiskInv' /\ BlankInv' /\ TypeOK
  BY NextDiskInv, NextBlankInv DEF FaultlessInv, DiskInv
<1>2. failures' = 0 => MemoryInv'
  BY <1>1, FailuresStay, NextMemoryInv DEF FaultlessInv
<1>3. QED BY <1>1, <1>2 DEF FaultlessInv

(* As long as no storage error was reported or swallowed, whatever the      *)
(* crashes, an idle process holds in memory exactly what a restart would    *)
(* load: tip, height, UTXO set and LWMA data (blockchain.rs:55-105 against  *)
(* 124-142).                                                                *)
THEOREM MemoryFollowsDisk == Spec => [](failures = 0 => MemoryMatchesDisk)
<1>1. FaultlessInv => (failures = 0 => MemoryMatchesDisk)
  BY DEF FaultlessInv, MemoryInv, MemoryMatchesDisk, IndexedTo
<1>2. QED BY <1>1, InitFaultlessInv, NextFaultlessInv, PTL DEF Spec

-----------------------------------------------------------------------------
(* Branches                                                                 *)

\* The blocks from genesis to b, none without a block.
Branch(b) == IF b = NoBlock THEN {} ELSE ToSet(Ancestry[b])

(* A block is the last one of its branch, which is that of its parent and   *)
(* the block.                                                               *)
LEMMA BranchStep ==
    ASSUME NEW b \in Block
    PROVE  /\ Branch(b) = Branch(Prev[b]) \cup {b}
           /\ Depth(b) \in Nat
           /\ Prev[b] = NoBlock => Depth(b) = 0
           /\ Prev[b] # NoBlock => Prev[b] \in Block /\ Depth(b) = Depth(Prev[b]) + 1
<1>1. b # NoBlock /\ Prev[b] \in Block \cup {NoBlock} /\ NoBlock \notin Block
  BY BlocksAssumption
<1>2. CASE Prev[b] = NoBlock
  <2>1. Ancestry[b] = <<b>>
    BY <1>1, <1>2, AncestryAssumption
  <2>2. ToSet(<<b>>) = {b} /\ Len(<<b>>) = 1
    BY DEF ToSet
  <2>3. QED BY <1>1, <1>2, <2>1, <2>2 DEF Branch, Depth
<1>3. CASE Prev[b] # NoBlock
  <2> DEFINE s == Ancestry[Prev[b]]
  <2>1. Prev[b] \in Block
    BY <1>1, <1>3
  <2>2. Ancestry[b] = Append(s, b) /\ s \in Seq(Block)
    BY <2>1, AncestryAssumption
  <2>3. s # << >>
    <3>1. s = <<Prev[b]>> \/ \E r \in Seq(Block) : s = Append(r, Prev[b])
      BY <2>1, BlocksAssumption, AncestryAssumption
    <3>2. CASE s = <<Prev[b]>>
      BY <3>2
    <3>3. ASSUME NEW r \in Seq(Block), s = Append(r, Prev[b]) PROVE s # << >>
      <4> HIDE DEF s
      <4>1. QED BY <2>1, <3>3, AppendProperties
    <3>4. QED BY <3>1, <3>2, <3>3
  <2> HIDE DEF s
  <2>4. Len(s) \in Nat /\ Len(s) # 0 /\ Len(Append(s, b)) = Len(s) + 1
    BY <2>2, <2>3, EmptySeq
  <2>5. ToSet(Append(s, b)) = ToSet(s) \cup {b}
    <3>1. DOMAIN Append(s, b) = DOMAIN s \cup {Len(s) + 1}
      BY <2>2, <2>4
    <3>2. (\A i \in DOMAIN s : Append(s, b)[i] = s[i]) /\ Append(s, b)[Len(s) + 1] = b
      BY <2>2, <2>4
    <3>3. QED BY <3>1, <3>2 DEF ToSet
  <2>6. Branch(b) = ToSet(Append(s, b)) /\ Branch(Prev[b]) = ToSet(s)
    BY <1>1, <1>3, <2>2 DEF Branch, s
  <2>7. Depth(b) = Len(Append(s, b)) - 1 /\ Depth(Prev[b]) = Len(s) - 1
    BY <2>2 DEF Depth, s
  <2>8. QED BY <1>3, <2>1, <2>4, <2>5, <2>6, <2>7
<1>4. QED BY <1>2, <1>3

(* The block of a tip is on its own branch.                                 *)
LEMMA TipOnBranch == \A b \in Block : b \in Branch(b)
BY BranchStep

-----------------------------------------------------------------------------
(* What a crash may cost                                                    *)

\* The blocks stored that the chain of the tip does not hold.
Stranded(d) == d.blocks \ Branch(d.tip)

LagIn(d, n) == d.tip # NoBlock => Depth(d.tip) - d.height \in 0 .. n

Recovers(d, n) ==
    /\ IsFiniteSet(d.blocks)
    /\ Cardinality(Stranded(d)) <= n
    /\ LagIn(d, n)

\* Every disk a crash may leave is on the branch of the one the process sees, and
\* the height behind its tip and the blocks beside its branch are one crash more
\* than the crashes so far account for.  The one more is the block of the call
\* in progress, so it is none for a process at rest.
RecoveryInv ==
    /\ \A d \in recoverable \cup {disk} :
          Recovers(d, crashes + 1) /\ (d.tip # NoBlock => d.tip \in Branch(disk.tip))
    /\ ~ Persisting => Recovers(disk, crashes)
    /\ Persisting =>
          /\ Cardinality(Stranded(disk) \ {adding}) <= crashes
          /\ IF pc = "set_height" THEN Depth(disk.tip) > disk.height
                                  ELSE LagIn(disk, crashes)

(* A bound on what is stranded and on the lag holds for every larger one.   *)
LEMMA RecoversMonotonic ==
    ASSUME NEW d, NEW n \in Nat, Recovers(d, n), d.tip # NoBlock => d.height \in Int
    PROVE  Recovers(d, n + 1)
<1>1. Cardinality(Stranded(d)) \in Nat
  BY FS_Subset, FS_CardinalityType DEF Recovers, Stranded
<1>2. d.tip # NoBlock => Depth(d.tip) - d.height \in 0 .. n + 1
  BY DEF Recovers, LagIn
<1>3. QED BY <1>1, <1>2 DEF Recovers, LagIn

(* A write that extends the branch of the tip, if it changes it, and        *)
(* strands no other block than the one being added.                         *)
LEMMA WriteKeepsRecovery ==
    ASSUME RecoveryInv, crashes \in Nat, Persisting, Persisting', NEW d, Write(d),
           IsFiniteSet(d.blocks), Stranded(d) \subseteq Stranded(disk) \cup {adding},
           Branch(disk.tip) \subseteq Branch(d.tip),
           d.tip # NoBlock => d.tip \in Branch(d.tip),
           LagIn(d, crashes + 1),
           IF pc' = "set_height" THEN Depth(d.tip) > d.height ELSE LagIn(d, crashes)
    PROVE  RecoveryInv'
<1>1. /\ disk' = d /\ recoverable' = recoverable \cup {d}
      /\ adding' = adding /\ crashes' = crashes
  BY DEF Write, faults
<1>2. IsFiniteSet(Stranded(disk) \ {adding}) /\ IsFiniteSet(Stranded(d))
  <2>1. IsFiniteSet(disk.blocks)
    BY DEF RecoveryInv, Recovers
  <2>2. Stranded(disk) \ {adding} \subseteq disk.blocks /\ Stranded(d) \subseteq d.blocks
    BY DEF Stranded
  <2>3. QED BY <2>1, <2>2, FS_Subset
<1>3. Stranded(d) \ {adding} \subseteq Stranded(disk) \ {adding}
  OBVIOUS
<1>4. /\ Cardinality(Stranded(disk) \ {adding}) \in Nat
      /\ Cardinality(Stranded(disk) \ {adding}) <= crashes
  BY <1>2, FS_CardinalityType DEF RecoveryInv
<1>5. /\ Cardinality(Stranded(d) \ {adding}) \in Nat
      /\ Cardinality(Stranded(d) \ {adding}) <= crashes
  BY <1>2, <1>3, <1>4, FS_Subset, FS_CardinalityType
<1>6. Cardinality(Stranded(d)) <= crashes + 1
  <2>1. IsFiniteSet(Stranded(d) \ {adding})
    BY <1>2, FS_RemoveElement
  <2>2. Stranded(d) \subseteq (Stranded(d) \ {adding}) \cup {adding}
    OBVIOUS
  <2>3. /\ IsFiniteSet((Stranded(d) \ {adding}) \cup {adding})
        /\ Cardinality((Stranded(d) \ {adding}) \cup {adding})
               <= Cardinality(Stranded(d) \ {adding}) + 1
    <3> DEFINE S == Stranded(d) \ {adding}
    <3>1. IsFiniteSet(S) /\ Cardinality(S) \in Nat
      BY <1>5, <2>1
    <3> HIDE DEF S
    <3>2. /\ IsFiniteSet(S \cup {adding})
          /\ Cardinality(S \cup {adding}) = IF adding \in S THEN Cardinality(S) ELSE Cardinality(S) + 1
      BY <3>1, FS_AddElement
    <3>3. Cardinality(S \cup {adding}) <= Cardinality(S) + 1
      BY <3>1, <3>2
    <3>4. QED BY <3>2, <3>3 DEF S
  <2>4. /\ Cardinality(Stranded(d)) <= Cardinality((Stranded(d) \ {adding}) \cup {adding})
        /\ Cardinality(Stranded(d)) \in Nat
        /\ Cardinality((Stranded(d) \ {adding}) \cup {adding}) \in Nat
    BY <1>2, <2>2, <2>3, FS_Subset, FS_CardinalityType
  <2>5. QED BY <1>5, <2>3, <2>4
<1>7. Recovers(d, crashes + 1)
  BY <1>6 DEF Recovers
<1>8. ASSUME NEW e \in recoverable \cup {disk} \cup {d}
      PROVE  Recovers(e, crashes + 1) /\ (e.tip # NoBlock => e.tip \in Branch(d.tip))
  BY <1>7 DEF RecoveryInv
<1>9. QED BY <1>1, <1>5, <1>8 DEF RecoveryInv

(* A step that writes nothing: what was said of the disk still is.          *)
LEMMA NoWriteKeepsRecovery ==
    ASSUME RecoveryInv, disk' = disk, recoverable' \subseteq recoverable \cup {disk},
           crashes' = crashes,
           ~ Persisting' => Recovers(disk, crashes),
           Persisting' => /\ Cardinality(Stranded(disk) \ {adding'}) <= crashes
                          /\ pc' # "set_height" /\ LagIn(disk, crashes)
    PROVE  RecoveryInv'
BY DEF RecoveryInv

(* A process at rest starts a call without any effect on what is stored.    *)
LEMMA TakeInKeepsRecovery ==
    ASSUME RecoveryInv, ~ Persisting, crashes \in Nat, crashes' = crashes,
           NEW b, NEW h, TakeIn(b, h)
    PROVE  RecoveryInv'
<1>1. Recovers(disk, crashes)
  BY DEF RecoveryInv
<1>2. Cardinality(Stranded(disk) \ {b}) <= crashes
  <2>1. Stranded(disk) \subseteq disk.blocks /\ Stranded(disk) \ {b} \subseteq Stranded(disk)
    BY DEF Stranded
  <2>2. IsFiniteSet(Stranded(disk)) /\ IsFiniteSet(Stranded(disk) \ {b})
    BY <1>1, <2>1, FS_Subset DEF Recovers
  <2>3. Cardinality(Stranded(disk) \ {b}) <= Cardinality(Stranded(disk))
    BY <2>1, <2>2, FS_Subset
  <2>4. Cardinality(Stranded(disk) \ {b}) \in Nat /\ Cardinality(Stranded(disk)) \in Nat
    BY <2>2, FS_CardinalityType
  <2>5. QED BY <1>1, <2>3, <2>4 DEF Recovers
<1>3. disk' = disk /\ recoverable' = recoverable /\ adding' = b /\ pc' = "put_block"
  BY DEF TakeIn
<1>4. Persisting'
  BY <1>3 DEF Persisting
<1>5. QED BY <1>1, <1>2, <1>3, <1>4, NoWriteKeepsRecovery DEF Recovers

LEMMA NextRecoveryInv ==
    ASSUME DiskInv, BlankInv, failures = 0, failures' = 0, MemoryInv, RecoveryInv,
           [Next]_vars
    PROVE  RecoveryInv'
<1>0. /\ TypeOK /\ disk \in Disk /\ newHeight \in Heights /\ crashes \in Nat
      /\ Persisting => adding \in Block
      /\ disk.tip \in Block \cup {NoBlock} /\ NoBlock \notin Block
      /\ disk.height \in Int
      /\ \A d \in recoverable \cup {disk} : d.height \in Int
      /\ Blank(disk)
  <2>1. Heights \subseteq Int /\ NoHeight \in Int
    BY ChainAssumption DEF Heights, NoHeight
  <2>2. \A d \in Disk : d.height \in Int
    BY <2>1 DEF Disk
  <2>3. /\ TypeOK /\ disk \in Disk /\ newHeight \in Heights /\ crashes \in Nat
        /\ Persisting => adding \in Block
        /\ recoverable \cup {disk} \subseteq Disk
    BY ChainAssumption DEF DiskInv, TypeOK
  <2>4. disk.tip \in Block \cup {NoBlock} /\ NoBlock \notin Block
    BY <2>3, BlocksAssumption DEF Disk, MaybeBlock
  <2>5. Blank(disk)
    BY DEF BlankInv
  <2>6. QED BY <2>2, <2>3, <2>4, <2>5
<1>a. /\ IsFiniteSet(disk.blocks)
      /\ disk.tip # NoBlock => disk.tip \in Branch(disk.tip)
      /\ LagIn(disk, crashes + 1)
      /\ Persisting /\ pc # "set_height" => LagIn(disk, crashes)
  BY DEF RecoveryInv, Recovers
<1>1. CASE Load
  BY <1>1, NoWriteKeepsRecovery DEF Load, RecoveryInv, Persisting, faults
<1>2. CASE InitGenesis
  BY <1>0, <1>2, TakeInKeepsRecovery DEF InitGenesis, Persisting, faults
<1>3. ASSUME NEW b \in Block, AddBlock(b) PROVE RecoveryInv'
  BY <1>0, <1>3, TakeInKeepsRecovery DEF AddBlock, Persisting, faults
<1>4. CASE PutBlock
  <2> DEFINE d == [disk EXCEPT !.blocks = @ \cup {adding}]
  <2>1. d.blocks = disk.blocks \cup {adding} /\ d.tip = disk.tip /\ d.height = disk.height
    BY <1>0 DEF Disk
  <2>2. Write(d) /\ pc' = "set_block_at_height" /\ Persisting /\ Persisting'
        /\ pc # "set_height"
    BY <1>4 DEF PutBlock, Persisting
  <2> HIDE DEF d
  <2>3. IsFiniteSet(d.blocks)
    BY <1>a, <2>1, FS_AddElement
  <2>4. Stranded(d) \subseteq Stranded(disk) \cup {adding}
    BY <2>1 DEF Stranded
  <2>5. LagIn(d, crashes + 1) /\ LagIn(d, crashes)
    BY <1>a, <2>1, <2>2 DEF LagIn
  <2>6. QED BY <1>0, <1>a, <2>1, <2>2, <2>3, <2>4, <2>5, WriteKeepsRecovery
<1>5. CASE SetBlockAtHeight
  <2> DEFINE d == [disk EXCEPT !.index[newHeight] = adding]
  <2>1. d.blocks = disk.blocks /\ d.tip = disk.tip /\ d.height = disk.height
    BY <1>0 DEF Disk
  <2>2. Write(d) /\ pc' = "set_tip" /\ Persisting /\ Persisting' /\ pc # "set_height"
    BY <1>5 DEF SetBlockAtHeight, Persisting
  <2> HIDE DEF d
  <2>3. Stranded(d) \subseteq Stranded(disk) \cup {adding}
    BY <2>1 DEF Stranded
  <2>4. LagIn(d, crashes + 1) /\ LagIn(d, crashes)
    BY <1>a, <2>1, <2>2 DEF LagIn
  <2>5. QED BY <1>0, <1>a, <2>1, <2>2, <2>3, <2>4, WriteKeepsRecovery
<1>6. CASE SetTip
  <2> DEFINE d == [disk EXCEPT !.tip = adding]
  <2>1. d.blocks = disk.blocks /\ d.tip = adding /\ d.height = disk.height
    BY <1>0 DEF Disk
  <2>2. Write(d) /\ pc' = "set_height" /\ Persisting /\ Persisting' /\ TipNotWritten
        /\ pc = "set_tip" /\ adding \in Block
    BY <1>0, <1>6 DEF SetTip, Persisting, TipNotWritten
  <2> HIDE DEF d
  <2>3. Prev[adding] = disk.tip
    BY <2>2 DEF MemoryInv
  <2>4. Branch(d.tip) = Branch(disk.tip) \cup {adding}
    BY <2>1, <2>2, <2>3, BranchStep
  <2>5. Stranded(d) \subseteq Stranded(disk) \cup {adding}
    BY <2>1, <2>4 DEF Stranded
  <2>6. Depth(adding) - disk.height \in 1 .. crashes + 1
    <3>1. CASE disk.tip = NoBlock
      <4>1. Depth(adding) = 0 /\ disk.height = -1
        BY <1>0, <2>2, <2>3, <3>1, BranchStep DEF Blank, NoHeight
      <4>2. QED BY <1>0, <4>1
    <3>2. CASE disk.tip # NoBlock
      <4>1. Depth(adding) = Depth(disk.tip) + 1 /\ disk.tip \in Block
        BY <2>2, <2>3, <3>2, BranchStep
      <4>2. Depth(disk.tip) \in Nat
        BY <4>1, BranchStep
      <4>3. Depth(disk.tip) - disk.height \in 0 .. crashes
        BY <1>a, <2>2, <3>2 DEF LagIn
      <4>4. QED BY <1>0, <4>1, <4>2, <4>3
    <3>3. QED BY <3>1, <3>2
  <2>7. LagIn(d, crashes + 1) /\ Depth(d.tip) > d.height
    <3>1. Depth(adding) \in Nat
      BY <2>2, BranchStep
    <3>2. QED BY <1>0, <2>1, <2>6, <3>1 DEF LagIn
  <2>8. QED BY <1>0, <1>a, <2>1, <2>2, <2>4, <2>5, <2>7, WriteKeepsRecovery
<1>7. CASE SetHeight
  <2> DEFINE d == [disk EXCEPT !.height = newHeight]
  <2>1. d.blocks = disk.blocks /\ d.tip = disk.tip /\ d.height = newHeight
    BY <1>0 DEF Disk
  <2>2. Write(d) /\ pc' = "persist_utxos" /\ Persisting /\ Persisting'
        /\ pc = "set_height"
    BY <1>7 DEF SetHeight, Persisting
  <2> HIDE DEF d
  <2>3. Stranded(d) \subseteq Stranded(disk) \cup {adding}
    BY <2>1 DEF Stranded
  <2>4. newHeight = disk.height + 1 /\ disk.tip # NoBlock /\ disk.tip = adding
        /\ adding \in Block
    BY <1>0, <2>2, BlocksAssumption DEF MemoryInv, TipNotWritten
  <2>5. Depth(adding) - disk.height \in 1 .. crashes + 1
    <3>1. Depth(adding) - disk.height \in 0 .. crashes + 1 /\ Depth(adding) \in Nat
      BY <1>a, <2>4, BranchStep DEF LagIn
    <3>2. Depth(adding) > disk.height
      BY <2>2, <2>4 DEF RecoveryInv
    <3>3. QED BY <1>0, <3>1, <3>2
  <2>6. LagIn(d, crashes + 1) /\ LagIn(d, crashes)
    <3>1. Depth(adding) \in Nat
      BY <2>4, BranchStep
    <3>2. QED BY <1>0, <2>1, <2>4, <2>5, <3>1 DEF LagIn
  <2>7. QED BY <1>0, <1>a, <2>1, <2>2, <2>3, <2>6, WriteKeepsRecovery
<1>8. CASE RemoveUtxo \/ PutUtxo
  <2>1. PICK utxos : Write([disk EXCEPT !.utxos = utxos])
    BY <1>0, <1>8 DEF RemoveUtxo, PutUtxo, Disk
  <2> DEFINE d == [disk EXCEPT !.utxos = utxos]
  <2>2. d.blocks = disk.blocks /\ d.tip = disk.tip /\ d.height = disk.height
    BY <1>0 DEF Disk
  <2>3. Write(d) /\ pc' = pc /\ Persisting /\ Persisting' /\ pc # "set_height"
    BY <1>8, <2>1 DEF RemoveUtxo, PutUtxo, Persisting
  <2> HIDE DEF d
  <2>4. Stranded(d) \subseteq Stranded(disk) \cup {adding}
    BY <2>2 DEF Stranded
  <2>5. LagIn(d, crashes + 1) /\ LagIn(d, crashes)
    BY <1>a, <2>2, <2>3 DEF LagIn
  <2>6. QED BY <1>0, <1>a, <2>2, <2>3, <2>4, <2>5, WriteKeepsRecovery
<1>9. CASE Finish
  <2>1. Persisting /\ ~ TipNotWritten /\ pc # "set_height" /\ adding \in Block
    BY <1>0, <1>9 DEF Finish, Persisting, TipNotWritten
  <2>2. adding \in Branch(disk.tip)
    BY <2>1, TipOnBranch DEF MemoryInv
  <2>3. Stranded(disk) \ {adding} = Stranded(disk)
    BY <2>2 DEF Stranded
  <2>4. Recovers(disk, crashes)
    BY <1>a, <2>1, <2>3 DEF RecoveryInv, Recovers
  <2>5. QED BY <1>9, <2>4, NoWriteKeepsRecovery DEF Finish, Persisting, faults
<1>10. CASE Crash
  <2>1. PICK d \in recoverable : disk' = d /\ recoverable' = {d}
    BY <1>10 DEF Crash
  <2>2. crashes' = crashes + 1 /\ ~ Persisting'
    BY <1>10 DEF Crash, Stopped, Persisting
  <2>3. Recovers(d, crashes + 1)
    BY <2>1 DEF RecoveryInv
  <2>4. Recovers(d, crashes + 1 + 1)
    BY <1>0, <2>1, <2>3, RecoversMonotonic
  <2>5. d.tip # NoBlock => d.tip \in Branch(d.tip)
    BY <1>0, <2>1, TipOnBranch DEF TypeOK, Disk, MaybeBlock
  <2>6. QED BY <2>1, <2>2, <2>3, <2>4, <2>5 DEF RecoveryInv
<1>11. CASE Quit
  BY <1>11, NoWriteKeepsRecovery DEF Quit, Stopped, RecoveryInv, Persisting, faults
<1>12. CASE LoadFails \/ UNCHANGED vars
  <2>1. UNCHANGED vars
    BY <1>12 DEF LoadFails
  <2>2. Persisting' <=> Persisting
    BY <2>1 DEF vars, process, Persisting
  <2>3. QED BY <2>1, <2>2 DEF vars, process, faults, RecoveryInv
<1>13. CASE \/ GetTipFails \/ AddBlockFails \/ InitGenesisFails \/ RemoveUtxoLost
            \/ \E b \in Block : HasBlockFails(b)
  BY <1>13 DEF GetTipFails, HasBlockFails, AddBlockFails, InitGenesisFails, RemoveUtxoLost, Fail
<1>14. QED
  BY <1>1, <1>2, <1>3, <1>4, <1>5, <1>6, <1>7, <1>8, <1>9, <1>10, <1>11, <1>12, <1>13
     DEF Next

FaultlessRecovery == FaultlessInv /\ (failures = 0 => RecoveryInv)

LEMMA InitFaultlessRecovery == Init => FaultlessRecovery
<1> SUFFICES ASSUME Init PROVE FaultlessRecovery
  OBVIOUS
<1>1. /\ EmptyDisk.tip = NoBlock /\ EmptyDisk.blocks = {}
      /\ disk = EmptyDisk /\ recoverable = {EmptyDisk} /\ crashes = 0 /\ pc = "down"
  BY DEF Init, EmptyDisk
<1>2. Stranded(EmptyDisk) = {} /\ IsFiniteSet({}) /\ Cardinality({}) = 0
  BY <1>1, FS_EmptySet DEF Stranded
<1>3. Recovers(EmptyDisk, 0) /\ Recovers(EmptyDisk, 0 + 1)
  BY <1>1, <1>2 DEF Recovers, LagIn
<1>4. RecoveryInv
  BY <1>1, <1>3 DEF RecoveryInv, Persisting
<1>5. QED BY <1>4, InitFaultlessInv DEF FaultlessRecovery

LEMMA NextFaultlessRecovery == FaultlessRecovery /\ [Next]_vars => FaultlessRecovery'
<1> SUFFICES ASSUME FaultlessRecovery, [Next]_vars PROVE FaultlessRecovery'
  OBVIOUS
<1>1. failures' = 0 => failures = 0
  BY FailuresStay DEF FaultlessRecovery, FaultlessInv, DiskInv
<1>2. failures' = 0 => RecoveryInv'
  BY <1>1, NextRecoveryInv DEF FaultlessRecovery, FaultlessInv
<1>3. QED BY <1>2, NextFaultlessInv DEF FaultlessRecovery

(* An idle process that met no storage error counts at most one height too  *)
(* few for each crash, and never one too many: set_height comes right after *)
(* set_tip (blockchain.rs:135-136), and what a crash between the two lost   *)
(* is never made up for.                                                    *)
THEOREM HeightFollowsTip == Spec => []HeightLag
<1>1. FaultlessRecovery => HeightLag
  <2> SUFFICES ASSUME FaultlessRecovery, pc = "idle", failures = 0
               PROVE  Depth(tip) - height \in 0 .. crashes
    BY DEF HeightLag
  <2>1. ~ Persisting /\ RecoveryInv /\ MemoryInv /\ NoBlock \notin Block
    BY BlocksAssumption DEF Persisting, FaultlessRecovery, FaultlessInv
  <2>2. tip = disk.tip /\ height = disk.height /\ disk.tip # NoBlock
    BY <2>1 DEF MemoryInv
  <2>3. QED BY <2>1, <2>2 DEF RecoveryInv, Recovers, LagIn
<1>2. QED BY <1>1, InitFaultlessRecovery, NextFaultlessRecovery, PTL DEF Spec

(* has_block refuses a stored block for ever (blockchain.rs:110), so one    *)
(* that a crash left beside the chain is lost to it: with no storage error  *)
(* there is at most one for each crash, that of the call it cut short.      *)
THEOREM FewBlocksStranded == Spec => []StrandedBlocks
<1>1. FaultlessRecovery => StrandedBlocks
  <2> SUFFICES ASSUME FaultlessRecovery, pc = "idle", failures = 0
               PROVE  Cardinality(disk.blocks \ ToSet(Ancestry[tip])) <= crashes
    BY DEF StrandedBlocks
  <2>1. ~ Persisting /\ RecoveryInv /\ MemoryInv /\ NoBlock \notin Block
    BY BlocksAssumption DEF Persisting, FaultlessRecovery, FaultlessInv
  <2>2. tip = disk.tip /\ disk.tip # NoBlock
    BY <2>1 DEF MemoryInv
  <2>3. Stranded(disk) = disk.blocks \ ToSet(Ancestry[tip])
    BY <2>2 DEF Stranded, Branch
  <2>4. QED BY <2>1, <2>3 DEF RecoveryInv, Recovers
<1>2. QED BY <1>1, InitFaultlessRecovery, NextFaultlessRecovery, PTL DEF Spec

(* A crash at any step of add_block or init_genesis leaves the chain of the *)
(* disk or a prefix of it, never another branch.                            *)
THEOREM CrashLeavesPrefix == Spec => CrashKeepsPrefix
<1>1. ASSUME FaultlessRecovery, [Next]_vars, pc # "down", pc' = "down",
             disk'.tip # NoBlock, failures = 0
      PROVE  disk'.tip \in ToSet(Ancestry[disk.tip])
  <2>1. disk' \in recoverable \cup {disk}
    BY <1>1 DEF Next, Load, LoadFails, InitGenesis, AddBlock, TakeIn, PutBlock,
                SetBlockAtHeight, SetTip, SetHeight, RemoveUtxo, PutUtxo, Finish,
                GetTipFails, HasBlockFails, AddBlockFails, InitGenesisFails,
                RemoveUtxoLost, Crash, Quit, vars, process
  <2>2. disk'.tip \in Branch(disk.tip)
    BY <1>1, <2>1 DEF FaultlessRecovery, RecoveryInv
  <2>3. QED BY <2>2 DEF Branch
<1>2. FaultlessRecovery /\ [Next]_vars =>
          [ pc # "down" /\ pc' = "down" /\ disk'.tip # NoBlock /\ failures = 0
                => disk'.tip \in ToSet(Ancestry[disk.tip]) ]_vars
  BY <1>1
<1>3. QED BY <1>2, InitFaultlessRecovery, NextFaultlessRecovery, PTL DEF Spec, CrashKeepsPrefix

-----------------------------------------------------------------------------
(* The UTXO index and the whole chain                                       *)

(* What it says of one outpoint that it is in the set.                      *)
LEMMA InReplay ==
    ASSUME NEW s, NEW o
    PROVE  o \in Replay(s) <=>
               \E i \in DOMAIN s :
                   /\ o \in ApplyBlockUtxos({}, Body[s[i]])
                   /\ \A j \in i + 1 .. Len(s) : o \in ApplyBlockUtxos({o}, Body[s[j]])
<1> DEFINE good(i, p) == \A j \in i + 1 .. Len(s) : p \in ApplyBlockUtxos({p}, Body[s[j]])
           from(i) == { p \in ApplyBlockUtxos({}, Body[s[i]]) : good(i, p) }
<1>1. Replay(s) = UNION { from(i) : i \in DOMAIN s }
  BY DEF Replay
<1>2. \A i : o \in from(i) <=> o \in ApplyBlockUtxos({}, Body[s[i]]) /\ good(i, o)
  OBVIOUS
<1> HIDE DEF from
<1>3. o \in Replay(s) <=> \E i \in DOMAIN s : o \in from(i)
  BY <1>1
<1>4. QED BY <1>2, <1>3

(* Replaying one block more applies it to what the others leave.            *)
LEMMA ReplayStep ==
    ASSUME NEW s \in Seq(Block), NEW b \in Block
    PROVE  /\ Replay(<< >>) = {}
           /\ Replay(Append(s, b)) = ApplyBlockUtxos(Replay(s), Body[b])
<1> DEFINE t == Append(s, b)
           n == Len(s)
           left(i, o) == o \in ApplyBlockUtxos({}, Body[t[i]])
           stays(j, o) == o \in ApplyBlockUtxos({o}, Body[t[j]])
<1>1. Replay(<< >>) = {}
  BY DEF Replay
<1>2. /\ n \in Nat /\ DOMAIN s = 1 .. n /\ DOMAIN t = 1 .. n + 1 /\ Len(t) = n + 1
      /\ \A i \in 1 .. n : t[i] = s[i]
      /\ t[n + 1] = b
  OBVIOUS
<1> HIDE DEF t, n
<1>3. ASSUME NEW o
      PROVE  o \in Replay(t) <=> \E i \in 1 .. n + 1 : left(i, o) /\ \A j \in i + 1 .. n + 1 : stays(j, o)
  BY <1>2, InReplay
<1>4. ASSUME NEW o
      PROVE  o \in Replay(s) <=> \E i \in 1 .. n : left(i, o) /\ \A j \in i + 1 .. n : stays(j, o)
  <2>1. o \in Replay(s) <=>
            \E i \in 1 .. n : /\ o \in ApplyBlockUtxos({}, Body[s[i]])
                              /\ \A j \in i + 1 .. n : o \in ApplyBlockUtxos({o}, Body[s[j]])
    BY <1>2, InReplay DEF n
  <2>2. \A i \in 1 .. n : left(i, o) <=> o \in ApplyBlockUtxos({}, Body[s[i]])
    BY <1>2
  <2>3. \A i \in 1 .. n : \A j \in i + 1 .. n :
            stays(j, o) <=> o \in ApplyBlockUtxos({o}, Body[s[j]])
    BY <1>2
  <2> HIDE DEF left, stays
  <2>4. QED BY <2>1, <2>2, <2>3
<1>5. ASSUME NEW o
      PROVE  o \in ApplyBlockUtxos(Replay(s), Body[b])
                 <=> left(n + 1, o) \/ (o \in Replay(s) /\ stays(n + 1, o))
  BY <1>2 DEF ApplyBlockUtxos
<1>6. ASSUME NEW o
      PROVE  o \in Replay(t) <=> left(n + 1, o) \/ (o \in Replay(s) /\ stays(n + 1, o))
  <2> HIDE DEF left, stays
  <2>1. \A i \in 1 .. n :
            (\A j \in i + 1 .. n + 1 : stays(j, o))
                <=> (\A j \in i + 1 .. n : stays(j, o)) /\ stays(n + 1, o)
    BY <1>2
  <2>2. \A j \in n + 1 + 1 .. n + 1 : FALSE
    BY <1>2
  <2>3. (\E i \in 1 .. n + 1 : left(i, o) /\ \A j \in i + 1 .. n + 1 : stays(j, o))
            <=> \/ \E i \in 1 .. n : left(i, o) /\ \A j \in i + 1 .. n + 1 : stays(j, o)
                \/ left(n + 1, o)
    BY <1>2, <2>2
  <2>4. QED BY <1>3, <1>4, <2>1, <2>3
<1>7. Replay(t) = ApplyBlockUtxos(Replay(s), Body[b])
  <2> HIDE DEF left, stays
  <2>1. \A o : o \in Replay(t) <=> o \in ApplyBlockUtxos(Replay(s), Body[b])
    BY <1>5, <1>6
  <2>2. QED BY <2>1
<1>8. QED BY <1>1, <1>7 DEF t

(* The sequence up to a block is the one up to its parent and the block.    *)
LEMMA AncestryStep ==
    ASSUME NEW b \in Block
    PROVE  /\ Ancestry[b] \in Seq(Block) /\ Ancestry[b] # << >>
           /\ Ancestry[b][Len(Ancestry[b])] = b
           /\ Prev[b] = NoBlock => Ancestry[b] = Append(<< >>, b)
           /\ Prev[b] # NoBlock => Ancestry[b] = Append(Ancestry[Prev[b]], b)
           /\ Front(Ancestry[b]) = IF Prev[b] = NoBlock THEN << >> ELSE Ancestry[Prev[b]]
<1>1. PICK s \in Seq(Block) :
          /\ Ancestry[b] = Append(s, b)
          /\ s = IF Prev[b] = NoBlock THEN << >> ELSE Ancestry[Prev[b]]
  <2>1. CASE Prev[b] = NoBlock
    <3>1. Ancestry[b] = Append(<< >>, b) /\ << >> \in Seq(Block)
      BY <2>1, BlocksAssumption, AncestryAssumption
    <3>2. WITNESS << >> \in Seq(Block)
    <3>3. QED BY <2>1, <3>1
  <2>2. CASE Prev[b] # NoBlock
    <3>1. Prev[b] \in Block
      BY <2>2, BlocksAssumption
    <3>2. Ancestry[b] = Append(Ancestry[Prev[b]], b) /\ Ancestry[Prev[b]] \in Seq(Block)
      BY <3>1, AncestryAssumption
    <3>3. QED BY <2>2, <3>2
  <2>3. QED BY <2>1, <2>2
<1>2. /\ Append(s, b) \in Seq(Block) /\ Append(s, b) # << >>
      /\ Len(Append(s, b)) = Len(s) + 1 /\ Append(s, b)[Len(s) + 1] = b
  BY AppendProperties
<1>3. Front(Append(s, b)) = s
  <2>1. Front(Append(s, b)) = SubSeq(Append(s, b), 1, Len(s))
    BY <1>2 DEF Front
  <2>2. QED BY <2>1
<1>4. QED BY <1>1, <1>2, <1>3

-----------------------------------------------------------------------------
(* Before the first fault                                                   *)

\* What TornByOneBlock says of a disk that a crash may leave.
Torn(d) ==
    d.tip # NoBlock =>
        LET before == Replay(Front(Ancestry[d.tip]))
        IN  /\ before \ OutPointsSpentBy(d.tip) \subseteq d.utxos
            /\ d.utxos \subseteq before \cup OutPointsCreatedBy(d.tip)

\* UtxoIsReplay says the first part of an idle process.  In a call the blocks taken
\* in are those up to the new one, and the tree is still the one before it until
\* the tip is written; on a disk no process has open the two agree.
ReplayInv ==
    /\ pc = "idle" => tracked = Ancestry[tip]
    /\ Persisting => tracked = Ancestry[adding]
    /\ pc # "down" => utxo_set = Replay(tracked)
    /\ TipNotWritten => disk.utxos = Replay(Front(Ancestry[adding]))
    /\ pc = "down" /\ disk.tip # NoBlock =>
          DiskChain = Ancestry[disk.tip] /\ disk.utxos = Replay(DiskChain)
    /\ \A d \in recoverable \cup {disk} : Torn(d)

(* A call takes its block in on top of the blocks that were there.          *)
LEMMA TakeInKeepsReplay ==
    ASSUME ReplayInv, NEW b \in Block, NEW h, TakeIn(b, h), tracked \in Seq(Block),
           Ancestry[b] = Append(tracked, b), Front(Ancestry[b]) = tracked,
           utxo_set = Replay(tracked), disk.utxos = utxo_set
    PROVE  ReplayInv'
<1>1. /\ disk' = disk /\ recoverable' = recoverable /\ adding' = b
      /\ pc' = "put_block" /\ tracked' = Append(tracked, b)
      /\ utxo_set' = ApplyBlockUtxos(utxo_set, Body[b])
  BY DEF TakeIn
<1>2. utxo_set' = Replay(tracked')
  BY <1>1, ReplayStep
<1>3. Persisting' /\ pc' # "idle" /\ pc' # "down"
  BY <1>1 DEF Persisting
<1>4. QED BY <1>1, <1>2, <1>3 DEF ReplayInv

(* A write leaves on disk a state that is torn by at most the last block.   *)
LEMMA WriteKeepsReplay ==
    ASSUME ReplayInv, Persisting, Persisting', NEW d, Write(d), Torn(d),
           TipNotWritten' => TipNotWritten /\ d.utxos = disk.utxos
    PROVE  ReplayInv'
<1>1. /\ disk' = d /\ recoverable' = recoverable \cup {d} /\ adding' = adding
      /\ utxo_set' = utxo_set /\ tracked' = tracked
  BY DEF Write, memory
<1>2. pc # "idle" /\ pc # "down" /\ pc' # "idle" /\ pc' # "down"
  BY DEF Persisting
<1>3. QED BY <1>1, <1>2 DEF ReplayInv

LEMMA NextReplayInv ==
    ASSUME DiskInv, BlankInv, MemoryInv, ReplayInv, [Next]_vars,
           crashes \in Nat, failures \in Nat, crashes' = 0, failures' = 0
    PROVE  ReplayInv'
<1>0. /\ TypeOK /\ disk \in Disk /\ newHeight \in Heights /\ Torn(disk)
      /\ Persisting => adding \in Block /\ pending \subseteq UtxoOps(Body[adding])
      /\ tracked \in Seq(Block) /\ NoBlock \notin Block
  BY BlocksAssumption DEF DiskInv, TypeOK, ReplayInv
<1>1. CASE Load
  <2>1. /\ tip' = disk.tip /\ tracked' = DiskChain /\ utxo_set' = disk.utxos
        /\ disk' = disk /\ recoverable' = recoverable /\ pc' = "idle"
    BY <1>1 DEF Load, DiskChain
  <2>2. tracked' = Ancestry[tip'] /\ utxo_set' = Replay(tracked')
    BY <1>1, <2>1 DEF Load, ReplayInv
  <2>3. QED BY <2>1, <2>2 DEF ReplayInv, Persisting, TipNotWritten
<1>2. CASE InitGenesis
  <2>1. tracked = << >> /\ utxo_set = {} /\ disk.utxos = {}
    BY <1>2 DEF InitGenesis, MemoryInv, BlankInv, Blank
  <2>2. Genesis \in Block /\ Prev[Genesis] = NoBlock
    BY BlocksAssumption
  <2>3. Ancestry[Genesis] = Append(tracked, Genesis) /\ Front(Ancestry[Genesis]) = tracked
    BY <2>1, <2>2, AncestryStep
  <2>4. utxo_set = Replay(tracked)
    BY <1>0, <2>1, <2>2, ReplayStep
  <2>5. QED BY <1>0, <1>2, <2>1, <2>2, <2>3, <2>4, TakeInKeepsReplay DEF InitGenesis
<1>3. ASSUME NEW b \in Block, AddBlock(b) PROVE ReplayInv'
  <2>1. /\ Prev[b] = tip /\ tip \in Block /\ tracked = Ancestry[tip]
        /\ utxo_set = Replay(tracked) /\ disk.utxos = utxo_set
    BY <1>3 DEF AddBlock, MemoryInv, ReplayInv
  <2>2. Ancestry[b] = Append(tracked, b) /\ Front(Ancestry[b]) = tracked
    BY <1>0, <2>1, AncestryStep
  <2>3. QED BY <1>0, <1>3, <2>1, <2>2, TakeInKeepsReplay DEF AddBlock
<1>4. CASE PutBlock
  <2> DEFINE d == [disk EXCEPT !.blocks = @ \cup {adding}]
  <2>1. d.tip = disk.tip /\ d.utxos = disk.utxos
    BY <1>0 DEF Disk
  <2>2. Write(d) /\ Persisting /\ Persisting' /\ TipNotWritten
    BY <1>4 DEF PutBlock, Persisting, TipNotWritten
  <2> HIDE DEF d
  <2>3. QED BY <1>0, <2>1, <2>2, WriteKeepsReplay DEF Torn
<1>5. CASE SetBlockAtHeight
  <2> DEFINE d == [disk EXCEPT !.index[newHeight] = adding]
  <2>1. d.tip = disk.tip /\ d.utxos = disk.utxos
    BY <1>0 DEF Disk
  <2>2. Write(d) /\ Persisting /\ Persisting' /\ TipNotWritten
    BY <1>5 DEF SetBlockAtHeight, Persisting, TipNotWritten
  <2> HIDE DEF d
  <2>3. QED BY <1>0, <2>1, <2>2, WriteKeepsReplay DEF Torn
<1>6. CASE SetTip
  <2> DEFINE d == [disk EXCEPT !.tip = adding]
  <2>1. d.tip = adding /\ d.utxos = disk.utxos
    BY <1>0 DEF Disk
  <2>2. Write(d) /\ Persisting /\ Persisting' /\ TipNotWritten /\ ~ TipNotWritten'
    BY <1>6 DEF SetTip, Persisting, TipNotWritten
  <2> HIDE DEF d
  <2>3. d.utxos = Replay(Front(Ancestry[d.tip]))
    BY <2>1, <2>2 DEF ReplayInv
  <2>4. Torn(d)
    BY <2>3 DEF Torn
  <2>5. QED BY <2>2, <2>4, WriteKeepsReplay
<1>7. CASE SetHeight
  <2> DEFINE d == [disk EXCEPT !.height = newHeight]
  <2>1. d.tip = disk.tip /\ d.utxos = disk.utxos
    BY <1>0 DEF Disk
  <2>2. Write(d) /\ Persisting /\ Persisting' /\ ~ TipNotWritten'
    BY <1>7 DEF SetHeight, Persisting, TipNotWritten
  <2> HIDE DEF d
  <2>3. QED BY <1>0, <2>1, <2>2, WriteKeepsReplay DEF Torn
<1>8. CASE RemoveUtxo
  <2>1. PICK op \in pending :
            op[2] = "remove" /\ Write([disk EXCEPT !.utxos = @ \ {RemovedBy(op)}])
    BY <1>8 DEF RemoveUtxo
  <2> DEFINE d == [disk EXCEPT !.utxos = @ \ {RemovedBy(op)}]
  <2>2. d.tip = disk.tip /\ d.utxos = disk.utxos \ {RemovedBy(op)}
    BY <1>0 DEF Disk
  <2>3. Persisting /\ Persisting' /\ ~ TipNotWritten /\ ~ TipNotWritten'
    BY <1>8 DEF RemoveUtxo, Persisting, TipNotWritten
  <2>4. disk.tip = adding /\ adding \in Block /\ op \in UtxoOps(Body[adding])
    BY <1>0, <2>3 DEF MemoryInv
  <2>5. RemovedBy(op) \in OutPointsSpentBy(adding)
    <3>1. /\ op[1] \in DOMAIN Body[adding] /\ ~ IsCoinbase(Body[adding][op[1]])
          /\ op[3] \in DOMAIN Inputs[Body[adding][op[1]]]
      BY <2>1, <2>4, OpsOfBody
    <3>2. RemovedBy(op) \in Spent(Body[adding][op[1]])
      BY <3>1 DEF RemovedBy, Spent
    <3>3. QED BY <3>1, <3>2 DEF OutPointsSpentBy
  <2> HIDE DEF d
  <2>6. Torn(d)
    BY <1>0, <2>2, <2>4, <2>5 DEF Torn
  <2>7. QED BY <2>1, <2>3, <2>6, WriteKeepsReplay DEF d
<1>9. CASE PutUtxo
  <2>1. PICK op \in pending :
            op[2] = "put" /\ Write([disk EXCEPT !.utxos = @ \cup {PutBy(op)}])
    BY <1>9 DEF PutUtxo
  <2> DEFINE d == [disk EXCEPT !.utxos = @ \cup {PutBy(op)}]
  <2>2. d.tip = disk.tip /\ d.utxos = disk.utxos \cup {PutBy(op)}
    BY <1>0 DEF Disk
  <2>3. Persisting /\ Persisting' /\ ~ TipNotWritten /\ ~ TipNotWritten'
    BY <1>9 DEF PutUtxo, Persisting, TipNotWritten
  <2>4. disk.tip = adding /\ adding \in Block /\ op \in UtxoOps(Body[adding])
    BY <1>0, <2>3 DEF MemoryInv
  <2>5. PutBy(op) \in OutPointsCreatedBy(adding)
    <3>1. /\ op[1] \in DOMAIN Body[adding]
          /\ op[3] \in DOMAIN Outputs[Body[adding][op[1]]]
      BY <2>1, <2>4, OpsOfBody
    <3>2. PutBy(op) \in Created(Body[adding][op[1]])
      BY <3>1 DEF PutBy, Created
    <3>3. QED BY <3>1, <3>2 DEF OutPointsCreatedBy
  <2> HIDE DEF d
  <2>6. Torn(d)
    BY <1>0, <2>2, <2>4, <2>5 DEF Torn
  <2>7. QED BY <2>1, <2>3, <2>6, WriteKeepsReplay DEF d
<1>10. CASE Finish
  <2>1. Persisting /\ pc = "persist_utxos"
    BY <1>10 DEF Finish, Persisting
  <2>2. /\ tracked = Ancestry[adding] /\ utxo_set = Replay(tracked)
    BY <2>1 DEF ReplayInv
  <2>3. /\ disk' = disk /\ recoverable' = recoverable /\ tip' = adding /\ pc' = "idle"
        /\ tracked' = tracked /\ utxo_set' = utxo_set
    BY <1>10 DEF Finish
  <2>4. QED BY <2>2, <2>3 DEF ReplayInv, Persisting, TipNotWritten
<1>11. CASE Quit
  <2>1. /\ disk' = disk /\ recoverable' = {disk} /\ pc' = "down" /\ pc = "idle"
    BY <1>11 DEF Quit, Stopped
  <2>2. DiskChain = tracked /\ disk.utxos = utxo_set /\ tip = disk.tip
    BY <2>1 DEF MemoryInv, IndexedTo, DiskChain
  <2>3. DiskChain = Ancestry[disk.tip] /\ disk.utxos = Replay(DiskChain)
    BY <2>1, <2>2 DEF ReplayInv
  <2>4. DiskChain' = DiskChain
    BY <2>1 DEF DiskChain
  <2>5. QED BY <1>0, <2>1, <2>3, <2>4 DEF ReplayInv, Persisting, TipNotWritten
<1>12. CASE LoadFails \/ UNCHANGED vars
  <2>1. UNCHANGED vars
    BY <1>12 DEF LoadFails
  <2>2. DiskChain' = DiskChain
    BY <2>1 DEF vars, DiskChain
  <2>3. QED BY <2>1, <2>2 DEF vars, process, memory, ReplayInv, Persisting, TipNotWritten
<1>13. CASE \/ GetTipFails \/ AddBlockFails \/ InitGenesisFails \/ RemoveUtxoLost
            \/ \E b \in Block : HasBlockFails(b)
  BY <1>13 DEF GetTipFails, HasBlockFails, AddBlockFails, InitGenesisFails, RemoveUtxoLost, Fail
<1>14. CASE Crash
  BY <1>14 DEF Crash
<1>15. QED
  BY <1>1, <1>2, <1>3, <1>4, <1>5, <1>6, <1>7, <1>8, <1>9, <1>10, <1>11, <1>12, <1>13,
     <1>14 DEF Next

\* The invariant of every behaviour, and what it adds until the first fault.
ReplayedInv == FaultlessInv /\ (crashes + failures = 0 => ReplayInv)

LEMMA InitReplayedInv == Init => ReplayedInv
<1> SUFFICES ASSUME Init PROVE ReplayedInv
  OBVIOUS
<1>1. /\ disk.tip = NoBlock /\ recoverable \cup {disk} = {disk} /\ pc = "down"
  BY DEF Init, EmptyDisk
<1>2. ReplayInv
  BY <1>1 DEF ReplayInv, Torn, Persisting, TipNotWritten
<1>3. QED BY <1>2, InitFaultlessInv DEF ReplayedInv

(* Crashes and storage errors are counted and never forgotten.              *)
LEMMA FaultsStay ==
    ASSUME TypeOK, [Next]_vars, crashes' + failures' = 0
    PROVE  /\ crashes \in Nat /\ failures \in Nat
           /\ crashes = 0 /\ failures = 0 /\ crashes' = 0 /\ failures' = 0
<1>1. failures \in Nat /\ crashes \in Nat
  BY ChainAssumption DEF TypeOK
<1>2. failures' = failures \/ failures' = failures + 1
  BY DEF Next, Load, LoadFails, InitGenesis, AddBlock, PutBlock, SetBlockAtHeight, SetTip,
         SetHeight, RemoveUtxo, PutUtxo, Finish, GetTipFails, HasBlockFails,
         AddBlockFails, InitGenesisFails, RemoveUtxoLost, Crash, Quit, Write, Fail, vars, faults
<1>3. crashes' = crashes \/ crashes' = crashes + 1
  BY DEF Next, Load, LoadFails, InitGenesis, AddBlock, PutBlock, SetBlockAtHeight, SetTip,
         SetHeight, RemoveUtxo, PutUtxo, Finish, GetTipFails, HasBlockFails,
         AddBlockFails, InitGenesisFails, RemoveUtxoLost, Crash, Quit, Write, Fail, vars, faults
<1>4. QED BY <1>1, <1>2, <1>3

LEMMA NextReplayedInv == ReplayedInv /\ [Next]_vars => ReplayedInv'
<1> SUFFICES ASSUME ReplayedInv, [Next]_vars PROVE ReplayedInv'
  OBVIOUS
<1>1. crashes' + failures' = 0 => ReplayInv'
  <2> SUFFICES ASSUME crashes' + failures' = 0 PROVE ReplayInv'
    OBVIOUS
  <2>1. /\ crashes \in Nat /\ failures \in Nat
        /\ crashes = 0 /\ failures = 0 /\ crashes' = 0 /\ failures' = 0
    BY FaultsStay DEF ReplayedInv, FaultlessInv, DiskInv
  <2>2. MemoryInv /\ ReplayInv
    BY <2>1 DEF ReplayedInv, FaultlessInv
  <2>3. QED BY <2>1, <2>2, NextReplayInv DEF ReplayedInv, FaultlessInv
<1>2. QED BY <1>1, NextFaultlessInv DEF ReplayedInv

(* Before the first fault, across any number of restarts, the UTXO index    *)
(* that apply_block_utxos updates block by block (blockchain.rs:145-158) is *)
(* the one a replay of the whole chain would build.                         *)
THEOREM IndexIsReplay == Spec => [](crashes + failures = 0 => UtxoIsReplay)
<1>1. ReplayedInv => (crashes + failures = 0 => UtxoIsReplay)
  BY DEF ReplayedInv, ReplayInv, UtxoIsReplay
<1>2. QED BY <1>1, InitReplayedInv, NextReplayedInv, PTL DEF Spec

(* A crash that comes first leaves the UTXO tree somewhere on the way from  *)
(* the set before the last block to the one after it: persist_utxo_changes  *)
(* (blockchain.rs:160-172) touches nothing that this block does not.        *)
THEOREM CrashTearsOneBlock == Spec => []TornByOneBlock
<1>1. ReplayedInv => TornByOneBlock
  BY DEF ReplayedInv, ReplayInv, Torn, TornByOneBlock
<1>2. QED BY <1>1, InitReplayedInv, NextReplayedInv, PTL DEF Spec

-----------------------------------------------------------------------------
(* The chain implements the abstract ledger                                 *)

\* The blocks the implementation stands for.
LedgerShown == IF pc = "down" THEN DiskChain ELSE tracked

LEMMA LedgerStep ==
    ASSUME ReplayedInv, [Next]_vars, crashes + failures = 0, crashes' + failures' = 0
    PROVE  [Promise!Next]_LedgerShown
<1>0. /\ crashes = 0 /\ failures = 0 /\ crashes' = 0 /\ failures' = 0
      /\ MemoryInv /\ ReplayInv /\ BlankInv
      /\ height \in Nat /\ NoBlock \notin Block /\ tracked \in Seq(Block)
  <2>1. TypeOK /\ BlankInv
    BY DEF ReplayedInv, FaultlessInv, DiskInv
  <2>2. /\ crashes = 0 /\ failures = 0 /\ crashes' = 0 /\ failures' = 0
    BY <2>1, FaultsStay
  <2>3. height \in Nat /\ tracked \in Seq(Block)
    BY <2>1, ChainAssumption DEF TypeOK, Heights
  <2>4. QED BY <2>1, <2>2, <2>3, BlocksAssumption DEF ReplayedInv, FaultlessInv
<1>1. CASE Load
  BY <1>1 DEF Load, LedgerShown, DiskChain
<1>2. CASE InitGenesis
  <2>1. disk.height = -1 /\ tracked = << >>
    BY <1>0, <1>2 DEF InitGenesis, BlankInv, Blank, NoHeight, MemoryInv
  <2>2. DiskChain = << >>
    BY <2>1 DEF DiskChain
  <2>3. LedgerShown = << >> /\ LedgerShown' = << Genesis >>
    BY <1>2, <2>1, <2>2 DEF InitGenesis, TakeIn, LedgerShown
  <2>4. Promise!Start
    BY <2>3 DEF Promise!Start, LedgerShown
  <2>5. QED BY <2>4 DEF Promise!Next
<1>3. ASSUME NEW b \in Block, AddBlock(b) PROVE Promise!Next
  <2>1. /\ LedgerShown = tracked /\ LedgerShown' = Append(tracked, b)
        /\ Prev[b] = tip /\ ValidateBlock(b, utxo_set, height + 1)
    BY <1>3 DEF AddBlock, TakeIn, LedgerShown
  <2>2. /\ tip \in Block /\ tracked = Ancestry[tip] /\ utxo_set = Replay(tracked)
        /\ tracked = IndexedTo(height + 1)
    BY <1>0, <1>3 DEF AddBlock, MemoryInv, ReplayInv
  <2>3. tracked # << >> /\ tracked[Len(tracked)] = Prev[b]
    BY <2>1, <2>2, AncestryStep
  <2>4. Len(tracked) = height + 1
    BY <1>0, <2>2 DEF IndexedTo
  <2>5. Promise!Extend(b)
    BY <2>1, <2>2, <2>3, <2>4 DEF Promise!Extend, LedgerShown
  <2>6. QED BY <2>5 DEF Promise!Next
<1>4. CASE PutBlock \/ SetBlockAtHeight \/ SetTip \/ SetHeight \/ RemoveUtxo \/ PutUtxo
  BY <1>4 DEF PutBlock, SetBlockAtHeight, SetTip, SetHeight, RemoveUtxo, PutUtxo, Write,
              memory, LedgerShown
<1>5. CASE Finish
  BY <1>5 DEF Finish, LedgerShown
<1>6. CASE Quit
  <2>1. pc = "idle" /\ pc' = "down" /\ disk' = disk
    BY <1>6 DEF Quit, Stopped
  <2>2. DiskChain = tracked
    BY <1>0, <2>1 DEF MemoryInv, IndexedTo, DiskChain
  <2>3. DiskChain' = DiskChain
    BY <2>1 DEF DiskChain
  <2>4. QED BY <2>1, <2>2, <2>3 DEF LedgerShown
<1>7. CASE LoadFails \/ UNCHANGED vars
  BY <1>7 DEF LoadFails, vars, process, memory, LedgerShown, DiskChain
<1>8. CASE \/ GetTipFails \/ AddBlockFails \/ InitGenesisFails \/ RemoveUtxoLost \/ Crash
           \/ \E b \in Block : HasBlockFails(b)
  BY <1>0, <1>8
     DEF GetTipFails, HasBlockFails, AddBlockFails, InitGenesisFails, RemoveUtxoLost, Crash, Fail
<1>9. QED
  BY <1>1, <1>2, <1>3, <1>4, <1>5, <1>6, <1>7, <1>8 DEF Next

(* Chain implements LedgerSpec in every behaviour without a crash or a      *)
(* storage error, with as many quits and restarts as one likes: opening the *)
(* database, each write and quitting change nothing that the ledger shows,  *)
(* and what validate_block checks against the UTXO index (validation.rs:54) *)
(* it checks against the whole history.                                     *)
THEOREM ChainIsALedger == Spec /\ [](crashes + failures = 0) => ImplementsLedger
<1>1. Init => LedgerShown = << >>
  <2> SUFFICES ASSUME Init PROVE LedgerShown = << >>
    OBVIOUS
  <2>1. pc = "down" /\ disk.height = -1
    BY DEF Init, EmptyDisk, NoHeight
  <2>2. QED BY <2>1 DEF LedgerShown, DiskChain
<1>2. ReplayedInv /\ [Next]_vars /\ crashes + failures = 0 /\ (crashes + failures = 0)'
          => [Promise!Next]_LedgerShown
  BY LedgerStep
<1>3. QED
  BY <1>1, <1>2, InitReplayedInv, NextReplayedInv, PTL
     DEF Spec, ImplementsLedger, Promise!Spec, Promise!Init, LedgerShown

-----------------------------------------------------------------------------
(* An output is spent once each time it is made                             *)

\* An output is unspent after the first n blocks of a sequence.
UnspentAfter(s, n, o) ==
    \E i \in 1 .. n :
        /\ o \in ApplyBlockUtxos({}, Body[s[i]])
        /\ \A j \in i + 1 .. n : o \in ApplyBlockUtxos({o}, Body[s[j]])

\* Every block but the first consumes what the blocks before it left unspent.
SpendsUnspent(s) ==
    \A j \in 2 .. Len(s) : \A o \in OutPointsSpentBy(s[j]) : UnspentAfter(s, j - 1, o)

(* validate_block takes a block only if what it consumes is unspent: its    *)
(* first transaction is a coinbase, which consumes nothing.                 *)
LEMMA ValidSpendsUnspent ==
    ASSUME NEW b \in Block, NEW utxos, NEW h, ValidateBlock(b, utxos, h)
    PROVE  OutPointsSpentBy(b) \subseteq utxos
<1>1. /\ Body[b] \in Seq(Tx) /\ IsCoinbase(Body[b][1])
      /\ \A i \in 2 .. Len(Body[b]) : Spent(Body[b][i]) \subseteq utxos
  BY BlocksAssumption DEF ValidateBlock, ValidateBody
<1>2. ASSUME NEW i \in DOMAIN Body[b] PROVE Spent(Body[b][i]) \subseteq utxos
  <2>1. i = 1 \/ i \in 2 .. Len(Body[b])
    BY <1>1
  <2>2. Spent(Body[b][1]) = {}
    BY <1>1 DEF Spent
  <2>3. QED BY <1>1, <2>1, <2>2
<1>3. QED BY <1>2 DEF OutPointsSpentBy

(* What is said of the blocks of a sequence is said of them when one more   *)
(* is appended.                                                             *)
LEMMA AppendSpendsUnspent ==
    ASSUME NEW s \in Seq(Block), NEW b \in Block, SpendsUnspent(s),
           OutPointsSpentBy(b) \subseteq Replay(s)
    PROVE  SpendsUnspent(Append(s, b))
<1> DEFINE t == Append(s, b)
           n == Len(s)
<1>1. /\ n \in Nat /\ DOMAIN s = 1 .. n /\ Len(t) = n + 1
      /\ \A i \in 1 .. n : t[i] = s[i]
      /\ t[n + 1] = b
  OBVIOUS
<1> HIDE DEF t, n
<1>2. ASSUME NEW m \in 0 .. n, NEW o, UnspentAfter(s, m, o) PROVE UnspentAfter(t, m, o)
  <2>1. PICK i \in 1 .. m : /\ o \in ApplyBlockUtxos({}, Body[s[i]])
                            /\ \A j \in i + 1 .. m : o \in ApplyBlockUtxos({o}, Body[s[j]])
    BY <1>2 DEF UnspentAfter
  <2>2. t[i] = s[i] /\ \A j \in i + 1 .. m : t[j] = s[j]
    BY <1>1
  <2>3. /\ o \in ApplyBlockUtxos({}, Body[t[i]])
        /\ \A j \in i + 1 .. m : o \in ApplyBlockUtxos({o}, Body[t[j]])
    BY <2>1, <2>2
  <2>4. QED BY <2>3 DEF UnspentAfter
<1>3. ASSUME NEW o \in Replay(s) PROVE UnspentAfter(s, n, o)
  BY <1>1, InReplay DEF UnspentAfter, n
<1>4. ASSUME NEW j \in 2 .. n + 1, NEW o \in OutPointsSpentBy(t[j])
      PROVE  UnspentAfter(t, j - 1, o)
  <2>1. CASE j \in 2 .. n
    <3>1. j - 1 \in 0 .. n /\ t[j] = s[j]
      BY <1>1, <2>1
    <3>2. UnspentAfter(s, j - 1, o)
      BY <1>4, <2>1, <3>1 DEF SpendsUnspent, n
    <3>3. QED BY <1>2, <3>1, <3>2
  <2>2. CASE j = n + 1
    <3>1. UnspentAfter(s, n, o)
      BY <1>1, <1>3, <1>4, <2>2
    <3>2. n \in 0 .. n /\ j - 1 = n
      BY <1>1, <2>2
    <3>3. QED BY <1>2, <3>1, <3>2
  <2>3. QED BY <1>1, <2>1, <2>2
<1>5. SpendsUnspent(t)
  BY <1>1, <1>4 DEF SpendsUnspent
<1>6. QED BY <1>5 DEF t

(* An output that one block consumes and a later one finds unspent was made *)
(* again in between: consuming it, the first block left it out of the set   *)
(* unless a transaction of its own put it back.                             *)
LEMMA UnspentWasMade ==
    ASSUME NEW s \in Seq(Block), NEW i \in 1 .. Len(s), NEW n \in i .. Len(s), NEW o,
           o \in OutPointsSpentBy(s[i]), UnspentAfter(s, n, o)
    PROVE  \E k \in i .. n : o \in OutPointsCreatedBy(s[k])
<1>1. PICK m \in 1 .. n : /\ o \in ApplyBlockUtxos({}, Body[s[m]])
                          /\ \A j \in m + 1 .. n : o \in ApplyBlockUtxos({o}, Body[s[j]])
  BY DEF UnspentAfter
<1>2. o \in OutPointsCreatedBy(s[m])
  BY <1>1 DEF ApplyBlockUtxos, OutPointsCreatedBy
<1>3. CASE m >= i
  <2>1. m \in i .. n
    BY <1>3
  <2>2. QED BY <1>2, <2>1
<1>4. CASE m < i
  <2>1. i \in m + 1 .. n
    BY <1>4
  <2>2. o \in ApplyBlockUtxos({o}, Body[s[i]])
    BY <1>1, <2>1
  <2>3. PICK j \in DOMAIN Body[s[i]] : o \in Spent(Body[s[i]][j])
    BY DEF OutPointsSpentBy
  <2>4. PICK k \in j .. Len(Body[s[i]]) : o \in Created(Body[s[i]][k])
    BY <2>2, <2>3 DEF ApplyBlockUtxos
  <2>5. s[i] \in Block
    OBVIOUS
  <2>6. Body[s[i]] \in Seq(Tx)
    BY <2>5, BlocksAssumption
  <2>7. k \in DOMAIN Body[s[i]]
    BY <2>3, <2>4, <2>6
  <2>8. o \in OutPointsCreatedBy(s[i])
    BY <2>4, <2>7 DEF OutPointsCreatedBy
  <2>9. i \in i .. n
    OBVIOUS
  <2>10. QED BY <2>8, <2>9
<1>5. QED BY <1>3, <1>4

\* The blocks shown are blocks, and each consumes what those before left unspent.
HistoryInv == LedgerShown \in Seq(Block) /\ SpendsUnspent(LedgerShown)

(* A step of the abstract ledger keeps that, whatever the implementation.   *)
LEMMA LedgerStepKeepsHistory ==
    ASSUME HistoryInv, [Promise!Next]_LedgerShown
    PROVE  HistoryInv'
<1>1. CASE Promise!Start
  <2>1. LedgerShown' = << Genesis >>
    BY <1>1 DEF Promise!Start, LedgerShown
  <2>2. << Genesis >> \in Seq(Block)
    BY BlocksAssumption
  <2>3. SpendsUnspent(<< Genesis >>)
    BY DEF SpendsUnspent
  <2>4. QED BY <2>1, <2>2, <2>3 DEF HistoryInv, SpendsUnspent, UnspentAfter
<1>2. ASSUME NEW b \in Block, Promise!Extend(b) PROVE HistoryInv'
  <2>1. /\ LedgerShown' = Append(LedgerShown, b)
        /\ ValidateBlock(b, Replay(LedgerShown), Len(LedgerShown))
    BY <1>2 DEF Promise!Extend, LedgerShown
  <2>2. SpendsUnspent(Append(LedgerShown, b)) /\ Append(LedgerShown, b) \in Seq(Block)
    BY <2>1, AppendSpendsUnspent, ValidSpendsUnspent DEF HistoryInv
  <2>3. QED BY <2>1, <2>2 DEF HistoryInv, SpendsUnspent, UnspentAfter
<1>3. CASE LedgerShown' = LedgerShown
  BY <1>3 DEF HistoryInv, SpendsUnspent, UnspentAfter
<1>4. QED BY <1>1, <1>2, <1>3 DEF Promise!Next

(* validate_block looks only at the UTXO index (validation.rs:54-63); all   *)
(* the same, over the whole history and across restarts, no two blocks      *)
(* consume the same output unless it was made again in between.             *)
THEOREM OutputsSpentOnce == Spec => [](crashes + failures = 0 => SpentOncePerCreation)
<1> DEFINE Inv == ReplayedInv /\ (crashes + failures = 0 => HistoryInv)
<1>1. Init => Inv
  <2> SUFFICES ASSUME Init PROVE Inv
    OBVIOUS
  <2>1. pc = "down" /\ disk.height = -1
    BY DEF Init, EmptyDisk, NoHeight
  <2>2. LedgerShown = << >>
    BY <2>1 DEF LedgerShown, DiskChain
  <2>3. HistoryInv
    BY <2>2 DEF HistoryInv, SpendsUnspent
  <2>4. QED BY <2>3, InitReplayedInv
<1>2. Inv /\ [Next]_vars => Inv'
  <2> SUFFICES ASSUME Inv, [Next]_vars PROVE Inv'
    OBVIOUS
  <2>1. ASSUME crashes' + failures' = 0 PROVE HistoryInv'
    <3>1. crashes + failures = 0
      BY <2>1, FaultsStay DEF ReplayedInv, FaultlessInv, DiskInv
    <3>2. [Promise!Next]_LedgerShown
      BY <2>1, <3>1, LedgerStep
    <3>3. QED BY <3>1, <3>2, LedgerStepKeepsHistory
  <2>2. QED BY <2>1, NextReplayedInv
<1>3. HistoryInv => SpentOncePerCreation
  <2> SUFFICES ASSUME HistoryInv, NEW i \in DOMAIN LedgerShown, NEW j \in DOMAIN LedgerShown,
                      i < j, NEW o \in OutPointsSpentBy(LedgerShown[i])
                                           \cap OutPointsSpentBy(LedgerShown[j])
               PROVE  \E k \in i .. j - 1 : o \in OutPointsCreatedBy(LedgerShown[k])
    BY DEF SpentOncePerCreation, Promise!SpentOncePerCreation, LedgerShown
  <2>1. /\ LedgerShown \in Seq(Block) /\ i \in 1 .. Len(LedgerShown)
        /\ j \in 2 .. Len(LedgerShown) /\ j - 1 \in i .. Len(LedgerShown)
    BY DEF HistoryInv
  <2>2. UnspentAfter(LedgerShown, j - 1, o)
    BY <2>1 DEF HistoryInv, SpendsUnspent
  <2>3. QED BY <2>1, <2>2, UnspentWasMade
<1>4. Inv => (crashes + failures = 0 => SpentOncePerCreation)
  BY <1>3
<1> HIDE DEF Inv
<1>5. QED BY <1>1, <1>2, <1>4, PTL DEF Spec

-----------------------------------------------------------------------------
(* What is unspent never exceeds what the schedule paid out                 *)

\* The sums of the outputs of every transaction fit a u64.  validate_transaction
\* adds them up with `sum' (validation.rs:125) and does not see one that wraps.
OutputsFit(blocks) ==
    \A b \in ToSet(blocks) : \A i \in DOMAIN Body[b] : OutputSum(Body[b][i]) < U64

(* Genesis leaves its one transaction's outputs, the initial reward.        *)
LEMMA GenesisReplayed ==
    ASSUME OutputsFit(<< Genesis >>)
    PROVE  Earned(Replay(<< Genesis >>), 1)
<1>1. /\ Genesis \in Block /\ Body[Genesis] \in Seq(Tx) /\ Len(Body[Genesis]) = 1
      /\ TotalOutput(Body[Genesis][1]) = InitialReward
  BY BlocksAssumption
<1>2. Replay(<< Genesis >>) = ApplyBlockUtxos({}, Body[Genesis])
  <2>1. << Genesis >> = Append(<< >>, Genesis) /\ << >> \in Seq(Block)
    OBVIOUS
  <2>2. QED BY <1>1, <2>1, ReplayStep
<1>3. OutputSum(Body[Genesis][1]) < U64
  <2>1. Genesis \in ToSet(<< Genesis >>) /\ 1 \in DOMAIN Body[Genesis]
    BY <1>1 DEF ToSet
  <2>2. QED BY <2>1 DEF OutputsFit
<1>4. QED BY <1>1, <1>2, <1>3, GenesisEarned

(* A valid block adds at most its reward to what is unspent.                *)
LEMMA ExtendReplayed ==
    ASSUME NEW s \in Seq(Block), NEW b \in Block, Earned(Replay(s), Len(s)),
           ValidateBlock(b, Replay(s), Len(s)), OutputsFit(Append(s, b))
    PROVE  Earned(Replay(Append(s, b)), Len(Append(s, b)))
<1>1. Body[b] \in Seq(Tx) /\ Len(s) \in Nat /\ ValidateBody(Body[b], Replay(s), Len(s))
  BY BlocksAssumption DEF ValidateBlock
<1>2. \A i \in DOMAIN Body[b] : OutputSum(Body[b][i]) < U64
  <2>1. Len(s) + 1 \in DOMAIN Append(s, b) /\ Append(s, b)[Len(s) + 1] = b
    OBVIOUS
  <2>2. b \in ToSet(Append(s, b))
    BY <2>1 DEF ToSet
  <2>3. QED BY <2>2 DEF OutputsFit
<1>3. Replay(Append(s, b)) = ApplyBlockUtxos(Replay(s), Body[b]) /\ Len(Append(s, b)) = Len(s) + 1
  BY ReplayStep
<1>4. QED BY <1>1, <1>2, <1>3, BlockEarned

\* The blocks shown are blocks; there are none, or they have earned what they leave.
SupplyInv ==
    /\ LedgerShown \in Seq(Block)
    /\ LedgerShown # << >> /\ OutputsFit(LedgerShown) =>
          Earned(Replay(LedgerShown), Len(LedgerShown))

(* A step of the abstract ledger keeps that.                                *)
LEMMA LedgerStepKeepsSupply ==
    ASSUME SupplyInv, [Promise!Next]_LedgerShown
    PROVE  SupplyInv'
<1>1. CASE Promise!Start
  <2>1. LedgerShown' = << Genesis >> /\ << Genesis >> \in Seq(Block)
    BY <1>1, BlocksAssumption DEF Promise!Start, LedgerShown
  <2>2. OutputsFit(<< Genesis >>) => Earned(Replay(<< Genesis >>), Len(<< Genesis >>))
    BY GenesisReplayed
  <2>3. QED BY <2>1, <2>2 DEF SupplyInv, OutputsFit, Earned
<1>2. ASSUME NEW b \in Block, Promise!Extend(b) PROVE SupplyInv'
  <2> DEFINE s == LedgerShown
  <2>1. /\ s # << >> /\ s \in Seq(Block) /\ ValidateBlock(b, Replay(s), Len(s))
        /\ LedgerShown' = Append(s, b)
    BY <1>2 DEF Promise!Extend, LedgerShown, SupplyInv
  <2>2. OutputsFit(s) => Earned(Replay(s), Len(s))
    BY <2>1 DEF SupplyInv
  <2> HIDE DEF s
  <2>3. OutputsFit(Append(s, b)) => OutputsFit(s)
    <3>1. ToSet(s) \subseteq ToSet(Append(s, b))
      BY <2>1 DEF ToSet
    <3>2. QED BY <3>1 DEF OutputsFit
  <2>4. OutputsFit(Append(s, b)) => Earned(Replay(Append(s, b)), Len(Append(s, b)))
    BY <2>1, <2>2, <2>3, ExtendReplayed
  <2>5. Append(s, b) \in Seq(Block)
    BY <2>1
  <2>6. QED BY <2>1, <2>4, <2>5 DEF SupplyInv, OutputsFit, Earned
<1>3. CASE LedgerShown' = LedgerShown
  BY <1>3 DEF SupplyInv, OutputsFit, Earned
<1>4. QED BY <1>1, <1>2, <1>3 DEF Promise!Next

(* validate_block caps the coinbase of one block by its reward and fees     *)
(* (validation.rs:72-80); over the whole chain, as long as none of its      *)
(* transactions has outputs whose sum wraps, no more is ever unspent than   *)
(* the schedule of block_reward paid out up to the current height.          *)
THEOREM SupplyNeverExceedsRewards ==
    Spec => [](crashes + failures = 0 /\ OutputsFit(tracked) => SupplyWithinRewards)
<1> DEFINE Inv == ReplayedInv /\ (crashes + failures = 0 => SupplyInv)
<1>1. Init => Inv
  <2> SUFFICES ASSUME Init PROVE Inv
    OBVIOUS
  <2>1. pc = "down" /\ disk.height = -1
    BY DEF Init, EmptyDisk, NoHeight
  <2>2. LedgerShown = << >>
    BY <2>1 DEF LedgerShown, DiskChain
  <2>3. SupplyInv
    BY <2>2 DEF SupplyInv
  <2>4. QED BY <2>3, InitReplayedInv
<1>2. Inv /\ [Next]_vars => Inv'
  <2> SUFFICES ASSUME Inv, [Next]_vars PROVE Inv'
    OBVIOUS
  <2>1. ASSUME crashes' + failures' = 0 PROVE SupplyInv'
    <3>1. crashes + failures = 0
      BY <2>1, FaultsStay DEF ReplayedInv, FaultlessInv, DiskInv
    <3>2. [Promise!Next]_LedgerShown
      BY <2>1, <3>1, LedgerStep
    <3>3. QED BY <3>1, <3>2, LedgerStepKeepsSupply
  <2>2. QED BY <2>1, NextReplayedInv
<1>3. Inv => (crashes + failures = 0 /\ OutputsFit(tracked) => SupplyWithinRewards)
  <2> SUFFICES ASSUME Inv, crashes + failures = 0, OutputsFit(tracked), pc = "idle"
               PROVE  TotalAmount(utxo_set) <= SumFunction([ h \in 0 .. height |-> BlockReward(h) ])
    BY DEF SupplyWithinRewards
  <2>1. /\ ReplayInv /\ MemoryInv /\ SupplyInv /\ height \in Nat
    <3>1. failures = 0 /\ height \in Nat
      BY ChainAssumption DEF ReplayedInv, FaultlessInv, DiskInv, TypeOK, Heights
    <3>2. QED BY <3>1 DEF ReplayedInv, FaultlessInv
  <2>2. /\ LedgerShown = tracked /\ utxo_set = Replay(tracked)
        /\ tracked = IndexedTo(height + 1)
    BY <2>1 DEF LedgerShown, ReplayInv, MemoryInv
  <2>3. Len(tracked) = height + 1
    BY <2>1, <2>2 DEF IndexedTo
  <2>4. tracked # << >>
    BY <2>1, <2>3
  <2>5. TotalAmount(utxo_set) <= RewardsOf(height + 1)
    BY <2>1, <2>2, <2>3, <2>4 DEF SupplyInv, Earned
  <2>6. RewardsOf(height + 1) = SumFunction([ h \in 0 .. height |-> BlockReward(h) ])
    BY <2>1, RewardsStep
  <2>7. QED BY <2>5, <2>6
<1> HIDE DEF Inv
<1>4. QED BY <1>1, <1>2, <1>3, PTL DEF Spec

-----------------------------------------------------------------------------
(* The Merkle tree *)

\* A level of the tree: a sequence with an element.
Row(s) == Len(s) \in Nat \ {0} /\ DOMAIN s = 1 .. Len(s)

\* Two rows that differ by copies at the end of the longer one.
Alike(a, b) ==
    /\ \A i \in DOMAIN a : i \in DOMAIN b => a[i] = b[i]
    /\ \A i \in DOMAIN a : \E k \in DOMAIN b : a[i] = b[k]
    /\ \A k \in DOMAIN b : \E i \in DOMAIN a : a[i] = b[k]

(* A function over 1 .. n is a sequence of length n.                        *)
LEMMA FunctionsAreRows ==
    ASSUME NEW n \in Nat, NEW f, f = [ i \in 1 .. n |-> f[i] ]
    PROVE  Len(f) = n /\ DOMAIN f = 1 .. n
<1> DEFINE S == { f[i] : i \in 1 .. n }
<1>1. f \in [ 1 .. n -> S ]
  <2>1. \A i \in 1 .. n : f[i] \in S
    OBVIOUS
  <2> HIDE DEF S
  <2>2. QED BY <2>1
<1> HIDE DEF S
<1>2. f \in Seq(S)
  BY <1>1, SeqDef
<1>3. DOMAIN f = 1 .. n
  BY <1>1
<1>4. QED BY <1>2, <1>3, LenProperties

(* What two hashes are made of.                                             *)
LEMMA Tuples ==
    /\ \A w, x, y, z : << w, x >> = << y, z >> => w = y /\ x = z
    /\ \A x, y : << x >> = << y >> => x = y
    /\ \A x, y, z : << x >> # << y, z >>
OBVIOUS

\* Half as many, rounded up.
Half(n) == (n + 1) \div 2

(* A turn halves the row, rounding up.                                      *)
LEMMA NextRow ==
    ASSUME NEW s, Row(s)
    PROVE  /\ Row(NextLevel(s)) /\ Len(NextLevel(s)) = Half(Len(s))
           /\ Len(s) >= 2 => Len(NextLevel(s)) < Len(s)
           /\ \A i \in 1 .. Half(Len(s)) :
                NextLevel(s)[i] = << s[2 * i - 1], IF 2 * i <= Len(s) THEN s[2 * i] ELSE s[2 * i - 1] >>
<1> DEFINE n == Len(s)
           next == NextLevel(s)
           m == Half(n)
           pair(i) == << s[2 * i - 1], IF 2 * i <= n THEN s[2 * i] ELSE s[2 * i - 1] >>
<1>1. n \in Nat \ {0}
  BY DEF Row
<1>2. m \in Nat \ {0} /\ (n >= 2 => m < n)
  <2> HIDE DEF n
  <2>1. QED BY <1>1 DEF Half
<1>3. next = [ i \in 1 .. m |-> pair(i) ]
  BY DEF NextLevel, HashPair, Half
<1> HIDE DEF m, next, n, pair
<1>4. next = [ i \in 1 .. m |-> next[i] ] /\ \A i \in 1 .. m : next[i] = pair(i)
  BY <1>3
<1>5. m \in Nat
  BY <1>2
<1>6. Len(next) = m /\ DOMAIN next = 1 .. m
  BY <1>4, <1>5, FunctionsAreRows, Zenon
<1>7. Row(next) /\ Len(next) = m /\ (n >= 2 => Len(next) < n)
  BY <1>2, <1>6 DEF Row
<1>8. QED BY <1>4, <1>7 DEF m, next, n, pair

(* Every place of a row is in one of its pairs.                             *)
LEMMA Places ==
    ASSUME NEW n \in Nat, NEW j \in 1 .. n
    PROVE  \E i \in 1 .. Half(n) : /\ j = 2 * i - 1 \/ j = 2 * i
                                   /\ 2 * i - 1 <= n
<1> DEFINE i == (j + 1) \div 2
<1>1. i \in 1 .. Half(n) /\ (j = 2 * i - 1 \/ j = 2 * i) /\ 2 * i - 1 <= n
  BY DEF Half
<1> HIDE DEF i
<1>2. QED BY <1>1

(* What the pairs of a turn share, the rows before it share.                *)
LEMMA PairsShare ==
    ASSUME NEW a, NEW b, Row(a), Row(b),
           \A i \in DOMAIN NextLevel(a) : \E k \in DOMAIN NextLevel(b) : NextLevel(a)[i] = NextLevel(b)[k]
    PROVE  \A j \in DOMAIN a : \E k \in DOMAIN b : a[j] = b[k]
<1> DEFINE A == NextLevel(a)
           B == NextLevel(b)
           n == Len(a)
           m == Len(b)
<1>1. n \in Nat /\ DOMAIN a = 1 .. n /\ m \in Nat /\ DOMAIN b = 1 .. m
  BY DEF Row
<1>2. /\ DOMAIN A = 1 .. Half(n)
      /\ \A i \in 1 .. Half(n) : A[i] = << a[2 * i - 1], IF 2 * i <= n THEN a[2 * i] ELSE a[2 * i - 1] >>
  BY NextRow DEF Row
<1>3. /\ DOMAIN B = 1 .. Half(m)
      /\ \A i \in 1 .. Half(m) : B[i] = << b[2 * i - 1], IF 2 * i <= m THEN b[2 * i] ELSE b[2 * i - 1] >>
  BY NextRow DEF Row
<1>4. \A i \in DOMAIN A : \E k \in DOMAIN B : A[i] = B[k]
  OBVIOUS
<1> HIDE DEF A, B, n, m
<1>5. SUFFICES ASSUME NEW j \in 1 .. n PROVE \E k \in 1 .. m : a[j] = b[k]
  BY <1>1
<1>6. PICK i \in 1 .. Half(n) : (j = 2 * i - 1 \/ j = 2 * i) /\ 2 * i - 1 <= n
  BY <1>1, Places
<1>7. PICK k \in 1 .. Half(m) : A[i] = B[k]
  BY <1>2, <1>3, <1>4
<1>8. k \in Nat /\ 2 * k - 1 \in 1 .. m /\ (2 * k <= m => 2 * k \in 1 .. m)
  BY <1>1 DEF Half
<1> DEFINE l == IF 2 * k <= m THEN 2 * k ELSE 2 * k - 1
           h == IF 2 * i <= n THEN 2 * i ELSE 2 * i - 1
<1>9. A[i] = << a[2 * i - 1], a[h] >> /\ B[k] = << b[2 * k - 1], b[l] >>
  BY <1>2, <1>3
<1>10. l \in 1 .. m
  BY <1>8
<1>11. j = 2 * i - 1 \/ j = h
  BY <1>6
<1> HIDE DEF l, h
<1>12. a[2 * i - 1] = b[2 * k - 1] /\ a[h] = b[l]
  <2>1. << a[2 * i - 1], a[h] >> = << b[2 * k - 1], b[l] >>
    BY <1>7, <1>9, Zenon
  <2>2. QED BY <2>1, Tuples, Zenon
<1>13. QED BY <1>8, <1>10, <1>11, <1>12

(* Rows alike after a turn were alike before it.                            *)
LEMMA AlikeBelow ==
    ASSUME NEW a, NEW b, Row(a), Row(b), Alike(NextLevel(a), NextLevel(b))
    PROVE  Alike(a, b)
<1> DEFINE A == NextLevel(a)
           B == NextLevel(b)
           n == Len(a)
           m == Len(b)
<1>1. n \in Nat /\ DOMAIN a = 1 .. n /\ m \in Nat /\ DOMAIN b = 1 .. m
  BY DEF Row
<1>2. /\ DOMAIN A = 1 .. Half(n)
      /\ \A i \in 1 .. Half(n) : A[i] = << a[2 * i - 1], IF 2 * i <= n THEN a[2 * i] ELSE a[2 * i - 1] >>
  BY NextRow DEF Row
<1>3. /\ DOMAIN B = 1 .. Half(m)
      /\ \A i \in 1 .. Half(m) : B[i] = << b[2 * i - 1], IF 2 * i <= m THEN b[2 * i] ELSE b[2 * i - 1] >>
  BY NextRow DEF Row
<1>4. \A i \in DOMAIN A : i \in DOMAIN B => A[i] = B[i]
  BY DEF Alike
<1>5. ASSUME NEW j \in 1 .. n, j \in 1 .. m PROVE a[j] = b[j]
  <2> HIDE DEF A, B, n, m
  <2>1. PICK i \in 1 .. Half(n) : (j = 2 * i - 1 \/ j = 2 * i) /\ 2 * i - 1 <= n
    BY <1>1, Places
  <2>2. i \in 1 .. Half(m)
    BY <1>1, <1>5, <2>1 DEF Half
  <2>3. A[i] = B[i]
    BY <1>2, <1>3, <1>4, <2>2
  <2> DEFINE l == IF 2 * i <= m THEN 2 * i ELSE 2 * i - 1
             h == IF 2 * i <= n THEN 2 * i ELSE 2 * i - 1
  <2>4. A[i] = << a[2 * i - 1], a[h] >> /\ B[i] = << b[2 * i - 1], b[l] >>
    BY <1>2, <1>3, <2>2
  <2>5. j = 2 * i - 1 \/ (j = h /\ j = l)
    BY <1>1, <1>5, <2>1
  <2> HIDE DEF l, h
  <2>6. a[2 * i - 1] = b[2 * i - 1] /\ a[h] = b[l]
    <3>1. << a[2 * i - 1], a[h] >> = << b[2 * i - 1], b[l] >>
      BY <2>3, <2>4, Zenon
    <3>2. QED BY <3>1, Tuples, Zenon
  <2>7. QED BY <2>5, <2>6
<1>6. \A j \in DOMAIN a : \E k \in DOMAIN b : a[j] = b[k]
  <2>1. \A i \in DOMAIN NextLevel(a) : \E k \in DOMAIN NextLevel(b) : NextLevel(a)[i] = NextLevel(b)[k]
    BY DEF Alike
  <2>2. QED BY <2>1, PairsShare
<1>7. \A j \in DOMAIN b : \E k \in DOMAIN a : b[j] = a[k]
  <2>1. \A i \in DOMAIN NextLevel(b) : \E k \in DOMAIN NextLevel(a) : NextLevel(b)[i] = NextLevel(a)[k]
    BY DEF Alike
  <2>2. QED BY <2>1, PairsShare
<1>8. \A k \in DOMAIN b : \E i \in DOMAIN a : a[i] = b[k]
  BY <1>7
<1>9. QED BY <1>1, <1>5, <1>6, <1>8 DEF Alike

(* The turns of merkle_root: rows from the leaves to a row of one, each the *)
(* next level of the one before, whose only element is the root.            *)
LEMMA Turns ==
    ASSUME NEW S, NEW ids \in Seq(S), ids # <<>>
    PROVE  \E level : \E top \in Nat :
               /\ MerkleRoot(ids) = level[top][1] /\ Len(level[top]) = 1
               /\ DOMAIN level[0] = DOMAIN ids /\ \A i \in DOMAIN ids : level[0][i] = << ids[i] >>
               /\ \A t \in 0 .. top : Row(level[t])
               /\ \A t \in 1 .. top : level[t] = NextLevel(level[t - 1])
<1> DEFINE n == Len(ids)
           leaves == [ i \in DOMAIN ids |-> << ids[i] >> ]
           turn(row) == IF Len(row) <= 1 THEN row ELSE NextLevel(row)
           Obeys(l, k) == l = [ t \in 0 .. k |-> IF t = 0 THEN leaves ELSE turn(l[t - 1]) ]
           Bad == { k \in Nat : ~ \E l : Obeys(l, k) }
<1>0. n \in Nat \ {0} /\ DOMAIN ids = 1 .. n
  OBVIOUS
<1>1. \E l : Obeys(l, 0)
  <2> HIDE DEF leaves, turn
  <2>1. Obeys([ t \in 0 .. 0 |-> leaves ], 0)
    OBVIOUS
  <2>2. QED BY <2>1
<1>2. ASSUME NEW k \in Nat, \E l : Obeys(l, k) PROVE \E l : Obeys(l, k + 1)
  <2>1. PICK l : Obeys(l, k)
    BY <1>2
  <2> DEFINE new == [ t \in 0 .. k + 1 |-> IF t = 0 THEN leaves ELSE turn(l[t - 1]) ]
  <2> HIDE DEF leaves, turn
  <2>2. \A t \in 0 .. k : new[t] = l[t]
    BY <2>1
  <2>3. \A t \in 0 .. k + 1 : t # 0 => t - 1 \in 0 .. k
    OBVIOUS
  <2>4. \A t \in 0 .. k + 1 : (IF t = 0 THEN leaves ELSE turn(l[t - 1]))
                                = (IF t = 0 THEN leaves ELSE turn(new[t - 1]))
    <3> HIDE DEF new
    <3>1. QED BY <2>2, <2>3
  <2>5. Obeys(new, k + 1)
    <3>1. new = [ t \in 0 .. k + 1 |-> IF t = 0 THEN leaves ELSE turn(l[t - 1]) ]
      OBVIOUS
    <3> HIDE DEF new
    <3>2. QED BY <2>4, <3>1
  <2>6. QED BY <2>5
<1>3. n \notin Bad
  <2> HIDE DEF Obeys
  <2> SUFFICES ASSUME Bad # {} PROVE FALSE
    BY <1>0
  <2>1. PICK k \in Bad : \A j \in Bad : k <= j
    BY LeastNatural
  <2>2. k \in Nat /\ k # 0 /\ ~ \E l : Obeys(l, k)
    BY <1>1, <2>1
  <2>3. k - 1 \in Nat /\ k - 1 \notin Bad
    BY <2>1, <2>2
  <2>4. \E l : Obeys(l, k - 1 + 1)
    BY <1>2, <2>3
  <2>5. QED BY <2>2, <2>4
<1> DEFINE level == CHOOSE l : Obeys(l, n)
<1>4. MerkleRoot(ids) = level[n][1]
  BY DEF MerkleRoot
<1>5. Obeys(level, n)
  <2>1. \E l : Obeys(l, n)
    BY <1>0, <1>3
  <2> HIDE DEF Obeys
  <2>2. QED BY <2>1
<1> HIDE DEF level, n, turn
<1>6. level[0] = leaves /\ \A t \in 1 .. n : level[t] = turn(level[t - 1])
  <2>1. level = [ t \in 0 .. n |-> IF t = 0 THEN leaves ELSE turn(level[t - 1]) ]
    BY <1>5
  <2> HIDE DEF Obeys, leaves
  <2>2. 0 \in 0 .. n /\ \A t \in 1 .. n : t \in 0 .. n /\ t # 0
    BY <1>0
  <2>3. QED BY <2>1, <2>2, Zenon
<1>7. DOMAIN leaves = 1 .. n /\ Len(leaves) = n /\ Row(leaves)
  <2>1. leaves = [ i \in 1 .. n |-> leaves[i] ] /\ n \in Nat
    BY <1>0
  <2> HIDE DEF leaves
  <2>2. Len(leaves) = n /\ DOMAIN leaves = 1 .. n
    BY <2>1, FunctionsAreRows, Zenon
  <2>3. QED BY <1>0, <2>2 DEF Row
<1>8. DOMAIN level[0] = DOMAIN ids /\ \A i \in DOMAIN ids : level[0][i] = << ids[i] >>
  BY <1>0, <1>6, <1>7
<1> HIDE DEF leaves, Obeys
<1> DEFINE Right(t) == Row(level[t]) /\ (Len(level[t]) = 1 \/ Len(level[t]) + t <= n)
           Wrong == { t \in 0 .. n : ~ Right(t) }
<1>9. Wrong = {}
  <2> SUFFICES ASSUME Wrong # {} PROVE FALSE
    OBVIOUS
  <2>1. Wrong \in SUBSET Nat
    BY <1>0
  <2>2. PICK t \in Wrong : \A k \in Wrong : t <= k
    BY <2>1, LeastNatural
  <2>3. t \in 0 .. n /\ ~ Right(t)
    BY <2>2
  <2>4. t # 0
    <3>1. Right(0)
      BY <1>0, <1>6, <1>7
    <3>2. QED BY <2>3, <3>1
  <2>5. t - 1 \in 0 .. n /\ t - 1 \notin Wrong /\ t \in 1 .. n
    BY <1>0, <2>2, <2>3, <2>4
  <2> DEFINE row == level[t - 1]
             k == Len(row)
  <2>6. Row(row) /\ (k = 1 \/ k + (t - 1) <= n) /\ k \in Nat \ {0}
    BY <2>5 DEF Row
  <2>7. level[t] = turn(row)
    BY <1>6, <2>5
  <2> HIDE DEF row
  <2>8. CASE k <= 1
    <3>1. level[t] = row
      BY <2>7, <2>8 DEF turn
    <3>2. Len(level[t]) = 1
      <4>1. k \in Nat \ {0} /\ k <= 1
        BY <2>6, <2>8
      <4> HIDE DEF k
      <4>2. k = 1
        BY <4>1
      <4>3. QED BY <3>1, <4>2 DEF k
    <3>3. QED BY <2>3, <2>6, <3>1, <3>2
  <2>9. CASE ~ (k <= 1)
    <3>1. level[t] = NextLevel(row)
      BY <2>7, <2>9 DEF turn
    <3>2. Row(NextLevel(row)) /\ Len(NextLevel(row)) < k
      BY <2>6, <2>9, NextRow
    <3> DEFINE j == Len(NextLevel(row))
    <3>3. j \in Nat /\ j < k
      BY <3>2 DEF Row
    <3> HIDE DEF j, k
    <3>4. j + t <= n
      BY <1>0, <2>3, <2>6, <2>9, <3>3
    <3>5. QED BY <2>3, <3>1, <3>2, <3>4 DEF j
  <2>10. QED BY <2>8, <2>9
<1> DEFINE Short == { t \in 0 .. n : Len(level[t]) = 1 }
<1>10. n \in Short
  <2>1. n \in 0 .. n /\ n \notin Wrong
    BY <1>0, <1>9
  <2>2. Row(level[n]) /\ (Len(level[n]) = 1 \/ Len(level[n]) + n <= n)
    BY <2>1
  <2>3. Len(level[n]) \in Nat \ {0}
    BY <2>2 DEF Row
  <2>4. QED BY <1>0, <2>1, <2>2, <2>3
<1>11. PICK top \in Short : \A t \in Short : top <= t
  <2>1. Short \in SUBSET Nat /\ Short # {}
    BY <1>0, <1>10
  <2>2. QED BY <2>1, LeastNatural
<1>12. top \in 0 .. n /\ Len(level[top]) = 1
  BY <1>11
<1>13. \A t \in 0 .. top : Row(level[t])
  BY <1>0, <1>9, <1>12
<1>14. \A t \in 1 .. top : level[t] = NextLevel(level[t - 1])
  <2> SUFFICES ASSUME NEW t \in 1 .. top PROVE level[t] = NextLevel(level[t - 1])
    OBVIOUS
  <2>1. t \in 1 .. n /\ t - 1 \in 0 .. top /\ t - 1 \in 0 .. n /\ t - 1 \notin Short
    BY <1>0, <1>11, <1>12
  <2>2. Len(level[t - 1]) # 1 /\ Len(level[t - 1]) \in Nat \ {0}
    BY <1>13, <2>1 DEF Row
  <2>3. ~ (Len(level[t - 1]) <= 1)
    <3> DEFINE k == Len(level[t - 1])
    <3>1. k # 1 /\ k \in Nat \ {0}
      BY <2>2
    <3> HIDE DEF k
    <3>2. ~ (k <= 1)
      BY <3>1
    <3>3. QED BY <3>2 DEF k
  <2>4. QED BY <1>6, <2>1, <2>3 DEF turn
<1> DEFINE Other == { t \in top .. n : level[t] # level[top] }
<1>15. Other = {}
  <2> SUFFICES ASSUME Other # {} PROVE FALSE
    OBVIOUS
  <2>1. Other \in SUBSET Nat
    BY <1>0, <1>12
  <2>2. PICK t \in Other : \A k \in Other : t <= k
    BY <2>1, LeastNatural
  <2>3. t \in top .. n /\ t # top
    BY <2>2
  <2>4. t - 1 \in top .. n /\ t - 1 \notin Other /\ t \in 1 .. n
    BY <1>0, <1>12, <2>2, <2>3
  <2>5. level[t - 1] = level[top] /\ Len(level[t - 1]) <= 1
    <3>1. level[t - 1] = level[top]
      BY <2>4
    <3>2. Len(level[t - 1]) = 1
      BY <1>12, <3>1
    <3>3. QED BY <3>1, <3>2
  <2>6. level[t] = level[t - 1]
    BY <1>6, <2>4, <2>5 DEF turn
  <2>7. QED BY <2>2, <2>5, <2>6
<1>16. level[n] = level[top]
  BY <1>0, <1>12, <1>15
<1>17. MerkleRoot(ids) = level[top][1] /\ top \in Nat
  BY <1>0, <1>4, <1>12, <1>16
<1>18. QED BY <1>8, <1>12, <1>13, <1>14, <1>17

(* merkle_root is injective up to copies at the end: bodies of one root     *)
(* agree wherever both have a txid, and hold the same txids.                *)
LEMMA RootsAlike ==
    ASSUME NEW S, NEW a \in Seq(S), NEW b \in Seq(S), a # <<>>, b # <<>>,
           MerkleRoot(a) = MerkleRoot(b)
    PROVE  Alike(a, b)
<1>1. PICK f : \E top \in Nat :
               /\ MerkleRoot(a) = f[top][1] /\ Len(f[top]) = 1
               /\ DOMAIN f[0] = DOMAIN a /\ \A i \in DOMAIN a : f[0][i] = << a[i] >>
               /\ \A t \in 0 .. top : Row(f[t])
               /\ \A t \in 1 .. top : f[t] = NextLevel(f[t - 1])
  BY Turns
<1>2. PICK m \in Nat :
               /\ MerkleRoot(a) = f[m][1] /\ Len(f[m]) = 1
               /\ DOMAIN f[0] = DOMAIN a /\ \A i \in DOMAIN a : f[0][i] = << a[i] >>
               /\ \A t \in 0 .. m : Row(f[t])
               /\ \A t \in 1 .. m : f[t] = NextLevel(f[t - 1])
  BY <1>1
<1>3. PICK g : \E top \in Nat :
               /\ MerkleRoot(b) = g[top][1] /\ Len(g[top]) = 1
               /\ DOMAIN g[0] = DOMAIN b /\ \A i \in DOMAIN b : g[0][i] = << b[i] >>
               /\ \A t \in 0 .. top : Row(g[t])
               /\ \A t \in 1 .. top : g[t] = NextLevel(g[t - 1])
  BY Turns
<1>4. PICK n \in Nat :
               /\ MerkleRoot(b) = g[n][1] /\ Len(g[n]) = 1
               /\ DOMAIN g[0] = DOMAIN b /\ \A i \in DOMAIN b : g[0][i] = << b[i] >>
               /\ \A t \in 0 .. n : Row(g[t])
               /\ \A t \in 1 .. n : g[t] = NextLevel(g[t - 1])
  BY <1>3
<1>5. Alike(f[m], g[n])
  <2>1. DOMAIN f[m] = 1 .. 1 /\ DOMAIN g[n] = 1 .. 1
    BY <1>2, <1>4 DEF Row
  <2>2. f[m][1] = g[n][1]
    BY <1>2, <1>4
  <2>3. QED BY <2>1, <2>2 DEF Alike
<1> DEFINE Least == IF m <= n THEN m ELSE n
           Wrong == { k \in 0 .. Least : ~ Alike(f[m - k], g[n - k]) }
<1>6. Wrong = {}
  <2> SUFFICES ASSUME Wrong # {} PROVE FALSE
    OBVIOUS
  <2>1. Wrong \in SUBSET Nat
    OBVIOUS
  <2>2. PICK k \in Wrong : \A j \in Wrong : k <= j
    BY <2>1, LeastNatural
  <2>3. k \in 0 .. Least /\ k # 0
    BY <1>5, <2>2
  <2>4. k - 1 \in 0 .. Least /\ k - 1 \notin Wrong /\ Least <= m /\ Least <= n /\ Least \in Nat
    <3>1. Least \in Nat /\ Least <= m /\ Least <= n
      OBVIOUS
    <3> HIDE DEF Least
    <3>2. k \in Nat /\ k - 1 \in 0 .. Least
      BY <2>3, <3>1
    <3>3. k - 1 \notin Wrong
      <4> HIDE DEF Wrong
      <4>1. ~ (k <= k - 1)
        BY <3>2
      <4>2. QED BY <2>2, <4>1
    <3>4. QED BY <3>1, <3>2, <3>3
  <2> DEFINE s == m - k
             t == n - k
  <2>5. /\ s \in 0 .. m /\ t \in 0 .. n /\ s + 1 \in 1 .. m /\ t + 1 \in 1 .. n
        /\ m - (k - 1) = s + 1 /\ n - (k - 1) = t + 1
    <3> HIDE DEF Least
    <3>1. QED BY <2>3, <2>4
  <2>6. Alike(f[s + 1], g[t + 1])
    <3>1. Alike(f[m - (k - 1)], g[n - (k - 1)])
      BY <2>4
    <3>2. QED BY <2>5, <3>1
  <2>7. f[s + 1] = NextLevel(f[s]) /\ g[t + 1] = NextLevel(g[t])
    <3> DEFINE u == s + 1
               v == t + 1
    <3>1. u \in 1 .. m /\ v \in 1 .. n /\ u - 1 = s /\ v - 1 = t
      BY <2>5
    <3> HIDE DEF u, v, s, t
    <3>2. f[u] = NextLevel(f[u - 1]) /\ g[v] = NextLevel(g[v - 1])
      BY <1>2, <1>4, <3>1
    <3>3. QED BY <3>1, <3>2 DEF u, v
  <2>8. Row(f[s]) /\ Row(g[t])
    BY <1>2, <1>4, <2>5
  <2>9. Alike(f[s], g[t])
    <3> HIDE DEF s, t
    <3>1. QED BY <2>6, <2>7, <2>8, AlikeBelow
  <2>10. QED BY <2>2, <2>9
<1>7. ASSUME NEW top \in Nat, NEW row, NEW below, NEW x, NEW leaf, Row(below),
             row = NextLevel(below), leaf[1] = << x >>, row[1] = leaf[1]
      PROVE  FALSE
  <2> DEFINE y == IF 2 * 1 <= Len(below) THEN below[2 * 1] ELSE below[2 * 1 - 1]
  <2>1. 1 \in 1 .. Half(Len(below))
    BY <1>7 DEF Half, Row
  <2>2. row[1] = << below[2 * 1 - 1], y >>
    BY <1>7, <2>1, NextRow
  <2> HIDE DEF y
  <2>3. << x >> = << below[2 * 1 - 1], y >>
    BY <1>7, <2>2
  <2>4. QED BY <2>3, Tuples, Zenon
<1>8. 1 \in DOMAIN a /\ 1 \in DOMAIN b
  OBVIOUS
<1>9. m = n
  <2>1. ASSUME m < n PROVE FALSE
    <3> DEFINE d == n - m
    <3>1. d \in 1 .. n /\ d - 1 \in 0 .. n /\ m - m = 0 /\ m \in 0 .. Least
      BY <2>1
    <3>2. Alike(f[0], g[d])
      <4>1. m \notin Wrong
        BY <1>6
      <4>2. Alike(f[m - m], g[n - m])
        BY <3>1, <4>1
      <4>3. QED BY <3>1, <4>2
    <3> HIDE DEF d
    <3>3. g[d] = NextLevel(g[d - 1]) /\ Row(g[d - 1]) /\ Row(g[d])
      BY <1>4, <3>1
    <3>4. 1 \in DOMAIN f[0] /\ 1 \in DOMAIN g[d]
      BY <1>2, <1>8, <3>3 DEF Row
    <3>5. g[d][1] = f[0][1]
      BY <3>2, <3>4 DEF Alike
    <3>6. f[0][1] = << a[1] >>
      BY <1>2, <1>8
    <3>7. QED BY <1>7, <3>3, <3>5, <3>6
  <2>2. ASSUME n < m PROVE FALSE
    <3> DEFINE d == m - n
    <3>1. d \in 1 .. m /\ d - 1 \in 0 .. m /\ n - n = 0 /\ n \in 0 .. Least
      BY <2>2
    <3>2. Alike(f[d], g[0])
      <4>1. n \notin Wrong
        BY <1>6
      <4>2. Alike(f[m - n], g[n - n])
        BY <3>1, <4>1
      <4>3. QED BY <3>1, <4>2
    <3> HIDE DEF d
    <3>3. f[d] = NextLevel(f[d - 1]) /\ Row(f[d - 1]) /\ Row(f[d])
      BY <1>2, <3>1
    <3>4. 1 \in DOMAIN g[0] /\ 1 \in DOMAIN f[d]
      BY <1>4, <1>8, <3>3 DEF Row
    <3>5. f[d][1] = g[0][1]
      BY <3>2, <3>4 DEF Alike
    <3>6. g[0][1] = << b[1] >>
      BY <1>4, <1>8
    <3>7. QED BY <1>7, <3>3, <3>5, <3>6
  <2>3. QED BY <2>1, <2>2
<1>10. Alike(f[0], g[0])
  <2>1. m \in 0 .. Least /\ m \notin Wrong /\ m - m = 0 /\ n - m = 0
    <3>1. m \notin Wrong
      BY <1>6
    <3>2. Least = m
      BY <1>9
    <3>3. QED BY <1>9, <3>1, <3>2
  <2>2. Alike(f[m - m], g[n - m])
    BY <2>1
  <2>3. QED BY <2>1, <2>2
<1> HIDE DEF Wrong, Least
<1>11. \A i \in DOMAIN a, k \in DOMAIN b : f[0][i] = g[0][k] => a[i] = b[k]
  <2> SUFFICES ASSUME NEW i \in DOMAIN a, NEW k \in DOMAIN b, f[0][i] = g[0][k] PROVE a[i] = b[k]
    OBVIOUS
  <2>1. << a[i] >> = << b[k] >>
    BY <1>2, <1>4
  <2>2. QED BY <2>1
<1>12. DOMAIN f[0] = DOMAIN a /\ DOMAIN g[0] = DOMAIN b
  BY <1>2, <1>4
<1>13. QED BY <1>10, <1>11, <1>12 DEF Alike

-----------------------------------------------------------------------------
(* What a header fixes *)

(* A valid body has no transaction with inputs twice: a coinbase is first,  *)
(* and the outputs another one consumes are spent when it comes again.      *)
LEMMA NoMoveTwice ==
    ASSUME NEW body \in Seq(Tx), NEW utxos, NEW h, ValidateBody(body, utxos, h),
           NEW i \in DOMAIN body, NEW k \in DOMAIN body,
           body[i] = body[k], HasInputs(body[i])
    PROVE  i = k
<1>1. \A j, l \in DOMAIN body : body[j] = body[l] /\ HasInputs(body[j]) => ~ (j < l)
  <2> SUFFICES ASSUME NEW j \in DOMAIN body, NEW l \in DOMAIN body,
                      body[j] = body[l], HasInputs(body[j]), j < l
               PROVE  FALSE
    OBVIOUS
  <2> DEFINE t == body[l]
  <2>1. DOMAIN body = 1 .. Len(body) /\ Len(body) \in Nat /\ t \in Tx
    OBVIOUS
  <2>2. l \in 2 .. Len(body) /\ j \in 1 .. l - 1
    BY <2>1
  <2>3. ~ IsCoinbase(t) /\ ValidateTransaction(t, utxos, SpentBefore(body, l))
    BY <2>2 DEF ValidateBody
  <2>4. IsCoinbase(body[1])
    BY DEF ValidateBody
  <2>5. j \in 2 .. l - 1
    BY <2>2, <2>3, <2>4
  <2>6. Inputs[t] \in Seq(Range(Inputs[t])) /\ Inputs[t] # <<>>
    BY <2>1, LedgerAssumption DEF HasInputs
  <2>7. 1 \in DOMAIN Inputs[t]
    <3> DEFINE s == Inputs[t]
               S == Range(Inputs[t])
    <3>1. s \in Seq(S) /\ s # <<>>
      BY <2>6
    <3> HIDE DEF s, S
    <3>2. 1 \in DOMAIN s
      BY <3>1
    <3>3. QED BY <3>2 DEF s
  <2>8. OutPointOf(Inputs[t][1]) \in Spent(t)
    BY <2>3, <2>7 DEF Spent
  <2>9. OutPointOf(Inputs[t][1]) \in SpentBefore(body, l)
    BY <2>5, <2>8 DEF SpentBefore
  <2>10. OutPointOf(Inputs[t][1]) \notin SpentBefore(body, l)
    BY <2>3, <2>7 DEF ValidateTransaction
  <2>11. QED BY <2>9, <2>10
<1>2. i \in Nat /\ k \in Nat
  OBVIOUS
<1>3. ~ (i < k) /\ ~ (k < i)
  BY <1>1
<1>4. QED BY <1>2, <1>3

(* In a valid body that differs from another by copies alone, no            *)
(* transaction with inputs lies beyond the end of the other.                *)
LEMMA MovesWithin ==
    ASSUME NEW a \in Seq(Tx), NEW b \in Seq(Tx), Alike(a, b),
           NEW utxos, NEW h, ValidateBody(a, utxos, h)
    PROVE  Moves(a) \subseteq Moves(b)
<1> SUFFICES ASSUME NEW i \in DOMAIN a, HasInputs(a[i]) PROVE <<i, a[i]>> \in Moves(b)
  BY DEF Moves
<1>1. PICK k \in DOMAIN b : a[i] = b[k]
  BY DEF Alike
<1>2. i \in DOMAIN b
  <2> SUFFICES ASSUME i \notin DOMAIN b PROVE FALSE
    OBVIOUS
  <2>1. k < i
    <3>1. i \in 1 .. Len(a) /\ k \in 1 .. Len(b) /\ Len(b) \in Nat /\ Len(a) \in Nat /\ ~ (i \in 1 .. Len(b))
      OBVIOUS
    <3>2. QED BY <3>1
  <2>2. k \in DOMAIN a
    <3>1. i \in 1 .. Len(a) /\ k \in 1 .. Len(b) /\ Len(b) \in Nat /\ Len(a) \in Nat
      OBVIOUS
    <3>2. k \in 1 .. Len(a)
      BY <2>1, <3>1
    <3>3. QED BY <3>2
  <2>3. a[k] = a[i]
    BY <1>1, <2>2 DEF Alike
  <2>4. k = i
    BY <2>2, <2>3, NoMoveTwice
  <2>5. k \in Nat /\ i \in Nat
    OBVIOUS
  <2>6. QED BY <2>1, <2>4, <2>5
<1>3. a[i] = b[i]
  BY <1>2 DEF Alike
<1>4. QED BY <1>2, <1>3 DEF Moves

(* verify_merkle_root and validate_block together: of all bodies that fit   *)
(* the header of a block the chain would take, of any length and with any   *)
(* repetitions, those the rules accept move the same money at the same      *)
(* places, although merkle_root gives bodies with repeated txids one root.  *)
THEOREM HeadersFixMoves == Spec => []RootFixesBody
<1>1. RootFixesBody
  <2> SUFFICES ASSUME NEW b \in Block, ValidateBlock(b, utxo_set, height + 1),
                      NEW twin \in BodiesOver(b), MerkleRoot(twin) = Root[b],
                      ValidateBody(twin, utxo_set, height + 1)
               PROVE  Moves(twin) = Moves(Body[b])
    BY DEF RootFixesBody
  <2>1. Body[b] \in Seq(Tx)
    BY BlocksAssumption
  <2>2. MerkleRoot(twin) = MerkleRoot(Body[b]) /\ ValidateBody(Body[b], utxo_set, height + 1)
    BY DEF ValidateBlock, VerifyMerkleRoot
  <2>3. twin \in Seq(Tx)
    <3>1. PICK n \in 1 .. 2 * Len(Body[b]) : twin \in [ 1 .. n -> ToSet(Body[b]) ]
      BY DEF BodiesOver
    <3>2. ToSet(Body[b]) \subseteq Tx
      BY <2>1 DEF ToSet
    <3>3. Len(Body[b]) \in Nat
      BY <2>1
    <3>4. n \in Nat /\ twin \in [ 1 .. n -> Tx ]
      BY <3>1, <3>2, <3>3
    <3>5. QED BY <3>4, SeqDef
  <2>4. twin # <<>> /\ Body[b] # <<>>
    BY <2>2 DEF ValidateBody
  <2>5. Alike(twin, Body[b])
    BY <2>1, <2>2, <2>3, <2>4, RootsAlike
  <2>6. Alike(Body[b], twin)
    BY <2>5 DEF Alike
  <2>7. Moves(twin) \subseteq Moves(Body[b])
    BY <2>1, <2>2, <2>3, <2>5, MovesWithin
  <2>8. Moves(Body[b]) \subseteq Moves(twin)
    BY <2>1, <2>2, <2>3, <2>6, MovesWithin
  <2>9. QED BY <2>7, <2>8
<1>2. QED BY <1>1, PTL

-----------------------------------------------------------------------------
(* Phrases *)

\* Values of a recursion over numbers: from a at 0, by H[i] from i - 1 to i.
Unfolds(f, a, n, H) == f[0] = a /\ \A i \in 1 .. n : f[i] = H[i][f[i - 1]]
Unfolding(S, a, n, H) == \E f \in [ 0 .. n -> S ] : Unfolds(f, a, n, H)
Stays(S, n, H) == \A i \in 1 .. n : \A x \in S : H[i][x] \in S

(* A recursion that stays within a set has a function.                      *)
LEMMA Recursion ==
    ASSUME NEW S, NEW a \in S, NEW n \in Nat, NEW H, Stays(S, n, H)
    PROVE  Unfolding(S, a, n, H)
<1> DEFINE Found(k) == \E f \in [ 0 .. k -> S ] :
                           f[0] = a /\ \A i \in 1 .. k : f[i] = H[i][f[i - 1]]
           P == { k \in Nat : k <= n => Found(k) }
<1>1. Found(0)
  <2> DEFINE f == [ i \in 0 .. 0 |-> a ]
  <2>1. f \in [ 0 .. 0 -> S ] /\ f[0] = a /\ \A i \in 1 .. 0 : f[i] = H[i][f[i - 1]]
    OBVIOUS
  <2> HIDE DEF f
  <2>2. QED BY <2>1
<1>2. ASSUME NEW k \in Nat, k + 1 <= n, Found(k) PROVE Found(k + 1)
  <2>1. PICK f \in [ 0 .. k -> S ] : f[0] = a /\ \A i \in 1 .. k : f[i] = H[i][f[i - 1]]
    BY <1>2
  <2> DEFINE g == [ i \in 0 .. k + 1 |-> IF i \in 0 .. k THEN f[i] ELSE H[i][f[k]] ]
  <2>2. H[k + 1][f[k]] \in S
    BY <1>2, <2>1 DEF Stays
  <2>3. /\ g \in [ 0 .. k + 1 -> S ] /\ \A i \in 0 .. k : g[i] = f[i]
        /\ g[k + 1] = H[k + 1][f[k]]
    BY <2>1, <2>2
  <2> HIDE DEF g
  <2>4. \A i \in 1 .. k + 1 : g[i] = H[i][g[i - 1]]
    <3> SUFFICES ASSUME NEW i \in 1 .. k + 1 PROVE g[i] = H[i][g[i - 1]]
      OBVIOUS
    <3>1. CASE i \in 1 .. k
      BY <2>1, <2>3, <3>1
    <3>2. CASE i = k + 1
      <4>1. i - 1 = k /\ g[k] = f[k]
        BY <2>3, <3>2
      <4>2. QED BY <2>3, <3>2, <4>1
    <3>3. QED BY <3>1, <3>2
  <2>5. g[0] = a
    BY <2>1, <2>3
  <2>6. QED BY <2>3, <2>4, <2>5
<1> HIDE DEF Found
<1>3. 0 \in P /\ \A k \in Nat : k \in P => k + 1 \in P
  BY <1>1, <1>2
<1> HIDE DEF P
<1>4. Nat \subseteq P
  BY <1>3, NaturalInduction
<1>5. Found(n)
  BY <1>4 DEF P
<1>6. QED BY <1>5 DEF Found, Unfolding, Unfolds

(* The sizes in MnemonicAssumption.                                         *)
LEMMA BitCounts ==
    /\ WordBits \in Nat /\ WordBits >= 1 /\ Ratio \in Nat /\ Ratio >= 1
    /\ EntropyLengths \subseteq Nat
BY MnemonicAssumption

(* The recursion of Power2 is well founded.                                 *)
LEMMA PowersOfTwo ==
    /\ Power2[0] = 1
    /\ \A n \in 1 .. WordBits : Power2[n] = 2 * Power2[n - 1]
    /\ \A n \in 0 .. WordBits : Power2[n] \in Nat /\ Power2[n] >= 1
<1> DEFINE Obeys(p) == p = [ n \in 0 .. WordBits |-> IF n = 0 THEN 1 ELSE 2 * p[n - 1] ]
           Positive == Nat \ {0}
           H == [ i \in 1 .. WordBits |-> [ x \in Positive |-> 2 * x ] ]
<1>1. \A i \in 1 .. WordBits : \A x \in Positive : H[i][x] = 2 * x /\ H[i][x] \in Positive
  <2>1. \A x \in Positive : 2 * x \in Positive
    OBVIOUS
  <2> HIDE DEF Positive
  <2>2. QED BY <2>1
<1>2. Unfolding(Positive, 1, WordBits, H)
  <2>1. Stays(Positive, WordBits, H)
    BY <1>1 DEF Stays
  <2>2. WordBits \in Nat /\ 1 \in Positive
    BY BitCounts
  <2> HIDE DEF H, Positive
  <2>3. QED BY <2>1, <2>2, Recursion
<1>3. PICK f \in [ 0 .. WordBits -> Positive ] :
          f[0] = 1 /\ \A i \in 1 .. WordBits : f[i] = H[i][f[i - 1]]
  BY <1>2 DEF Unfolding, Unfolds
<1>4. Obeys(f)
  <2>1. ASSUME NEW n \in 0 .. WordBits
        PROVE  f[n] = IF n = 0 THEN 1 ELSE 2 * f[n - 1]
    <3>1. CASE n = 0
      BY <1>3, <3>1
    <3>2. CASE n # 0
      <4>1. n \in 1 .. WordBits /\ n - 1 \in 0 .. WordBits
        BY <3>2, BitCounts
      <4>2. f[n - 1] \in Positive
        BY <1>3, <4>1
      <4> HIDE DEF H, Positive
      <4>3. QED BY <1>1, <1>3, <3>2, <4>1, <4>2
    <3>3. QED BY <3>1, <3>2
  <2>2. f = [ n \in 0 .. WordBits |-> f[n] ]
    BY <1>3
  <2>3. QED BY <2>1, <2>2
<1>5. Power2 = CHOOSE p : Obeys(p)
  BY DEF Power2
<1>6. Obeys(Power2)
  <2> HIDE DEF Obeys
  <2>1. QED BY <1>4, <1>5
<1>7. Power2 = [ n \in 0 .. WordBits |-> IF n = 0 THEN 1 ELSE 2 * Power2[n - 1] ]
  BY <1>6
<1>8. 0 \in 0 .. WordBits /\ \A n \in 1 .. WordBits : n \in 0 .. WordBits /\ n # 0
  BY BitCounts
<1>9. Power2[0] = 1 /\ \A n \in 1 .. WordBits : Power2[n] = 2 * Power2[n - 1]
  BY <1>7, <1>8, Zenon
<1> DEFINE P == { n \in Nat : n <= WordBits => Power2[n] \in Nat /\ Power2[n] >= 1 }
<1>10. 0 \in P
  BY <1>9
<1>11. ASSUME NEW n \in Nat, n \in P PROVE n + 1 \in P
  <2> SUFFICES ASSUME n + 1 <= WordBits PROVE Power2[n + 1] \in Nat /\ Power2[n + 1] >= 1
    OBVIOUS
  <2>1. n <= WordBits /\ n + 1 \in 1 .. WordBits /\ n + 1 - 1 = n
    BY BitCounts
  <2>2. Power2[n] \in Nat /\ Power2[n] >= 1
    BY <1>11, <2>1
  <2> DEFINE m == n + 1
  <2>3. m \in 1 .. WordBits /\ m - 1 = n
    BY <2>1
  <2> HIDE DEF m
  <2>4. Power2[m] = 2 * Power2[n]
    BY <1>9, <2>3
  <2>5. QED BY <2>2, <2>4 DEF m
<1>12. Nat \subseteq P
  <2> HIDE DEF P
  <2>1. QED BY <1>10, <1>11, NaturalInduction
<1>13. QED BY <1>9, <1>12, BitCounts

(* The recursion of NumberOf is well founded.                               *)
LEMMA NumberUnfolds ==
    ASSUME NEW n \in Nat, NEW bits \in [ 1 .. n -> Bit ]
    PROVE  \E v \in [ 0 .. n -> Nat ] :
               /\ v[0] = 0 /\ \A i \in 1 .. n : v[i] = 2 * v[i - 1] + bits[i]
               /\ NumberOf(bits) = v[n]
<1> DEFINE Obeys(p) == p = [ i \in 0 .. n |-> IF i = 0 THEN 0 ELSE 2 * p[i - 1] + bits[i] ]
           H == [ i \in 1 .. n |-> [ x \in Nat |-> 2 * x + bits[i] ] ]
<1>1. \A i \in 1 .. n : \A x \in Nat : H[i][x] = 2 * x + bits[i] /\ H[i][x] \in Nat
  <2>1. \A i \in 1 .. n : bits[i] \in Nat
    BY DEF Bit
  <2>2. \A i \in 1 .. n : \A x \in Nat : 2 * x + bits[i] \in Nat
    BY <2>1
  <2>3. QED BY <2>2
<1>2. Unfolding(Nat, 0, n, H)
  <2>1. Stays(Nat, n, H)
    BY <1>1 DEF Stays
  <2> HIDE DEF H
  <2>2. QED BY <2>1, Recursion
<1>3. PICK f \in [ 0 .. n -> Nat ] : f[0] = 0 /\ \A i \in 1 .. n : f[i] = H[i][f[i - 1]]
  BY <1>2 DEF Unfolding, Unfolds
<1>4. Obeys(f)
  <2>1. ASSUME NEW i \in 0 .. n
        PROVE  f[i] = IF i = 0 THEN 0 ELSE 2 * f[i - 1] + bits[i]
    <3>1. CASE i = 0
      BY <1>3, <3>1
    <3>2. CASE i # 0
      <4>1. i \in 1 .. n /\ i - 1 \in 0 .. n
        BY <3>2
      <4>2. f[i - 1] \in Nat
        BY <1>3, <4>1
      <4> HIDE DEF H
      <4>3. QED BY <1>1, <1>3, <3>2, <4>1, <4>2
    <3>3. QED BY <3>1, <3>2
  <2>2. f = [ i \in 0 .. n |-> f[i] ]
    BY <1>3
  <2>3. QED BY <2>1, <2>2
<1>5. Len(bits) = n
  BY LenProperties
<1> DEFINE v == CHOOSE p : Obeys(p)
<1>6. NumberOf(bits) = v[n]
  BY <1>5 DEF NumberOf
<1>7. Obeys(v)
  <2> HIDE DEF Obeys
  <2>1. QED BY <1>4
<1>8. v = [ i \in 0 .. n |-> IF i = 0 THEN 0 ELSE 2 * v[i - 1] + bits[i] ]
  BY <1>7
<1> HIDE DEF v, Obeys
<1>9. v[0] = 0 /\ \A i \in 1 .. n : v[i] = 2 * v[i - 1] + bits[i]
  <2>1. 0 \in 0 .. n /\ \A i \in 1 .. n : i \in 0 .. n /\ i # 0
    OBVIOUS
  <2>2. QED BY <1>8, <2>1, Zenon
<1> DEFINE P == { k \in Nat : k <= n => v[k] \in Nat }
<1>10. 0 \in P
  BY <1>9
<1>11. ASSUME NEW k \in Nat, k \in P PROVE k + 1 \in P
  <2> SUFFICES ASSUME k + 1 <= n PROVE v[k + 1] \in Nat
    OBVIOUS
  <2> DEFINE m == k + 1
  <2>1. m \in 1 .. n /\ m - 1 = k /\ k <= n
    OBVIOUS
  <2>2. v[k] \in Nat
    BY <1>11, <2>1
  <2> HIDE DEF m
  <2>3. v[m] = 2 * v[m - 1] + bits[m] /\ bits[m] \in Nat
    <3>1. bits[m] \in Bit
      BY <2>1
    <3>2. QED BY <1>9, <2>1, <3>1 DEF Bit
  <2>4. v[m] \in Nat
    BY <2>1, <2>2, <2>3
  <2>5. QED BY <2>4 DEF m
<1>12. Nat \subseteq P
  <2> HIDE DEF P
  <2>1. QED BY <1>10, <1>11, NaturalInduction
<1>13. v \in [ 0 .. n -> Nat ]
  <2>1. \A k \in 0 .. n : v[k] \in Nat
    BY <1>12
  <2>2. v = [ k \in 0 .. n |-> v[k] ]
    BY <1>8
  <2>3. QED BY <2>1, <2>2
<1>14. QED BY <1>6, <1>9, <1>13

(* The bits of a number are those it was put together from: what is left of *)
(* it after k shifts to the right is the value of all bits but the last k.  *)
LEMMA BitsOfNumber ==
    ASSUME NEW bits \in [ 1 .. WordBits -> Bit ]
    PROVE  /\ NumberOf(bits) \in 0 .. Power2[WordBits] - 1
           /\ BitsOf(NumberOf(bits)) = bits
<1>1. WordBits \in Nat /\ WordBits >= 1
  BY BitCounts
<1>2. PICK v \in [ 0 .. WordBits -> Nat ] :
          /\ v[0] = 0 /\ \A i \in 1 .. WordBits : v[i] = 2 * v[i - 1] + bits[i]
          /\ NumberOf(bits) = v[WordBits]
  BY <1>1, NumberUnfolds
<1> DEFINE w == v[WordBits]
           Rest(k) == w - Power2[k] * v[WordBits - k]
           P == { k \in Nat : k <= WordBits => Rest(k) \in 0 .. Power2[k] - 1 }
<1>3. w \in Nat
  BY <1>1, <1>2
<1>4. 0 \in P
  <2>1. Power2[0] = 1 /\ WordBits - 0 = WordBits
    BY <1>1, PowersOfTwo
  <2>2. Rest(0) = w - 1 * w
    BY <2>1
  <2>3. QED BY <1>3, <2>1, <2>2
<1>5. ASSUME NEW k \in Nat, k \in P PROVE k + 1 \in P
  <2> SUFFICES ASSUME k + 1 <= WordBits PROVE Rest(k + 1) \in 0 .. Power2[k + 1] - 1
    OBVIOUS
  <2> DEFINE m == k + 1
             i == WordBits - k
             p == Power2[k]
             x == v[i - 1]
             b == bits[i]
  <2>1. /\ m \in 1 .. WordBits /\ m - 1 = k /\ k \in 0 .. WordBits
        /\ i \in 1 .. WordBits /\ WordBits - m = i - 1 /\ i - 1 \in 0 .. WordBits
    BY <1>1
  <2>2. Rest(k) \in 0 .. p - 1
    BY <1>5, <2>1
  <2>3. v[i] = 2 * x + b /\ x \in Nat /\ b \in {0, 1}
    <3> HIDE DEF i
    <3>1. QED BY <1>2, <2>1 DEF Bit
  <2>4. p \in Nat /\ p >= 1 /\ Power2[m] = 2 * p
    <3> HIDE DEF m
    <3>1. QED BY <2>1, PowersOfTwo
  <2>5. w - p * (2 * x + b) \in 0 .. p - 1
    BY <2>2, <2>3
  <2>6. Rest(m) = w - (2 * p) * x
    BY <2>1, <2>4
  <2> HIDE DEF w, x, b, p, m, i
  <2>7. w - (2 * p) * x \in 0 .. 2 * p - 1
    <3>1. p * x \in Nat /\ (2 * p) * x = 2 * (p * x)
      BY <2>3, <2>4
    <3>2. CASE b = 0
      <4>1. p * (2 * x + b) = 2 * (p * x)
        BY <2>3, <2>4, <3>2
      <4>2. QED BY <1>3, <2>4, <2>5, <3>1, <4>1
    <3>3. CASE b = 1
      <4>1. p * (2 * x + b) = 2 * (p * x) + p
        BY <2>3, <2>4, <3>3
      <4>2. QED BY <1>3, <2>4, <2>5, <3>1, <4>1
    <3>4. QED BY <2>3, <3>2, <3>3
  <2>8. Rest(m) \in 0 .. Power2[m] - 1
    BY <2>4, <2>6, <2>7
  <2>9. QED BY <2>8 DEF m
<1>6. Nat \subseteq P
  <2> HIDE DEF P
  <2>1. QED BY <1>4, <1>5, NaturalInduction
<1>7. ASSUME NEW k \in 0 .. WordBits
      PROVE  w \div Power2[k] = v[WordBits - k] /\ Rest(k) \in 0 .. Power2[k] - 1
  <2> DEFINE p == Power2[k]
             q == v[WordBits - k]
             r == Rest(k)
  <2>1. p \in Nat \ {0} /\ q \in Int
    <3>1. p \in Nat /\ p >= 1
      BY PowersOfTwo
    <3>2. WordBits - k \in 0 .. WordBits
      BY <1>1
    <3>3. QED BY <1>2, <3>1, <3>2
  <2>2. r \in 0 .. p - 1
    BY <1>6
  <2>3. w = p * q + r
    <3>1. r = w - p * q /\ p * q \in Int
      BY <2>1
    <3> HIDE DEF p, q, r, w
    <3>2. QED BY <1>3, <3>1
  <2> HIDE DEF p, q, r, w
  <2>4. w \div p = q
    BY <2>1, <2>2, <2>3, QuotientOf
  <2>5. QED BY <2>2, <2>4 DEF p, q, r
<1>8. w \in 0 .. Power2[WordBits] - 1
  <2>1. WordBits \in 0 .. WordBits /\ WordBits - WordBits = 0
    BY <1>1
  <2>2. Rest(WordBits) \in 0 .. Power2[WordBits] - 1
    BY <1>7, <2>1
  <2>3. Rest(WordBits) = w
    <3>1. Rest(WordBits) = w - Power2[WordBits] * 0
      BY <1>2, <2>1
    <3>2. Power2[WordBits] \in Nat
      BY <2>1, PowersOfTwo
    <3>3. QED BY <1>3, <3>1, <3>2
  <2>4. QED BY <2>2, <2>3
<1>9. ASSUME NEW i \in 1 .. WordBits
      PROVE  (w \div Power2[WordBits - i]) % 2 = bits[i]
  <2> DEFINE k == WordBits - i
  <2>1. k \in 0 .. WordBits /\ WordBits - k = i /\ i - 1 \in 0 .. WordBits
    BY <1>1
  <2>2. w \div Power2[k] = v[i]
    <3> HIDE DEF k
    <3>1. w \div Power2[k] = v[WordBits - k]
      BY <1>7, <2>1
    <3>2. QED BY <2>1, <3>1
  <2>3. v[i] = 2 * v[i - 1] + bits[i] /\ v[i - 1] \in Int /\ bits[i] \in 0 .. 2 - 1 /\ 2 \in Nat \ {0}
    BY <1>2, <2>1 DEF Bit
  <2>4. v[i] % 2 = bits[i]
    <3> DEFINE x == v[i]
               y == v[i - 1]
               b == bits[i]
    <3>1. x = 2 * y + b /\ y \in Int /\ b \in 0 .. 2 - 1
      BY <2>3
    <3> HIDE DEF x, y, b
    <3>2. x % 2 = b
      <4>1. 2 \in Nat \ {0} /\ y \in Int /\ b \in 0 .. 2 - 1 /\ x = 2 * y + b
        BY <3>1
      <4>2. QED BY <4>1, QuotientOf, Zenon
    <3>3. QED BY <3>2 DEF x, b
  <2>5. QED BY <2>2, <2>4
<1> HIDE DEF w
<1>10. BitsOf(w) = bits
  <2>1. BitsOf(w) = [ i \in 1 .. WordBits |-> bits[i] ]
    BY <1>9 DEF BitsOf
  <2>2. QED BY <2>1
<1>11. NumberOf(bits) = w
  BY <1>2 DEF w
<1>12. QED BY <1>8, <1>10, <1>11

(* A shift to the left by one and a bit, before and after a product.        *)
LEMMA Doubling ==
    ASSUME NEW p \in Nat \ {0}, NEW h \in Int, NEW b \in {0, 1}, NEW r \in 0 .. p - 1
    PROVE  /\ 2 * p \in Nat \ {0} /\ p * b + r \in 0 .. 2 * p - 1
           /\ p * (2 * h + b) + r = (2 * p) * h + (p * b + r)
<1>1. p * h \in Int /\ (2 * p) * h = 2 * (p * h)
  OBVIOUS
<1>2. CASE b = 0
  <2>1. p * b = 0 /\ p * (2 * h + b) = 2 * (p * h)
    BY <1>1, <1>2
  <2>2. QED BY <1>1, <2>1
<1>3. CASE b = 1
  <2>1. p * b = p /\ p * (2 * h + b) = 2 * (p * h) + p
    BY <1>1, <1>3
  <2>2. QED BY <1>1, <2>1
<1>4. QED BY <1>2, <1>3

(* A number of the list is what its bits put together.                      *)
LEMMA NumberOfBits ==
    ASSUME NEW w \in 0 .. Power2[WordBits] - 1
    PROVE  BitsOf(w) \in [ 1 .. WordBits -> Bit ] /\ NumberOf(BitsOf(w)) = w
<1> DEFINE bits == BitsOf(w)
<1>1. WordBits \in Nat /\ WordBits >= 1 /\ w \in Nat
  <2>1. WordBits \in Nat /\ WordBits >= 1 /\ WordBits \in 0 .. WordBits
    BY BitCounts
  <2>2. Power2[WordBits] \in Nat
    BY <2>1, PowersOfTwo
  <2>3. QED BY <2>1, <2>2
<1>2. ASSUME NEW i \in 1 .. WordBits
      PROVE  /\ w \div Power2[WordBits - i] \in Int
             /\ bits[i] = (w \div Power2[WordBits - i]) % 2 /\ bits[i] \in Bit
  <2> DEFINE p == Power2[WordBits - i]
             x == w \div p
  <2>1. WordBits - i \in 0 .. WordBits
    BY <1>1
  <2>2. p \in Nat \ {0}
    BY <2>1, PowersOfTwo
  <2>3. x \in Int
    <3> HIDE DEF p
    <3>1. QED BY <1>1, <2>2, Division
  <2>4. bits[i] = x % 2
    BY DEF BitsOf
  <2> HIDE DEF x
  <2>5. x % 2 \in Bit
    BY <2>3 DEF Bit
  <2>6. QED BY <2>3, <2>4, <2>5 DEF x
<1>3. bits \in [ 1 .. WordBits -> Bit ]
  <2>1. bits = [ i \in 1 .. WordBits |-> (w \div Power2[WordBits - i]) % 2 ]
    BY DEF BitsOf
  <2>2. \A i \in 1 .. WordBits : (w \div Power2[WordBits - i]) % 2 \in Bit
    BY <1>2
  <2>3. QED BY <2>1, <2>2
<1>4. PICK v \in [ 0 .. WordBits -> Nat ] :
          /\ v[0] = 0 /\ \A i \in 1 .. WordBits : v[i] = 2 * v[i - 1] + bits[i]
          /\ NumberOf(bits) = v[WordBits]
  <2> HIDE DEF bits
  <2>1. QED BY <1>1, <1>3, NumberUnfolds
<1> DEFINE P == { i \in Nat : i <= WordBits => v[i] = w \div Power2[WordBits - i] }
<1>5. 0 \in P
  <2> DEFINE p == Power2[WordBits]
  <2>1. WordBits - 0 = WordBits /\ WordBits \in 0 .. WordBits
    BY <1>1
  <2>2. p \in Nat \ {0} /\ w \in 0 .. p - 1
    BY <2>1, PowersOfTwo
  <2> HIDE DEF p
  <2>3. p * 0 + w = w
    BY <1>1, <2>2
  <2>4. w \div p = 0
    <3>1. p \in Nat \ {0} /\ 0 \in Int /\ w \in 0 .. p - 1 /\ w = p * 0 + w
      BY <2>2, <2>3
    <3>2. QED BY <3>1, QuotientOf, Zenon
  <2>5. v[0] = w \div Power2[WordBits - 0]
    BY <1>4, <2>1, <2>4 DEF p
  <2>6. QED BY <2>5
<1>6. ASSUME NEW k \in Nat, k \in P PROVE k + 1 \in P
  <2> SUFFICES ASSUME k + 1 <= WordBits PROVE v[k + 1] = w \div Power2[WordBits - (k + 1)]
    OBVIOUS
  <2> DEFINE i == k + 1
             p == Power2[WordBits - i]
             x == w \div p
             y == w \div Power2[WordBits - k]
             b == x % 2
             r == w % p
             j == WordBits - k
  <2>1. /\ i \in 1 .. WordBits /\ i - 1 = k /\ k <= WordBits
        /\ j \in 1 .. WordBits /\ WordBits - i = j - 1 /\ j - 1 \in 0 .. WordBits
    BY <1>1
  <2>2. v[k] = y
    BY <1>6, <2>1
  <2>3. p \in Nat \ {0} /\ Power2[WordBits - k] = 2 * p
    <3> HIDE DEF i, j
    <3>1. p = Power2[j - 1] /\ Power2[j] = 2 * Power2[j - 1]
      BY <2>1, PowersOfTwo
    <3>2. Power2[j - 1] \in Nat /\ Power2[j - 1] >= 1
      BY <2>1, PowersOfTwo
    <3>3. QED BY <3>1, <3>2 DEF j
  <2>4. bits[i] = b /\ x \in Int
    <3> HIDE DEF i
    <3>1. QED BY <1>2, <2>1
  <2>5. v[i] = 2 * y + b
    <3>1. v[i] = 2 * v[i - 1] + bits[i]
      <4> HIDE DEF i, bits
      <4>1. QED BY <1>4, <2>1
    <3>2. v[i - 1] = y
      BY <2>1, <2>2
    <3>3. QED BY <2>4, <3>1, <3>2
  <2>6. r \in 0 .. p - 1 /\ w = p * x + r
    <3>1. w \in Int /\ p \in Nat \ {0}
      BY <1>1, <2>3
    <3> HIDE DEF p
    <3>2. QED BY <3>1, Division, Zenon
  <2> DEFINE h == x \div 2
  <2>7. h \in Int /\ b \in {0, 1} /\ x = 2 * h + b
    <3>1. x \in Int /\ 2 \in Nat \ {0}
      BY <2>4
    <3> HIDE DEF x
    <3>2. x \div 2 \in Int /\ x % 2 \in 0 .. 2 - 1 /\ x = 2 * (x \div 2) + (x % 2)
      BY <3>1, Division
    <3>3. QED BY <3>2
  <2>8. y = w \div (2 * p)
    BY <2>3
  <2> HIDE DEF p, x, y, b, r, h, i, j
  <2>9. w \div (2 * p) = h
    <3> DEFINE m == 2 * p
               rest == p * b + r
    <3>1. m \in Nat \ {0} /\ rest \in 0 .. m - 1 /\ p * (2 * h + b) + r = m * h + rest
      BY <2>3, <2>6, <2>7, Doubling
    <3>2. w = m * h + rest
      BY <2>6, <2>7, <3>1
    <3> HIDE DEF m, rest
    <3>5. w \div m = h
      <4>1. m \in Nat \ {0} /\ h \in Int /\ rest \in 0 .. m - 1 /\ w = m * h + rest
        BY <2>7, <3>1, <3>2
      <4>2. QED BY <4>1, QuotientOf, Zenon
    <3>6. QED BY <3>5 DEF m
  <2>10. v[i] = x
    BY <2>5, <2>7, <2>8, <2>9
  <2>11. QED BY <2>10 DEF x, p, i
<1>7. Nat \subseteq P
  <2> HIDE DEF P
  <2>1. QED BY <1>5, <1>6, NaturalInduction
<1>8. v[WordBits] = w
  <2>1. v[WordBits] = w \div Power2[WordBits - WordBits]
    BY <1>1, <1>7
  <2>2. WordBits - WordBits = 0 /\ Power2[0] = 1
    BY <1>1, PowersOfTwo
  <2>3. w \div 1 = w
    BY <1>1
  <2>4. QED BY <2>1, <2>2, <2>3
<1>9. QED BY <1>3, <1>4, <1>8

(* A position in groups of w: the group, and the place in it.               *)
LEMMA Groups ==
    ASSUME NEW w \in Nat \ {0}, NEW n \in Nat
    PROVE  /\ w * n \in Nat
           /\ \A i \in 1 .. n : \A k \in 1 .. w : w * (i - 1) + k \in 1 .. w * n
           /\ \A j \in 1 .. w * n : \E i \in 1 .. n : \E k \in 1 .. w : j = w * (i - 1) + k
<1>1. w * n \in Nat
  OBVIOUS
<1>2. ASSUME NEW i \in 1 .. n, NEW k \in 1 .. w PROVE w * (i - 1) + k \in 1 .. w * n
  <2> DEFINE h == i - 1
  <2>1. h \in Nat /\ h < n /\ h \in Int /\ n \in Int
    OBVIOUS
  <2> HIDE DEF h
  <2>2. w * h \in Int /\ w * h + w <= w * n
    BY <2>1, Multiples
  <2>3. w * h >= 0
    BY <2>1
  <2>4. w * h + k \in 1 .. w * n
    BY <1>1, <2>2, <2>3
  <2>5. QED BY <2>4 DEF h
<1>3. ASSUME NEW j \in 1 .. w * n
      PROVE  \E i \in 1 .. n : \E k \in 1 .. w : j = w * (i - 1) + k
  <2> DEFINE m == j - 1
             h == m \div w
             r == m % w
  <2>1. m \in Int /\ m >= 0 /\ m < w * n
    BY <1>1
  <2>2. h \in Int /\ r \in 0 .. w - 1 /\ m = w * h + r
    <3> HIDE DEF m
    <3>1. QED BY <2>1, Division, Zenon
  <2>3. h < n
    <3> HIDE DEF m
    <3>1. n \in Int /\ w \in Nat \ {0}
      OBVIOUS
    <3>2. QED BY <2>1, <3>1, Quotients
  <2>4. 0 <= h
    <3> HIDE DEF m
    <3>1. 0 \in Int /\ w * 0 <= m
      BY <2>1
    <3>2. QED BY <2>1, <3>1, Quotients
  <2> HIDE DEF h, r
  <2> DEFINE i == h + 1
             k == r + 1
  <2>5. i \in 1 .. n /\ k \in 1 .. w /\ i - 1 = h
    BY <2>2, <2>3, <2>4
  <2>6. j = w * h + k
    <3>1. w * h \in Int
      BY <2>2
    <3>2. QED BY <2>2, <3>1
  <2>7. j = w * (i - 1) + k
    BY <2>5, <2>6
  <2> HIDE DEF i, k
  <2>8. QED BY <2>5, <2>7
<1>4. QED BY <1>1, <1>2, <1>3

(* A function of 1 to n is a sequence.                                      *)
LEMMA Lists ==
    ASSUME NEW S, NEW n \in Nat, NEW f \in [ 1 .. n -> S ]
    PROVE  f \in Seq(S) /\ Len(f) = n
<1>1. f \in Seq(S)
  BY SeqDef
<1>2. QED BY <1>1, LenProperties

(* Bits that agree at every place are the same bits.                        *)
LEMMA SameBits ==
    \A a, b \in [ 1 .. WordBits -> Bit ] : (\A k \in 1 .. WordBits : a[k] = b[k]) => a = b
<1> DEFINE D == 1 .. WordBits
<1> HIDE DEF D
<1>1. \A a, b \in [ D -> Bit ] : (\A k \in D : a[k] = b[k]) => a = b
  OBVIOUS
<1>2. QED BY <1>1 DEF D

\* The w bits of s that follow the first ones.
IsSlice(bits, s, first, w) ==
    bits \in [ 1 .. w -> Bit ] /\ \A k \in 1 .. w : bits[k] = s[first + k]

LEMMA Slices ==
    ASSUME NEW s, NEW first \in Int, NEW w \in Nat \ {0},
           NEW a, a = first + 1, NEW last, last = first + w,
           \A k \in 1 .. w : s[first + k] \in Bit
    PROVE  IsSlice(SubSeq(s, a, last), s, first, w)
<1> DEFINE p == SubSeq(s, a, last)
<1>1. a \in Int /\ last \in Int /\ a <= last /\ last - a + 1 = w
  OBVIOUS
<1>2. \A m \in a .. last : s[m] \in Bit
  <2> SUFFICES ASSUME NEW m \in a .. last PROVE s[m] \in Bit
    OBVIOUS
  <2>1. m - first \in 1 .. w /\ first + (m - first) = m
    OBVIOUS
  <2>2. QED BY <2>1
<1>3. \A k \in 1 .. w : a + k - 1 = first + k
  OBVIOUS
<1>4. p \in Seq(Bit) /\ Len(p) = w /\ \A k \in 1 .. w : p[k] = s[a + k - 1]
  BY <1>1, <1>2, SubSeqProperties
<1> HIDE DEF p
<1>5. p \in [ 1 .. w -> Bit ] /\ \A k \in 1 .. w : p[k] = s[first + k]
  BY <1>3, <1>4
<1>6. QED BY <1>5 DEF p, IsSlice

(* FlattenSeq of groups of w has each group at its place.                   *)
LEMMA Flattened ==
    ASSUME NEW w \in Nat \ {0}, NEW n \in Nat,
           NEW seqs \in [ 1 .. n -> [ 1 .. w -> Bit ] ]
    PROVE  /\ FlattenSeq(seqs) \in [ 1 .. w * n -> Bit ]
           /\ \A i \in 1 .. n : \A k \in 1 .. w : FlattenSeq(seqs)[w * (i - 1) + k] = seqs[i][k]
<1> DEFINE Obeys(p) == p = [ i \in 1 .. n |-> IF i = 1 THEN seqs[i] ELSE p[i - 1] \o seqs[i] ]
           Placed(f, i) == /\ f \in [ 1 .. w * i -> Bit ]
                           /\ \A h \in 1 .. i : \A k \in 1 .. w : f[w * (h - 1) + k] = seqs[h][k]
<1>1. Len(seqs) = n
  BY LenProperties
<1>2. CASE n = 0
  <2>1. FlattenSeq(seqs) = seqs
    BY <1>1, <1>2 DEF FlattenSeq
  <2>2. w * n = 0
    BY <1>2
  <2>3. seqs \in [ 1 .. w * n -> Bit ]
    BY <1>2, <2>2
  <2>4. QED BY <1>2, <2>1, <2>3
<1>3. CASE n # 0
  <2> DEFINE H == [ i \in 1 .. n |-> [ x \in Seq(Bit) |-> x \o seqs[i] ] ]
  <2>0. \A i \in 1 .. n : seqs[i] \in Seq(Bit) /\ seqs[i] \in [ 1 .. w -> Bit ]
    OBVIOUS
  <2>1. \A i \in 1 .. n : \A x \in Seq(Bit) : H[i][x] = x \o seqs[i] /\ H[i][x] \in Seq(Bit)
    <3>1. \A i \in 1 .. n : \A x \in Seq(Bit) : x \o seqs[i] \in Seq(Bit)
      BY <2>0, ConcatProperties
    <3>2. QED BY <3>1
  <2>2. Unfolding(Seq(Bit), << >>, n, H)
    <3>1. Stays(Seq(Bit), n, H)
      BY <2>1 DEF Stays
    <3>2. << >> \in Seq(Bit)
      OBVIOUS
    <3> HIDE DEF H
    <3>3. QED BY <3>1, <3>2, Recursion
  <2>3. PICK f \in [ 0 .. n -> Seq(Bit) ] : f[0] = << >> /\ \A i \in 1 .. n : f[i] = H[i][f[i - 1]]
    BY <2>2 DEF Unfolding, Unfolds
  <2> DEFINE g == [ i \in 1 .. n |-> f[i] ]
  <2>4. Obeys(g)
    <3>1. ASSUME NEW i \in 1 .. n
          PROVE  g[i] = IF i = 1 THEN seqs[i] ELSE g[i - 1] \o seqs[i]
      <4>1. i - 1 \in 0 .. n /\ g[i] = f[i]
        OBVIOUS
      <4>2. f[i - 1] \in Seq(Bit)
        BY <2>3, <4>1
      <4>3. f[i] = f[i - 1] \o seqs[i]
        <5> HIDE DEF H
        <5>1. QED BY <2>1, <2>3, <4>2
      <4>4. CASE i = 1
        <5>1. f[i - 1] = << >>
          BY <2>3, <4>4
        <5>2. << >> \o seqs[i] = seqs[i]
          BY <2>0, ConcatEmptySeq
        <5>3. QED BY <4>1, <4>3, <4>4, <5>1, <5>2
      <4>5. CASE i # 1
        <5>1. i - 1 \in 1 .. n
          BY <4>5
        <5>2. g[i - 1] = f[i - 1]
          BY <5>1
        <5>3. QED BY <4>1, <4>3, <4>5, <5>2
      <4>6. QED BY <4>4, <4>5
    <3>2. g = [ i \in 1 .. n |-> g[i] ]
      OBVIOUS
    <3> HIDE DEF g
    <3>3. QED BY <3>1, <3>2
  <2> DEFINE flat == CHOOSE p : Obeys(p)
  <2>5. FlattenSeq(seqs) = flat[n]
    BY <1>1, <1>3 DEF FlattenSeq
  <2>6. Obeys(flat)
    <3> HIDE DEF Obeys, g
    <3>1. QED BY <2>4
  <2>7. flat = [ i \in 1 .. n |-> IF i = 1 THEN seqs[i] ELSE flat[i - 1] \o seqs[i] ]
    BY <2>6
  <2> HIDE DEF flat, Obeys, g
  <2>8. \A i \in 1 .. n : flat[i] = IF i = 1 THEN seqs[i] ELSE flat[i - 1] \o seqs[i]
    BY <2>7, Zenon
  <2> DEFINE P == { i \in Nat : i + 1 <= n => Placed(flat[i + 1], i + 1) }
  <2>9. 0 \in P
    <3>1. 1 \in 1 .. n /\ 0 + 1 = 1 /\ w * 1 = w
      BY <1>3
    <3>2. flat[1] = seqs[1]
      BY <2>8, <3>1
    <3>3. \A h \in 1 .. 1 : \A k \in 1 .. w : w * (h - 1) + k = k /\ h = 1
      OBVIOUS
    <3>4. Placed(seqs[1], 1)
      BY <2>0, <3>1, <3>3
    <3>5. Placed(flat[0 + 1], 0 + 1)
      <4> HIDE DEF Placed
      <4>1. QED BY <3>1, <3>2, <3>4
    <3>6. QED BY <3>5
  <2>10. ASSUME NEW m \in Nat, m \in P PROVE m + 1 \in P
    <3> SUFFICES ASSUME m + 1 + 1 <= n PROVE Placed(flat[m + 1 + 1], m + 1 + 1)
      OBVIOUS
    <3> DEFINE i == m + 1
               j == i + 1
               a == flat[i]
               b == seqs[j]
    <3>1. i \in 1 .. n /\ j \in 1 .. n /\ j # 1 /\ j - 1 = i /\ i <= n
      OBVIOUS
    <3>2. Placed(a, i)
      BY <2>10, <3>1
    <3>3. flat[j] = a \o b
      <4> HIDE DEF i, j
      <4>1. QED BY <2>8, <3>1
    <3>4. w * i \in Nat /\ w * j = w * i + w /\ w * (j - 1) = w * i
      BY <3>1
    <3>5. a \in [ 1 .. w * i -> Bit ] /\ b \in [ 1 .. w -> Bit ]
      BY <2>0, <3>1, <3>2
    <3>6. /\ a \in Seq(Bit) /\ b \in Seq(Bit) /\ Len(a) = w * i /\ Len(b) = w
      <4> HIDE DEF a, b, i, j
      <4>1. QED BY <3>4, <3>5, Lists
    <3>7. /\ a \o b \in Seq(Bit) /\ Len(a \o b) = w * i + w
          /\ \A l \in 1 .. w * i : (a \o b)[l] = a[l]
          /\ \A k \in 1 .. w : (a \o b)[w * i + k] = b[k]
      <4> DEFINE u == w * i
      <4>1. u \in Nat /\ Len(a) = u
        BY <3>4, <3>6
      <4> HIDE DEF a, b, i, j, u
      <4>2. /\ a \o b \in Seq(Bit) /\ Len(a \o b) = u + w
            /\ \A l \in 1 .. u + w : (a \o b)[l] = IF l <= u THEN a[l] ELSE b[l - u]
        BY <3>6, <4>1, ConcatProperties
      <4>4. \A l \in 1 .. u : l \in 1 .. u + w /\ l <= u
        BY <4>1
      <4>5. \A k \in 1 .. w : (a \o b)[u + k] = b[k]
        <5> SUFFICES ASSUME NEW k \in 1 .. w PROVE (a \o b)[u + k] = b[k]
          OBVIOUS
        <5> DEFINE l == u + k
        <5>1. l \in 1 .. u + w /\ ~ (l <= u) /\ l - u = k
          BY <4>1
        <5> HIDE DEF l
        <5>2. (a \o b)[l] = b[l - u]
          BY <4>2, <5>1
        <5>3. b[l - u] = b[k]
          BY <5>1
        <5>4. QED BY <5>2, <5>3 DEF l
      <4>6. \A l \in 1 .. u : (a \o b)[l] = a[l]
        BY <4>2, <4>4
      <4>7. QED BY <4>2, <4>5, <4>6 DEF u
    <3>8. a \o b \in [ 1 .. w * j -> Bit ]
      BY <3>4, <3>7, LenProperties
    <3>9. ASSUME NEW h \in 1 .. j, NEW k \in 1 .. w
          PROVE  (a \o b)[w * (h - 1) + k] = seqs[h][k]
      <4>1. CASE h = j
        BY <3>4, <3>7, <4>1
      <4>2. CASE h # j
        <5>1. h \in 1 .. i /\ i \in Nat
          BY <3>1, <4>2
        <5>2. w * (h - 1) + k \in 1 .. w * i
          <6> HIDE DEF i
          <6>1. QED BY <5>1, Groups
        <5>3. a[w * (h - 1) + k] = seqs[h][k]
          BY <3>2, <5>1
        <5>4. QED BY <3>7, <5>2, <5>3
      <4>3. QED BY <4>1, <4>2
    <3>10. Placed(flat[j], j)
      <4> HIDE DEF a, b, i, j
      <4>1. QED BY <3>3, <3>8, <3>9
    <3>11. QED BY <3>10
  <2>11. Nat \subseteq P
    <3> HIDE DEF P
    <3>1. QED BY <2>9, <2>10, NaturalInduction
  <2>12. Placed(flat[n], n)
    <3> DEFINE m == n - 1
    <3>1. m \in Nat /\ m + 1 = n
      BY <1>3
    <3> HIDE DEF m, Placed
    <3>2. m + 1 <= n => Placed(flat[m + 1], m + 1)
      BY <2>11, <3>1
    <3>3. QED BY <3>1, <3>2
  <2>13. QED BY <2>5, <2>12
<1>4. QED BY <1>2, <1>3

(* The lengths of a phrase of n bits of entropy.                            *)
LEMMA Sizes ==
    ASSUME NEW n \in EntropyLengths, NEW q, q = n \div Ratio, NEW g, g = (n + q) \div WordBits
    PROVE  /\ n \in Nat /\ q \in Nat /\ g \in Nat
           /\ WordBits * g = n + q /\ (WordBits * g) \div (Ratio + 1) = q
           /\ g \in WordCounts
<1>1. /\ n \in Nat /\ Ratio \in Nat \ {0} /\ WordBits \in Nat \ {0}
      /\ n % Ratio = 0 /\ (n + n \div Ratio) % WordBits = 0
      /\ g \in WordCounts
  BY MnemonicAssumption
<1>2. q \in Int /\ n = Ratio * q
  <2>0. n \in Int /\ Ratio \in Nat \ {0}
    BY <1>1
  <2>1. n \div Ratio \in Int /\ n = Ratio * (n \div Ratio) + (n % Ratio)
    BY <2>0, Division, Zenon
  <2>2. q \in Int /\ n = Ratio * q + 0
    BY <1>1, <2>1
  <2>3. Ratio * q \in Int
    BY <1>1, <2>2
  <2>4. QED BY <2>2, <2>3
<1>3. 0 <= q
  <2>1. 0 \in Int /\ Ratio * 0 <= n
    BY <1>1
  <2>2. QED BY <1>1, <2>1, Quotients
<1>4. g \in Int /\ n + q = WordBits * g
  <2> DEFINE m == n + q
  <2>1. m \in Int /\ m % WordBits = 0
    BY <1>1, <1>2
  <2> HIDE DEF m
  <2>2. m \div WordBits \in Int /\ m = WordBits * (m \div WordBits) + (m % WordBits)
    BY <1>1, <2>1, Division
  <2>3. g = m \div WordBits
    BY DEF m
  <2>4. WordBits * g \in Int
    BY <1>1, <2>2, <2>3
  <2>5. m = WordBits * g
    BY <2>1, <2>2, <2>3, <2>4
  <2>6. QED BY <2>2, <2>3, <2>5 DEF m
<1>5. 0 <= g
  <2> DEFINE m == n + q
  <2>1. 0 \in Int /\ WordBits * 0 <= m /\ m \in Int
    BY <1>1, <1>2, <1>3
  <2> HIDE DEF m
  <2>2. 0 <= m \div WordBits
    BY <1>1, <2>1, Quotients
  <2>3. QED BY <2>2 DEF m
<1>6. (WordBits * g) \div (Ratio + 1) = q
  <2> DEFINE m == Ratio + 1
  <2>1. m \in Nat \ {0} /\ m * q = Ratio * q + q
    BY <1>1, <1>2
  <2>2. WordBits * g = m * q
    BY <1>2, <1>4, <2>1
  <2> HIDE DEF m
  <2>3. (m * q) \div m = q
    BY <1>2, <2>1, QuotientOfProduct
  <2>4. QED BY <2>2, <2>3 DEF m
<1>7. QED BY <1>1, <1>2, <1>3, <1>4, <1>5, <1>6

\* The i-th group of bits.
GroupAt(bits, i) == SubSeq(bits, (i - 1) * WordBits + 1, i * WordBits)

(* The group of a word is the bits at its place.                            *)
LEMMA GroupsOfBits ==
    ASSUME NEW g \in Nat, NEW m, m = WordBits * g, NEW bits \in [ 1 .. m -> Bit ], NEW i \in 1 .. g
    PROVE  /\ GroupAt(bits, i) \in [ 1 .. WordBits -> Bit ]
           /\ \A k \in 1 .. WordBits : GroupAt(bits, i)[k] = bits[WordBits * (i - 1) + k]
<1> DEFINE w == WordBits
           first == (i - 1) * w
           last == i * w
<1>1. w \in Nat /\ w >= 1
  BY BitCounts
<1>2. /\ first \in Int /\ last \in Int /\ last = first + w /\ first = w * (i - 1)
  BY <1>1
<1>3. \A k \in 1 .. w : first + k \in 1 .. m
  <2>1. w \in Nat \ {0}
    BY <1>1
  <2>2. \A k \in 1 .. w : w * (i - 1) + k \in 1 .. w * g
    <3> HIDE DEF w
    <3>1. QED BY <2>1, Groups
  <2>3. m = w * g
    OBVIOUS
  <2>4. QED BY <1>2, <2>2, <2>3
<1>4. \A k \in 1 .. w : bits[first + k] \in Bit
  BY <1>3
<1> HIDE DEF w, first, last
<1> DEFINE a == first + 1
<1>5. GroupAt(bits, i) = SubSeq(bits, a, last)
  BY DEF GroupAt, first, last, w
<1>6. w \in Nat \ {0} /\ first \in Int /\ last = first + w /\ a = first + 1
  BY <1>1, <1>2
<1> HIDE DEF a
<1>7. IsSlice(SubSeq(bits, a, last), bits, first, w)
  BY <1>4, <1>6, Slices
<1>8. \A k \in 1 .. w : first + k = w * (i - 1) + k
  BY <1>2
<1>9. QED BY <1>5, <1>7, <1>8 DEF IsSlice, w

\* The bits of a phrase.
BitsOfWords(words) == FlattenSeq([ i \in DOMAIN words |-> BitsOf(words[i]) ])

\* Entropy and the checksum that follows it.
Checked(entropy) == entropy \o Checksum(entropy, Len(entropy) \div Ratio)

(* The words a sequence of bits is read as, and the bits they are written as.*)
LEMMA WordsOfBits ==
    ASSUME NEW g \in Nat, NEW m, m = WordBits * g, NEW bits \in [ 1 .. m -> Bit ],
           NEW words \in [ 1 .. g -> 0 .. Power2[WordBits] - 1 ]
    PROVE  BitsOfWords(words) = bits <=> \A i \in 1 .. g : words[i] = NumberOf(GroupAt(bits, i))
<1> DEFINE w == WordBits
           seqs == [ i \in 1 .. g |-> BitsOf(words[i]) ]
           flat == FlattenSeq(seqs)
<1>1. w \in Nat \ {0} /\ m = w * g
  BY BitCounts
<1>2. \A i \in 1 .. g : /\ BitsOf(words[i]) \in [ 1 .. w -> Bit ]
                        /\ NumberOf(BitsOf(words[i])) = words[i]
  <2>1. \A i \in 1 .. g : words[i] \in 0 .. Power2[WordBits] - 1
    OBVIOUS
  <2>2. QED BY <2>1, NumberOfBits
<1>3. /\ seqs \in [ 1 .. g -> [ 1 .. w -> Bit ] ]
      /\ \A i \in 1 .. g : seqs[i] = BitsOf(words[i])
  BY <1>2
<1>4. /\ flat \in [ 1 .. w * g -> Bit ]
      /\ \A i \in 1 .. g : \A k \in 1 .. w : flat[w * (i - 1) + k] = seqs[i][k]
  <2> HIDE DEF seqs, w
  <2>1. FlattenSeq(seqs) \in [ 1 .. w * g -> Bit ]
    BY <1>1, <1>3, Flattened, Zenon
  <2>2. \A i \in 1 .. g : \A k \in 1 .. w : FlattenSeq(seqs)[w * (i - 1) + k] = seqs[i][k]
    BY <1>1, <1>3, Flattened, Zenon
  <2>3. QED BY <2>1, <2>2
<1>5. \A i \in 1 .. g : /\ GroupAt(bits, i) \in [ 1 .. w -> Bit ]
                        /\ \A k \in 1 .. w : GroupAt(bits, i)[k] = bits[w * (i - 1) + k]
  BY GroupsOfBits
<1>6. \A i \in 1 .. g : /\ NumberOf(GroupAt(bits, i)) \in 0 .. Power2[WordBits] - 1
                        /\ BitsOf(NumberOf(GroupAt(bits, i))) = GroupAt(bits, i)
  BY <1>5, BitsOfNumber
<1>7. ASSUME \A i \in 1 .. g : words[i] = NumberOf(GroupAt(bits, i)) PROVE flat = bits
  <2>1. ASSUME NEW i \in 1 .. g, NEW k \in 1 .. w
        PROVE  flat[w * (i - 1) + k] = bits[w * (i - 1) + k]
    <3>1. seqs[i] = GroupAt(bits, i)
      BY <1>3, <1>6, <1>7
    <3> DEFINE j == w * (i - 1) + k
               group == GroupAt(bits, i)
    <3> HIDE DEF seqs, flat, w
    <3>2. flat[j] = seqs[i][k]
      BY <1>4, Zenon
    <3>3. group[k] = bits[j]
      BY <1>5, Zenon
    <3> HIDE DEF j, group
    <3>4. seqs[i] = group
      BY <3>1 DEF group
    <3>5. flat[j] = bits[j]
      BY <3>2, <3>3, <3>4, Zenon
    <3>6. QED BY <3>5 DEF j
  <2>2. \A j \in 1 .. w * g : flat[j] = bits[j]
    <3> SUFFICES ASSUME NEW j \in 1 .. w * g PROVE flat[j] = bits[j]
      OBVIOUS
    <3> HIDE DEF flat, w
    <3>1. PICK i \in 1 .. g, k \in 1 .. w : j = w * (i - 1) + k
      BY <1>1, Groups
    <3>2. QED BY <2>1, <3>1
  <2> HIDE DEF flat
  <2>3. flat \in [ 1 .. m -> Bit ] /\ \A j \in 1 .. m : flat[j] = bits[j]
    BY <1>1, <1>4, <2>2
  <2>4. QED BY <2>3
<1>8. ASSUME flat = bits, NEW i \in 1 .. g PROVE words[i] = NumberOf(GroupAt(bits, i))
  <2> DEFINE a == seqs[i]
             b == GroupAt(bits, i)
  <2>1. a \in [ 1 .. w -> Bit ] /\ b \in [ 1 .. w -> Bit ]
    BY <1>3, <1>5
  <2>2. \A k \in 1 .. w : a[k] = b[k]
    <3> HIDE DEF seqs, flat, w
    <3>1. QED BY <1>4, <1>5, <1>8
  <2> HIDE DEF a, b
  <2>3. a = b
    BY <2>1, <2>2, SameBits, Zenon
  <2>4. NumberOf(a) = words[i]
    BY <1>2, <1>3 DEF a
  <2>5. QED BY <2>3, <2>4 DEF b
<1> HIDE DEF w
<1>9. BitsOfWords(words) = flat
  <2>1. DOMAIN words = 1 .. g
    OBVIOUS
  <2>2. QED BY <2>1 DEF BitsOfWords
<1> HIDE DEF flat
<1>10. QED BY <1>7, <1>8, <1>9

(* A phrase is written in WordBits bits for each word.                      *)
LEMMA WordsAsBits ==
    ASSUME NEW g \in Nat, NEW m, m = WordBits * g,
           NEW words \in [ 1 .. g -> 0 .. Power2[WordBits] - 1 ]
    PROVE  BitsOfWords(words) \in [ 1 .. m -> Bit ]
<1> DEFINE seqs == [ i \in 1 .. g |-> BitsOf(words[i]) ]
           w == WordBits
<1>1. w \in Nat \ {0} /\ m = w * g
  BY BitCounts
<1>2. \A i \in 1 .. g : BitsOf(words[i]) \in [ 1 .. w -> Bit ]
  <2>1. \A i \in 1 .. g : words[i] \in 0 .. Power2[WordBits] - 1
    OBVIOUS
  <2>2. QED BY <2>1, NumberOfBits
<1>3. seqs \in [ 1 .. g -> [ 1 .. w -> Bit ] ]
  BY <1>2
<1>4. BitsOfWords(words) = FlattenSeq(seqs)
  <2>1. DOMAIN words = 1 .. g
    OBVIOUS
  <2>2. QED BY <2>1 DEF BitsOfWords
<1> HIDE DEF seqs, w
<1>5. FlattenSeq(seqs) \in [ 1 .. w * g -> Bit ]
  BY <1>1, <1>3, Flattened, Zenon
<1>6. QED BY <1>1, <1>4, <1>5

\* Two sequences of n and of q bits that are s together.
IsCut(s, a, b, n, q) == a \in [ 1 .. n -> Bit ] /\ b \in [ 1 .. q -> Bit ] /\ a \o b = s

(* A sequence cut in two.                                                   *)
LEMMA CutInTwo ==
    ASSUME NEW n \in Nat, NEW q \in Nat, NEW m, m = n + q, NEW s \in [ 1 .. m -> Bit ]
    PROVE  IsCut(s, SubSeq(s, 1, n), SubSeq(s, n + 1, m), n, q)
<1> DEFINE a == SubSeq(s, 1, n)
           b == SubSeq(s, n + 1, m)
<1>1. a \in Seq(Bit) /\ Len(a) = n /\ \A i \in 1 .. n : a[i] = s[i]
  <2>1. 1 \in Int /\ n \in Int /\ (\A i \in 1 .. n : s[i] \in Bit) /\ n - 1 + 1 = n
    OBVIOUS
  <2>2. /\ a \in Seq(Bit) /\ Len(a) = IF 1 <= n THEN n - 1 + 1 ELSE 0
        /\ \A i \in 1 .. n - 1 + 1 : a[i] = s[1 + i - 1]
    BY <2>1, SubSeqProperties
  <2> HIDE DEF a
  <2>3. QED BY <2>2
<1>2. b \in Seq(Bit) /\ Len(b) = q /\ \A i \in 1 .. q : b[i] = s[n + i]
  <2> DEFINE f == n + 1
  <2>1. f \in Int /\ m \in Int /\ (\A i \in f .. m : s[i] \in Bit) /\ m - f + 1 = q
    OBVIOUS
  <2>2. \A i \in 1 .. q : f + i - 1 = n + i
    OBVIOUS
  <2>3. f <= m <=> q # 0
    OBVIOUS
  <2>4. /\ b \in Seq(Bit) /\ Len(b) = IF f <= m THEN m - f + 1 ELSE 0
        /\ \A i \in 1 .. m - f + 1 : b[i] = s[f + i - 1]
    <3> HIDE DEF f
    <3>1. SubSeq(s, f, m) \in Seq(Bit)
      BY <2>1, SubSeqProperties, Zenon
    <3>2. Len(SubSeq(s, f, m)) = IF f <= m THEN m - f + 1 ELSE 0
      BY <2>1, SubSeqProperties
    <3>3. \A i \in 1 .. m - f + 1 : SubSeq(s, f, m)[i] = s[f + i - 1]
      BY <2>1, SubSeqProperties
    <3>4. QED BY <3>1, <3>2, <3>3 DEF f
  <2> HIDE DEF b, f
  <2>5. QED BY <2>1, <2>2, <2>3, <2>4
<1> HIDE DEF a, b
<1>3. a \in [ 1 .. n -> Bit ] /\ b \in [ 1 .. q -> Bit ]
  BY <1>1, <1>2, LenProperties
<1>4. /\ a \o b \in Seq(Bit) /\ Len(a \o b) = m
      /\ \A i \in 1 .. m : (a \o b)[i] = IF i <= n THEN a[i] ELSE b[i - n]
  <2>1. /\ a \o b \in Seq(Bit) /\ Len(a \o b) = Len(a) + Len(b)
        /\ \A i \in 1 .. Len(a) + Len(b) :
              (a \o b)[i] = IF i <= Len(a) THEN a[i] ELSE b[i - Len(a)]
    BY <1>1, <1>2, ConcatProperties
  <2>2. QED BY <1>1, <1>2, <2>1
<1>5. ASSUME NEW i \in 1 .. m PROVE (a \o b)[i] = s[i]
  <2>1. CASE i <= n
    BY <1>1, <1>4, <2>1
  <2>2. CASE ~ (i <= n)
    <3>1. i - n \in 1 .. q /\ n + (i - n) = i
      BY <2>2
    <3>2. b[i - n] = s[n + (i - n)]
      BY <1>2, <3>1
    <3>3. QED BY <1>4, <2>2, <3>1, <3>2
  <2>3. QED BY <2>1, <2>2
<1>6. a \o b = s
  <2> DEFINE c == a \o b
  <2>1. c \in [ 1 .. m -> Bit ] /\ \A i \in 1 .. m : c[i] = s[i]
    BY <1>4, <1>5, LenProperties
  <2> HIDE DEF c
  <2>2. c = s
    BY <2>1
  <2>3. QED BY <2>2 DEF c
<1>7. QED BY <1>3, <1>6 DEF a, b, IsCut

(* What two rows of bits give when put together, and taken apart again.     *)
LEMMA TwoPutTogether ==
    ASSUME NEW n \in Nat, NEW q \in Nat, NEW m, m = n + q,
           NEW a \in [ 1 .. n -> Bit ], NEW b \in [ 1 .. q -> Bit ]
    PROVE  /\ a \o b \in [ 1 .. m -> Bit ]
           /\ SubSeq(a \o b, 1, n) = a /\ SubSeq(a \o b, n + 1, m) = b
<1> DEFINE s == a \o b
           c == SubSeq(s, 1, n)
           d == SubSeq(s, n + 1, m)
<1>1. a \in Seq(Bit) /\ Len(a) = n /\ b \in Seq(Bit) /\ Len(b) = q
  BY Lists
<1>2. /\ s \in Seq(Bit) /\ Len(s) = m
      /\ \A i \in 1 .. m : s[i] = IF i <= n THEN a[i] ELSE b[i - n]
  BY <1>1, ConcatProperties
<1> HIDE DEF s
<1>3. s \in [ 1 .. m -> Bit ]
  BY <1>2, LenProperties
<1>4. c \in [ 1 .. n -> Bit ] /\ d \in [ 1 .. q -> Bit ] /\ c \o d = s
  <2>1. IsCut(s, c, d, n, q)
    BY <1>3, CutInTwo
  <2>2. QED BY <2>1 DEF IsCut
<1> HIDE DEF c, d
<1>5. c \in Seq(Bit) /\ Len(c) = n /\ d \in Seq(Bit) /\ Len(d) = q
  BY <1>4, Lists
<1>6. \A i \in 1 .. m : s[i] = IF i <= n THEN c[i] ELSE d[i - n]
  <2>1. \A i \in 1 .. Len(c) + Len(d) :
            (c \o d)[i] = IF i <= Len(c) THEN c[i] ELSE d[i - Len(c)]
    BY <1>5, ConcatProperties
  <2>2. QED BY <1>4, <1>5, <2>1
<1>7. \A i \in 1 .. n : c[i] = a[i]
  BY <1>2, <1>6
<1>8. ASSUME NEW k \in 1 .. q PROVE d[k] = b[k]
  <2> DEFINE i == n + k
  <2>1. i \in 1 .. m /\ ~ (i <= n) /\ i - n = k
    OBVIOUS
  <2> HIDE DEF i
  <2>2. QED BY <1>2, <1>6, <2>1
<1>9. c = a /\ d = b
  BY <1>4, <1>7, <1>8
<1>10. QED BY <1>3, <1>9 DEF s, c, d

(* The hash is long enough for the checksum.                                *)
LEMMA Checksums ==
    ASSUME NEW n \in EntropyLengths, NEW e \in [ 1 .. n -> Bit ], NEW q \in Nat, q = n \div Ratio
    PROVE  e \in Entropy /\ Len(e) = n /\ Checksum(e, q) \in [ 1 .. q -> Bit ]
<1> DEFINE h == HashBits[e]
           r == Len(h) - q
           m == Len(h)
<1>1. n \in Nat /\ e \in Entropy
  BY BitCounts DEF Entropy
<1>2. Len(e) = n
  BY <1>1, LenProperties
<1>3. h \in Seq(Bit) /\ Len(h) >= q
  BY <1>1, <1>2, MnemonicAssumption
<1> HIDE DEF h
<1>4. h \in [ 1 .. m -> Bit ] /\ r \in Nat /\ m = q + r
  BY <1>3
<1> HIDE DEF m, r
<1>5. SubSeq(h, 1, q) \in [ 1 .. q -> Bit ]
  <2>1. IsCut(h, SubSeq(h, 1, q), SubSeq(h, q + 1, m), q, r)
    BY <1>4, CutInTwo
  <2>2. QED BY <2>1 DEF IsCut
<1>6. QED BY <1>1, <1>2, <1>5 DEF Checksum, h

(* What entropy_to_mnemonic writes: the bits and their checksum, in words.  *)
LEMMA WordsWritten ==
    ASSUME NEW n \in EntropyLengths, NEW e \in [ 1 .. n -> Bit ]
    PROVE  /\ Checked(e) \in [ 1 .. n + n \div Ratio -> Bit ]
           /\ SubSeq(Checked(e), 1, n) = e
           /\ SubSeq(Checked(e), n + 1, n + n \div Ratio) = Checksum(e, n \div Ratio)
           /\ EntropyToMnemonic(e) = [ i \in 1 .. (n + n \div Ratio) \div WordBits |->
                                         NumberOf(GroupAt(Checked(e), i)) ]
<1> DEFINE q == n \div Ratio
           m == n + q
           g == m \div WordBits
           c == Checksum(e, q)
           bits == Checked(e)
<1>1. n \in Nat /\ q \in Nat /\ g \in Nat
  BY Sizes
<1>2. Len(e) = n /\ c \in [ 1 .. q -> Bit ]
  <2>1. q = n \div Ratio
    OBVIOUS
  <2> HIDE DEF q
  <2>2. QED BY <1>1, <2>1, Checksums
<1>3. bits = e \o c
  BY <1>2 DEF Checked
<1>4. /\ bits \in [ 1 .. m -> Bit ]
      /\ SubSeq(bits, 1, n) = e /\ SubSeq(bits, n + 1, m) = c
  <2> HIDE DEF q, c
  <2>1. e \o c \in [ 1 .. m -> Bit ]
    BY <1>1, <1>2, TwoPutTogether
  <2>2. SubSeq(e \o c, 1, n) = e
    BY <1>1, <1>2, TwoPutTogether
  <2>3. SubSeq(e \o c, n + 1, m) = c
    BY <1>1, <1>2, TwoPutTogether
  <2>4. QED BY <1>3, <2>1, <2>2, <2>3
<1>5. Len(bits) = m
  <2>1. m \in Nat
    BY <1>1
  <2> HIDE DEF bits, m
  <2>2. QED BY <1>4, <2>1, LenProperties
<1>6. EntropyToMnemonic(e) = [ i \in 1 .. Len(bits) \div WordBits |-> NumberOf(GroupAt(bits, i)) ]
  BY DEF EntropyToMnemonic, GroupAt, Checked
<1>7. QED BY <1>4, <1>5, <1>6

(* validate_mnemonic accepts what a wallet generates, and nothing else      *)
(* (mnemonic.rs:95-133).                                                    *)
THEOREM PhrasesAreValid ==
    ASSUME NEW words, words \in Seq(Range(words))
    PROVE  ValidateMnemonic(words) <=> words \in Phrases
<1> DEFINE Values == 0 .. Power2[WordBits] - 1
           bits == BitsOfWords(words)
           length == Len(bits) \div (Ratio + 1)
           entropy == SubSeq(bits, 1, Len(bits) - length)
           Right == SubSeq(bits, Len(entropy) + 1, Len(bits)) = Checksum(entropy, length)
<1>1. Len(words) \in Nat /\ DOMAIN words = 1 .. Len(words)
  OBVIOUS
<1>2. ValidateMnemonic(words) <=>
          /\ Len(words) \in WordCounts
          /\ \A i \in DOMAIN words : words[i] \in Values
          /\ Right
  BY DEF ValidateMnemonic, BitsOfWords
<1>3. ASSUME NEW n \in EntropyLengths, Len(words) = (n + n \div Ratio) \div WordBits,
             bits \in [ 1 .. n + n \div Ratio -> Bit ]
      PROVE  /\ entropy = SubSeq(bits, 1, n) /\ entropy \in [ 1 .. n -> Bit ]
             /\ entropy \o SubSeq(bits, n + 1, n + n \div Ratio) = bits
             /\ Right <=> SubSeq(bits, n + 1, n + n \div Ratio) = Checksum(entropy, n \div Ratio)
  <2> DEFINE q == n \div Ratio
             m == n + q
             g == m \div WordBits
  <2>1. /\ n \in Nat /\ q \in Nat /\ WordBits * g = m
        /\ (WordBits * g) \div (Ratio + 1) = q
    BY Sizes
  <2>2. m \in Nat /\ m - q = n /\ m \div (Ratio + 1) = q
    <3> HIDE DEF g, q
    <3>1. (WordBits * g) \div (Ratio + 1) = m \div (Ratio + 1)
      BY <2>1
    <3> HIDE DEF m
    <3>2. m \div (Ratio + 1) = q
      BY <2>1, <3>1
    <3>3. QED BY <2>1, <3>2 DEF m
  <2>3. Len(bits) = m
    <3>1. bits \in [ 1 .. m -> Bit ]
      BY <1>3
    <3> HIDE DEF m, bits
    <3>2. QED BY <2>2, <3>1, LenProperties
  <2>4. length = q /\ entropy = SubSeq(bits, 1, n)
    <3> HIDE DEF m, q, bits
    <3>1. length = q
      BY <2>2, <2>3
    <3> HIDE DEF length
    <3>2. Len(bits) - length = n
      BY <2>2, <2>3, <3>1
    <3>3. QED BY <3>1, <3>2
  <2>5. /\ SubSeq(bits, 1, n) \in [ 1 .. n -> Bit ]
        /\ SubSeq(bits, 1, n) \o SubSeq(bits, n + 1, m) = bits
    <3>1. m = n + q /\ bits \in [ 1 .. m -> Bit ]
      BY <1>3
    <3> HIDE DEF m, q, bits
    <3>2. IsCut(bits, SubSeq(bits, 1, n), SubSeq(bits, n + 1, m), n, q)
      BY <2>1, <3>1, CutInTwo
    <3>3. QED BY <3>2 DEF IsCut
  <2>6. Len(entropy) = n
    <3> HIDE DEF entropy
    <3>1. QED BY <2>1, <2>4, <2>5, LenProperties
  <2>7. Right <=> SubSeq(bits, n + 1, m) = Checksum(entropy, q)
    <3> HIDE DEF m, q, bits, entropy, length
    <3>1. QED BY <2>3, <2>4, <2>6
  <2>8. QED BY <2>4, <2>5, <2>7
<1>4. ASSUME NEW n \in EntropyLengths, words \in [ 1 .. (n + n \div Ratio) \div WordBits -> Values ]
      PROVE  bits \in [ 1 .. n + n \div Ratio -> Bit ]
  <2> DEFINE m == n + n \div Ratio
             g == m \div WordBits
  <2>1. g \in Nat /\ m = WordBits * g
    BY Sizes
  <2> HIDE DEF m, g
  <2>2. words \in [ 1 .. g -> Values ]
    BY <1>4 DEF m, g
  <2>3. bits \in [ 1 .. m -> Bit ]
    BY <2>1, <2>2, WordsAsBits
  <2>4. QED BY <2>3 DEF m
<1>5. ASSUME NEW n \in EntropyLengths, words \in [ 1 .. (n + n \div Ratio) \div WordBits -> Values ],
             NEW s \in [ 1 .. n + n \div Ratio -> Bit ]
      PROVE  bits = s <=> words = [ i \in 1 .. (n + n \div Ratio) \div WordBits |->
                                      NumberOf(GroupAt(s, i)) ]
  <2> DEFINE m == n + n \div Ratio
             g == m \div WordBits
  <2>1. g \in Nat /\ m = WordBits * g
    BY Sizes
  <2> HIDE DEF m, g
  <2>2. words \in [ 1 .. g -> Values ] /\ s \in [ 1 .. m -> Bit ]
    BY <1>5 DEF m, g
  <2>3. bits = s <=> \A i \in 1 .. g : words[i] = NumberOf(GroupAt(s, i))
    BY <2>1, <2>2, WordsOfBits, SMTT(30)
  <2>4. (\A i \in 1 .. g : words[i] = NumberOf(GroupAt(s, i)))
          <=> words = [ i \in 1 .. g |-> NumberOf(GroupAt(s, i)) ]
    <3>1. words = [ i \in 1 .. g |-> words[i] ]
      BY <2>2
    <3>2. QED BY <3>1
  <2>5. QED BY <2>3, <2>4 DEF m, g
<1>6. ASSUME words \in Phrases PROVE ValidateMnemonic(words)
  <2>1. PICK n \in EntropyLengths : \E e \in [ 1 .. n -> Bit ] : words = EntropyToMnemonic(e)
    BY <1>6 DEF Phrases, FreshText, Entropy
  <2>2. PICK e \in [ 1 .. n -> Bit ] : words = EntropyToMnemonic(e)
    BY <2>1
  <2> DEFINE q == n \div Ratio
             m == n + q
             g == m \div WordBits
             s == Checked(e)
  <2>3. /\ s \in [ 1 .. m -> Bit ]
        /\ SubSeq(s, 1, n) = e /\ SubSeq(s, n + 1, m) = Checksum(e, q)
        /\ words = [ i \in 1 .. g |-> NumberOf(GroupAt(s, i)) ]
    BY <2>2, WordsWritten
  <2>4. n \in Nat /\ q \in Nat /\ g \in Nat /\ g \in WordCounts /\ m = WordBits * g
    BY Sizes
  <2>5. \A i \in 1 .. g : words[i] = NumberOf(GroupAt(s, i)) /\ words[i] \in Values
    <3> HIDE DEF m, g, s
    <3>1. \A i \in 1 .. g : GroupAt(s, i) \in [ 1 .. WordBits -> Bit ]
      BY <2>3, <2>4, GroupsOfBits
    <3>2. \A i \in 1 .. g : NumberOf(GroupAt(s, i)) \in Values
      BY <3>1, BitsOfNumber
    <3>3. QED BY <2>3, <3>2
  <2>6. words \in [ 1 .. g -> Values ]
    BY <2>3, <2>5
  <2>7. Len(words) = g /\ DOMAIN words = 1 .. g
    <3> HIDE DEF g, Values
    <3>1. QED BY <2>4, <2>6, LenProperties
  <2>8. bits = s
    <3> HIDE DEF bits, s
    <3>1. QED BY <1>5, <2>3, <2>6
  <2>9. Right
    <3> HIDE DEF Right, entropy, bits, s
    <3>1. /\ entropy = SubSeq(bits, 1, n)
          /\ Right <=> SubSeq(bits, n + 1, m) = Checksum(entropy, q)
      BY <1>3, <2>3, <2>7, <2>8
    <3>2. QED BY <2>3, <2>8, <3>1
  <2> HIDE DEF Right
  <2>10. QED BY <1>2, <2>4, <2>5, <2>7, <2>9
<1>7. ASSUME ValidateMnemonic(words) PROVE words \in Phrases
  <2> HIDE DEF Right
  <2>1. PICK n \in EntropyLengths : Len(words) = (n + n \div Ratio) \div WordBits
    <3>1. Len(words) \in WordCounts
      BY <1>2, <1>7
    <3>2. QED BY <3>1, MnemonicAssumption
  <2> DEFINE q == n \div Ratio
             m == n + q
             g == m \div WordBits
  <2>2. words \in [ 1 .. g -> Values ]
    BY <1>1, <1>2, <1>7, <2>1
  <2>3. bits \in [ 1 .. m -> Bit ]
    BY <1>4, <2>2
  <2>4. /\ entropy \in [ 1 .. n -> Bit ] /\ entropy \o SubSeq(bits, n + 1, m) = bits
        /\ SubSeq(bits, n + 1, m) = Checksum(entropy, q)
    <3> HIDE DEF entropy, bits
    <3>1. QED BY <1>2, <1>3, <1>7, <2>1, <2>3
  <2> HIDE DEF entropy, bits
  <2>5. Checked(entropy) = bits
    <3>1. Len(entropy) = n
      BY <2>4, BitCounts, LenProperties
    <3>2. QED BY <2>4, <3>1 DEF Checked
  <2>6. EntropyToMnemonic(entropy) = [ i \in 1 .. g |-> NumberOf(GroupAt(bits, i)) ]
    BY <2>4, <2>5, WordsWritten
  <2>7. words = [ i \in 1 .. g |-> NumberOf(GroupAt(bits, i)) ]
    BY <1>5, <2>2, <2>3
  <2>8. entropy \in Entropy
    BY <2>4 DEF Entropy
  <2>9. QED BY <2>6, <2>7, <2>8 DEF Phrases, FreshText
<1>8. QED BY <1>6, <1>7

-----------------------------------------------------------------------------
(* Coins *)

\* The first k coins of an order.
Taken(order, k) == { order[i] : i \in 1 .. k }

(* Fewer outputs are worth no more, and each counts for its amount.         *)
LEMMA TotalTakes ==
    ASSUME NEW s \in SUBSET OutPoint, IsFiniteSet(s)
    PROVE  /\ TotalAmount(s) \in Nat /\ TotalAmount({}) = 0
           /\ \A t \in SUBSET s : TotalAmount(t) \in Nat /\ TotalAmount(t) <= TotalAmount(s)
           /\ \A x \in s : TotalAmount(s) = TotalAmount(s \ {x}) + Amount[x]
<1>1. \A x \in s : Amount[x] \in Nat /\ Amount[x] \in Int
  BY AmountType
<1>2. \A t \in SUBSET s : /\ TotalAmount(t) = SumFunctionOnSet(Amount, t)
                          /\ TotalAmount(t) \in Nat
  <2>1. \A t \in SUBSET s : t \in SUBSET OutPoint /\ IsFiniteSet(t)
    BY FS_Subset
  <2>2. QED BY <2>1, TotalAmountIs
<1>3. TotalAmount({}) = 0
  BY <1>2, SumOfNone
<1>4. \A t \in SUBSET s : TotalAmount(t) <= TotalAmount(s)
  BY <1>1, <1>2, SumOfNaturals
<1>5. ASSUME NEW x \in s PROVE TotalAmount(s) = TotalAmount(s \ {x}) + Amount[x]
  <2>1. SumFunctionOnSet(Amount, s) = Amount[x] + SumFunctionOnSet(Amount, s \ {x})
    BY <1>1, SumTakes
  <2>2. TotalAmount(s) = Amount[x] + TotalAmount(s \ {x})
    BY <1>2, <2>1
  <2>3. TotalAmount(s \ {x}) \in Nat /\ Amount[x] \in Nat
    BY <1>1, <1>2
  <2>4. QED BY <2>2, <2>3
<1>6. QED BY <1>2, <1>3, <1>4, <1>5

(* Coins can be put in order: the least of them last.                       *)
LEMMA OrderExists ==
    ASSUME NEW coins \in SUBSET OutPoint, IsFiniteSet(coins)
    PROVE  LargestFirst(coins) # {}
<1> DEFINE P == { s \in SUBSET coins : LargestFirst(s) # {} }
<1>1. ASSUME NEW s \in SUBSET coins, \A t \in SUBSET s : t # s => t \in P
      PROVE  s \in P
  <2>0. IsFiniteSet(s) /\ \A x \in s : Amount[x] \in Nat /\ OutputAt(x).amount = Amount[x]
    BY FS_Subset, AmountType
  <2>1. CASE s = {}
    <3> DEFINE none == [ i \in 1 .. 0 |-> {} ]
    <3>1. Cardinality(s) = 0 /\ none \in [ 1 .. 0 -> s ] /\ DOMAIN none = {}
      BY <2>1, FS_EmptySet
    <3> HIDE DEF none
    <3>2. none \in LargestFirst(s)
      BY <3>1 DEF LargestFirst, SetToSeqs
    <3>3. QED BY <3>2
  <2>2. CASE s # {}
    <3> DEFINE amounts == { Amount[y] : y \in s }
    <3>1. PICK x \in s : \A y \in s : Amount[x] <= Amount[y]
      <4>1. amounts \in SUBSET Nat /\ amounts # {}
        BY <2>0, <2>2
      <4> HIDE DEF amounts
      <4>2. PICK a \in amounts : \A b \in amounts : a <= b
        BY <4>1, LeastNatural
      <4>3. QED BY <4>2 DEF amounts
    <3> DEFINE t == s \ {x}
               n == Cardinality(t)
    <3>2. t \in P /\ n \in Nat /\ Cardinality(s) = n + 1
      <4>1. t \in SUBSET s /\ t # s
        OBVIOUS
      <4>2. t \in P
        BY <1>1, <4>1
      <4>3. IsFiniteSet(t) /\ n \in Nat /\ n = Cardinality(s) - 1 /\ Cardinality(s) \in Nat
        BY <2>0, FS_RemoveElement, FS_CardinalityType
      <4> HIDE DEF t, n
      <4>4. QED BY <4>2, <4>3
    <3>3. PICK o \in LargestFirst(t) : TRUE
      BY <3>2
    <3> HIDE DEF n
    <3>4. /\ o \in [ 1 .. n -> t ] /\ DOMAIN o = 1 .. n
          /\ \A i, j \in 1 .. n : i # j => o[i] # o[j]
          /\ \A i, j \in 1 .. n : i < j => OutputAt(o[i]).amount >= OutputAt(o[j]).amount
      BY <3>3 DEF LargestFirst, SetToSeqs, n
    <3> DEFINE m == n + 1
               p == [ i \in 1 .. m |-> IF i = m THEN x ELSE o[i] ]
    <3>5. \A i \in 1 .. m : i = m \/ i \in 1 .. n
      BY <3>2
    <3>6. /\ \A i \in 1 .. n : p[i] = o[i] /\ o[i] \in t /\ i \in 1 .. m /\ i # m /\ ~ (m < i)
          /\ p[m] = x /\ ~ (m < m)
      BY <3>2, <3>4
    <3>7. p \in [ 1 .. m -> s ] /\ DOMAIN p = 1 .. m
      BY <3>4, <3>5
    <3> HIDE DEF p, m
    <3>8. \A i, j \in 1 .. m : i # j => p[i] # p[j]
      BY <3>4, <3>5, <3>6
    <3>9. \A i, j \in 1 .. m : i < j => OutputAt(p[i]).amount >= OutputAt(p[j]).amount
      <4> SUFFICES ASSUME NEW i \in 1 .. m, NEW j \in 1 .. m, i < j
                   PROVE  OutputAt(p[i]).amount >= OutputAt(p[j]).amount
        OBVIOUS
      <4>1. i \in 1 .. n
        BY <3>5, <3>6
      <4>2. CASE j \in 1 .. n
        BY <3>4, <3>6, <4>1, <4>2
      <4>3. CASE j = m
        <5>1. p[i] \in s /\ p[j] = x
          BY <3>6, <4>1, <4>3
        <5>2. Amount[x] <= Amount[p[i]] /\ Amount[x] \in Nat /\ Amount[p[i]] \in Nat
          BY <2>0, <3>1, <5>1
        <5>3. QED BY <2>0, <3>1, <5>1, <5>2
      <4>4. QED BY <3>5, <4>2, <4>3
    <3>10. Cardinality(s) = m
      BY <3>2 DEF m
    <3>11. p \in LargestFirst(s)
      BY <3>7, <3>8, <3>9, <3>10 DEF LargestFirst, SetToSeqs
    <3>12. QED BY <3>11
  <2>3. QED BY <2>1, <2>2
<1>2. SUBSET coins \subseteq P
  <2> HIDE DEF P
  <2>1. QED BY <1>1, SubsetInduction
<1>3. QED BY <1>2

(* An order has every coin once, and none before a larger one.              *)
LEMMA Orders ==
    ASSUME NEW coins \in SUBSET OutPoint, IsFiniteSet(coins), NEW order \in LargestFirst(coins),
           NEW n, n = Cardinality(coins)
    PROVE  /\ n \in Nat /\ order \in [ 1 .. n -> coins ] /\ Len(order) = n
           /\ \A i, j \in 1 .. n : order[i] = order[j] => i = j
           /\ \A x \in coins : \E i \in 1 .. n : order[i] = x
           /\ \A i, j \in 1 .. n : i <= j => Amount[order[j]] <= Amount[order[i]]
<1>1. n \in Nat
  BY FS_CardinalityType
<1>2. /\ order \in [ 1 .. n -> coins ] /\ DOMAIN order = 1 .. n
      /\ \A i, j \in 1 .. n : order[i] = order[j] => i = j
      /\ \A i, j \in 1 .. n : i < j => OutputAt(order[i]).amount >= OutputAt(order[j]).amount
  BY DEF LargestFirst, SetToSeqs
<1>3. \A x \in coins : \E i \in 1 .. n : order[i] = x
  <2>1. order \in Injection(1 .. n, coins)
    BY <1>2 DEF Injection, IsInjective
  <2>2. Cardinality(1 .. n) = n
    BY <1>1, FS_Interval
  <2>3. order \in Surjection(1 .. n, coins)
    BY <2>1, <2>2, FS_Injection
  <2>4. QED BY <2>3 DEF Surjection
<1>4. ASSUME NEW i \in 1 .. n, NEW j \in 1 .. n, i <= j PROVE Amount[order[j]] <= Amount[order[i]]
  <2>1. /\ Amount[order[i]] \in Nat /\ Amount[order[i]] = OutputAt(order[i]).amount
        /\ Amount[order[j]] \in Nat /\ Amount[order[j]] = OutputAt(order[j]).amount
    BY <1>2, AmountType
  <2>2. CASE i = j
    BY <2>1, <2>2
  <2>3. CASE i < j
    BY <1>2, <2>1, <2>3
  <2>4. QED BY <1>1, <1>4, <2>2, <2>3
<1>5. Len(order) = n
  BY <1>1, <1>2, LenProperties
<1>6. QED BY <1>1, <1>2, <1>3, <1>4, <1>5

(* One coin more adds its amount.                                           *)
LEMMA TakenOneMore ==
    ASSUME NEW coins \in SUBSET OutPoint, IsFiniteSet(coins), NEW order \in LargestFirst(coins),
           NEW n, n = Cardinality(coins), NEW k \in Nat, NEW m, m = k + 1, m <= n
    PROVE  /\ order[m] \in coins /\ order[m] \notin Taken(order, k)
           /\ Taken(order, m) = Taken(order, k) \cup {order[m]}
           /\ Taken(order, k) \subseteq coins /\ Taken(order, m) \subseteq coins
           /\ TotalAmount(Taken(order, m)) = TotalAmount(Taken(order, k)) + Amount[order[m]]
<1>1. /\ n \in Nat /\ order \in [ 1 .. n -> coins ]
      /\ \A i, j \in 1 .. n : order[i] = order[j] => i = j
  BY Orders
<1>2. /\ m \in 1 .. n /\ \A i \in 1 .. k : i \in 1 .. n /\ i # m /\ i \in 1 .. m
      /\ \A i \in 1 .. m : i = m \/ i \in 1 .. k
      /\ m \in 1 .. m
  BY <1>1
<1>3. order[m] \in coins /\ order[m] \notin Taken(order, k)
  BY <1>1, <1>2 DEF Taken
<1>4. Taken(order, m) = Taken(order, k) \cup {order[m]}
  BY <1>2 DEF Taken
<1>5. Taken(order, k) \subseteq coins /\ Taken(order, m) \subseteq coins
  BY <1>1, <1>2, <1>3, <1>4 DEF Taken
<1>6. TotalAmount(Taken(order, m)) = TotalAmount(Taken(order, k)) + Amount[order[m]]
  <2> DEFINE s == Taken(order, m)
             x == order[m]
  <2>1. s \in SUBSET OutPoint /\ IsFiniteSet(s) /\ x \in s
    BY <1>4, <1>5, FS_Subset
  <2>2. s \ {x} = Taken(order, k)
    BY <1>3, <1>4
  <2> HIDE DEF s, x
  <2>3. TotalAmount(s) = TotalAmount(s \ {x}) + Amount[x]
    BY <2>1, TotalTakes
  <2>4. QED BY <2>2, <2>3 DEF s, x
<1>7. QED BY <1>3, <1>4, <1>5, <1>6

(* No k coins are worth more than the first k of the order.                 *)
LEMMA FirstAreLargest ==
    ASSUME NEW coins \in SUBSET OutPoint, IsFiniteSet(coins), NEW order \in LargestFirst(coins),
           NEW s \in SUBSET coins
    PROVE  /\ Cardinality(s) \in 0 .. Cardinality(coins)
           /\ TotalAmount(s) <= TotalAmount(Taken(order, Cardinality(s)))
<1> DEFINE n == Cardinality(coins)
           Bounded(t, k) == TotalAmount(t) <= TotalAmount(Taken(order, k))
           P == { k \in Nat : \A t \in SUBSET coins : Cardinality(t) = k => Bounded(t, k) }
<1>1. \A t \in SUBSET coins : /\ IsFiniteSet(t) /\ t \in SUBSET OutPoint
                              /\ Cardinality(t) \in Nat /\ Cardinality(t) <= n
                              /\ TotalAmount(t) \in Nat
  BY FS_Subset, FS_CardinalityType, TotalTakes
<1>2. n \in Nat /\ order \in [ 1 .. n -> coins ]
      /\ (\A x \in coins : \E i \in 1 .. n : order[i] = x)
      /\ \A i, j \in 1 .. n : i <= j => Amount[order[j]] <= Amount[order[i]]
  BY Orders
<1>3. 0 \in P
  <2> SUFFICES ASSUME NEW t \in SUBSET coins, Cardinality(t) = 0 PROVE Bounded(t, 0)
    OBVIOUS
  <2>1. t = {} /\ Taken(order, 0) = {}
    BY <1>1, FS_EmptySet DEF Taken
  <2>2. TotalAmount(t) \in Nat
    BY <1>1
  <2>3. QED BY <2>1, <2>2
<1>4. ASSUME NEW k \in Nat, k \in P PROVE k + 1 \in P
  <2> DEFINE m == k + 1
  <2> SUFFICES ASSUME NEW t \in SUBSET coins, Cardinality(t) = m PROVE Bounded(t, m)
    OBVIOUS
  <2>1. m \in Nat /\ m = k + 1 /\ m <= n /\ k < m /\ m \in 1 .. n
    BY <1>1, <1>2
  <2>2. /\ Taken(order, k) \subseteq coins
        /\ TotalAmount(Taken(order, m)) = TotalAmount(Taken(order, k)) + Amount[order[m]]
    <3> HIDE DEF m, n
    <3>1. n = Cardinality(coins)
      BY DEF n
    <3>2. QED BY <2>1, <3>1, TakenOneMore
  <2>3. PICK x \in t : x \notin Taken(order, k)
    <3> SUFFICES ASSUME t \subseteq Taken(order, k) PROVE FALSE
      OBVIOUS
    <3> DEFINE I == 1 .. k
               f == [ i \in I |-> order[i] ]
    <3>1. IsFiniteSet(I) /\ Cardinality(I) = k
      BY FS_Interval
    <3>2. f \in Surjection(I, Taken(order, k))
      BY DEF Surjection, Taken
    <3> HIDE DEF I, f
    <3>3. IsFiniteSet(Taken(order, k)) /\ Cardinality(Taken(order, k)) <= k
      BY <3>1, <3>2, FS_Surjection
    <3>4. Cardinality(t) <= Cardinality(Taken(order, k)) /\ Cardinality(Taken(order, k)) \in Nat
      BY <3>3, FS_Subset, FS_CardinalityType
    <3>5. QED BY <2>1, <3>3, <3>4
  <2>4. Amount[x] <= Amount[order[m]] /\ Amount[x] \in Nat /\ Amount[order[m]] \in Nat
    <3>1. PICK i \in 1 .. n : order[i] = x
      BY <1>2, <2>3
    <3>2. ~ (i \in 1 .. k)
      BY <2>3, <3>1 DEF Taken
    <3>3. m <= i
      BY <1>2, <2>1, <3>2
    <3>4. Amount[order[i]] <= Amount[order[m]]
      BY <1>2, <2>1, <3>3
    <3>5. order[m] \in OutPoint /\ x \in OutPoint
      BY <1>2, <2>1
    <3>6. QED BY <3>1, <3>4, <3>5, AmountType
  <2>5. TotalAmount(t) = TotalAmount(t \ {x}) + Amount[x]
    BY <1>1, TotalTakes
  <2>6. Bounded(t \ {x}, k)
    <3>1. Cardinality(t \ {x}) = k
      <4>1. IsFiniteSet(t)
        BY <1>1
      <4>2. Cardinality(t \ {x}) = IF x \in t THEN Cardinality(t) - 1 ELSE Cardinality(t)
        BY <4>1, FS_RemoveElement
      <4>3. QED BY <4>2
    <3>2. t \ {x} \in SUBSET coins
      OBVIOUS
    <3> HIDE DEF Bounded
    <3>3. QED BY <1>4, <3>1, <3>2
  <2>7. TotalAmount(t \ {x}) \in Nat /\ TotalAmount(Taken(order, k)) \in Nat
    BY <1>1, <2>2
  <2> HIDE DEF m
  <2>8. QED BY <2>2, <2>4, <2>5, <2>6, <2>7
<1>5. Nat \subseteq P
  <2> HIDE DEF P
  <2>1. QED BY <1>3, <1>4, NaturalInduction
<1>6. QED BY <1>1, <1>2, <1>5

\* The first k coins of an order, as a sequence.
First(order, k) == SubSeq(order, 1, k)

(* The first k coins, as a sequence.                                        *)
LEMMA FirstCoins ==
    ASSUME NEW coins \in SUBSET OutPoint, IsFiniteSet(coins), NEW order \in LargestFirst(coins),
           NEW n, n = Cardinality(coins), NEW k \in 0 .. n
    PROVE  /\ First(order, k) \in [ 1 .. k -> coins ] /\ Len(First(order, k)) = k
           /\ \A i \in 1 .. k : First(order, k)[i] = order[i]
           /\ \A j \in 0 .. k : SubSeq(First(order, k), 1, j) = First(order, j)
<1> DEFINE s == First(order, k)
<1>1. n \in Nat /\ order \in [ 1 .. n -> coins ]
  BY Orders
<1>2. ASSUME NEW j \in 0 .. n
      PROVE  /\ First(order, j) \in Seq(coins) /\ Len(First(order, j)) = j
             /\ First(order, j) \in [ 1 .. j -> coins ]
             /\ \A i \in 1 .. j : First(order, j)[i] = order[i]
  <2> DEFINE a == First(order, j)
  <2>1. 1 \in Int /\ j \in Int /\ (\A i \in 1 .. j : order[i] \in coins) /\ j - 1 + 1 = j
    BY <1>1
  <2>2. /\ a \in Seq(coins) /\ Len(a) = IF 1 <= j THEN j - 1 + 1 ELSE 0
        /\ \A i \in 1 .. j - 1 + 1 : a[i] = order[1 + i - 1]
    BY <2>1, SubSeqProperties DEF First
  <2> HIDE DEF a
  <2>3. a \in Seq(coins) /\ Len(a) = j /\ \A i \in 1 .. j : a[i] = order[i]
    BY <2>1, <2>2
  <2>4. a \in [ 1 .. j -> coins ]
    BY <2>3, LenProperties
  <2>5. QED BY <2>3, <2>4 DEF a
<1>3. ASSUME NEW j \in 0 .. k PROVE SubSeq(s, 1, j) = First(order, j)
  <2> DEFINE a == SubSeq(s, 1, j)
             b == First(order, j)
  <2>1. 1 \in Int /\ j \in Int /\ (\A i \in 1 .. j : s[i] \in coins) /\ j - 1 + 1 = j /\ j \in 0 .. n
    <3>1. k \in 0 .. n
      OBVIOUS
    <3> HIDE DEF s
    <3>2. s \in [ 1 .. k -> coins ]
      BY <1>2 DEF s
    <3>3. QED BY <1>1, <3>1, <3>2
  <2>2. /\ a \in Seq(coins) /\ Len(a) = IF 1 <= j THEN j - 1 + 1 ELSE 0
        /\ \A i \in 1 .. j - 1 + 1 : a[i] = s[1 + i - 1]
    BY <2>1, SubSeqProperties
  <2>3. \A i \in 1 .. k : s[i] = order[i]
    BY <1>2
  <2> HIDE DEF a, s
  <2>4. a \in Seq(coins) /\ Len(a) = j /\ \A i \in 1 .. j : a[i] = order[i]
    BY <2>1, <2>2, <2>3
  <2>5. a \in [ 1 .. j -> coins ]
    BY <2>4, LenProperties
  <2>6. b \in [ 1 .. j -> coins ] /\ \A i \in 1 .. j : b[i] = order[i]
    BY <1>2, <2>1
  <2> HIDE DEF b
  <2>7. a = b
    BY <2>4, <2>5, <2>6
  <2>8. QED BY <2>7 DEF a, b, s
<1>4. QED BY <1>2, <1>3

\* The first k coins of an order of n are worth what the set of them is.
IsWorth(coins, order, k, n) ==
    LET worth == TotalAmount(Taken(order, k))
    IN  /\ Taken(order, k) \subseteq coins /\ Taken(order, n) = coins
        /\ worth \in Nat /\ worth <= TotalAmount(coins)
        /\ SumFunction([ i \in DOMAIN First(order, k) |-> OutputAt(First(order, k)[i]).amount ])
             = worth
        /\ Worth(First(order, k)) = worth

(* They are, as long as a u64 holds the whole.                              *)
LEMMA FirstWorth ==
    ASSUME NEW coins \in SUBSET OutPoint, IsFiniteSet(coins), NEW order \in LargestFirst(coins),
           NEW n, n = Cardinality(coins), NEW k \in 0 .. n, TotalAmount(coins) < U64
    PROVE  IsWorth(coins, order, k, n)
<1> DEFINE I == 1 .. k
           m == [ i \in I |-> order[i] ]
           g == [ i \in I |-> OutputAt(order[i]).amount ]
<1>1. /\ n \in Nat /\ order \in [ 1 .. n -> coins ]
      /\ \A i, j \in 1 .. n : order[i] = order[j] => i = j
      /\ \A x \in coins : \E i \in 1 .. n : order[i] = x
  <2>1. n \in Nat /\ order \in [ 1 .. n -> coins ]
    BY Orders
  <2>2. \A i, j \in 1 .. n : order[i] = order[j] => i = j
    BY Orders
  <2>3. \A x \in coins : \E i \in 1 .. n : order[i] = x
    BY Orders
  <2>4. QED BY <2>1, <2>2, <2>3
<1>2. k \in Nat /\ \A i \in I : i \in 1 .. n
  BY <1>1
<1>3. Taken(order, k) = Image(m, I) /\ Taken(order, k) \subseteq coins /\ Taken(order, n) = coins
  BY <1>1, <1>2 DEF Taken, Image
<1>4. TotalAmount(Taken(order, k)) \in Nat /\ TotalAmount(Taken(order, k)) <= TotalAmount(coins)
  BY <1>3, TotalTakes
<1>5. [ i \in DOMAIN First(order, k) |-> OutputAt(First(order, k)[i]).amount ] = g
  <2>1. DOMAIN First(order, k) = I /\ \A i \in I : First(order, k)[i] = order[i]
    BY FirstCoins
  <2>2. QED BY <2>1
<1>6. SumFunction(g) = TotalAmount(Taken(order, k))
  <2>1. IsFiniteSet(I)
    BY <1>2, FS_Interval
  <2>2. \A i, j \in I : m[i] = m[j] => i = j
    BY <1>1, <1>2
  <2>3. \A i \in I : g[i] \in Nat /\ Amount[m[i]] = g[i]
    <3>1. \A i \in I : order[i] \in OutPoint
      BY <1>1, <1>2
    <3>2. QED BY <3>1, AmountType
  <2>4. SumFunction(g) = SumFunctionOnSet(g, I)
    BY DEF SumFunction
  <2> HIDE DEF I, m, g
  <2>5. SumFunctionOnSet(Amount, Image(m, I)) = SumFunctionOnSet(g, I)
    BY <2>1, <2>2, <2>3, SumOverImage
  <2>6. TotalAmount(Taken(order, k)) = SumFunctionOnSet(Amount, Taken(order, k))
    <3>1. Taken(order, k) \in SUBSET OutPoint /\ IsFiniteSet(Taken(order, k))
      BY <1>3, FS_Subset
    <3>2. QED BY <3>1, TotalAmountIs
  <2>7. QED BY <1>3, <2>4, <2>5, <2>6
<1>7. Worth(First(order, k)) = TotalAmount(Taken(order, k))
  <2> DEFINE t == TotalAmount(Taken(order, k))
             all == TotalAmount(coins)
  <2>1. Worth(First(order, k)) = t % U64
    BY <1>5, <1>6 DEF Worth
  <2>2. t \in Nat /\ all \in Nat /\ t <= all /\ all < U64 /\ U64 \in Nat \ {0}
    BY <1>4, TotalTakes, LedgerAssumption
  <2> HIDE DEF t, all
  <2>3. t % U64 = t
    BY <2>2
  <2>4. QED BY <2>1, <2>3 DEF t
<1>8. QED BY <1>3, <1>4, <1>5, <1>6, <1>7 DEF IsWorth

(* What the builder takes of an order: coins from the front, one at least,  *)
(* and no more once they are worth what is needed.                          *)
LEMMA SelectionIs ==
    ASSUME NEW coins \in SUBSET OutPoint, IsFiniteSet(coins), NEW order \in LargestFirst(coins),
           NEW n, n = Cardinality(coins), TotalAmount(coins) < U64, NEW need \in Nat
    PROVE  \E k \in 0 .. n :
               /\ Selected(order, need) = First(order, k)
               /\ \A j \in 1 .. k - 1 : TotalAmount(Taken(order, j)) < need
               /\ TotalAmount(Taken(order, k)) >= need \/ k = n
               /\ Worth(Selected(order, need)) = TotalAmount(Taken(order, k))
               /\ TotalAmount(Taken(order, k)) \in Nat
<1> DEFINE Stop(k) == TotalAmount(Taken(order, k)) >= need \/ k = n
           Right(k) == /\ k = 0 => n = 0
                       /\ \A j \in 1 .. k - 1 : TotalAmount(Taken(order, j)) < need
                       /\ Stop(k)
           fronts == { SubSeq(order, 1, k) : k \in 0 .. Len(order) }
<1>1. n \in Nat /\ order \in [ 1 .. n -> coins ] /\ Len(order) = n
  BY Orders
<1>2. ASSUME NEW k \in 0 .. n
      PROVE  /\ TotalAmount(Taken(order, k)) \in Nat
             /\ Worth(First(order, k)) = TotalAmount(Taken(order, k))
  <2>1. IsWorth(coins, order, k, n)
    BY FirstWorth
  <2>2. QED BY <2>1 DEF IsWorth
<1>3. First(order, n) = order
  <2>1. n \in 0 .. n
    BY <1>1
  <2>2. First(order, n) \in [ 1 .. n -> coins ] /\ \A i \in 1 .. n : First(order, n)[i] = order[i]
    BY <2>1, FirstCoins
  <2>3. QED BY <1>1, <2>2
<1>4. ASSUME NEW k \in 0 .. n
      PROVE  IsSelection(First(order, k), order, need) <=> Right(k)
  <2> DEFINE s == First(order, k)
  <2>1. /\ s \in [ 1 .. k -> coins ] /\ Len(s) = k
        /\ \A j \in 0 .. k : SubSeq(s, 1, j) = First(order, j)
    BY FirstCoins
  <2> HIDE DEF s
  <2>2. IsPrefix(s, order)
    <3>1. k \in 0 .. k /\ k <= n
      BY <1>1
    <3>2. SubSeq(s, 1, k) = First(order, k)
      BY <2>1, <3>1
    <3>3. QED BY <1>1, <2>1, <3>1, <3>2 DEF IsPrefix, First
  <2>3. (s = << >> <=> k = 0) /\ (order = << >> <=> n = 0) /\ (s = order <=> k = n)
    <3>1. s = << >> <=> k = 0
      BY <1>1, <2>1
    <3>2. order = << >> <=> n = 0
      BY <1>1
    <3>3. s = order => k = n
      BY <1>1, <2>1
    <3>4. k = n => s = order
      BY <1>3 DEF s
    <3>5. QED BY <3>1, <3>2, <3>3, <3>4
  <2>4. \A j \in 1 .. k - 1 : /\ j \in 0 .. k /\ j \in 0 .. n
                              /\ Worth(SubSeq(s, 1, j)) = TotalAmount(Taken(order, j))
    <3>1. \A j \in 1 .. k - 1 : j \in 0 .. k /\ j \in 0 .. n
      BY <1>1
    <3>2. QED BY <1>2, <2>1, <3>1
  <2>5. Worth(s) = TotalAmount(Taken(order, k))
    BY <1>2 DEF s
  <2>6. QED BY <2>1, <2>2, <2>3, <2>4, <2>5 DEF IsSelection, s
<1>5. \E k \in 0 .. n : Right(k)
  <2>1. CASE n = 0
    BY <2>1
  <2>2. CASE n # 0
    <3> DEFINE T == { k \in 1 .. n : Stop(k) }
    <3>1. T \in SUBSET Nat /\ n \in T
      BY <1>1, <2>2
    <3> HIDE DEF T
    <3>2. PICK k \in T : \A j \in T : k <= j
      BY <3>1, LeastNatural
    <3>3. k \in 1 .. n /\ Stop(k) /\ \A j \in 1 .. n : Stop(j) => k <= j
      BY <3>2 DEF T
    <3>4. \A j \in 1 .. k - 1 : TotalAmount(Taken(order, j)) < need
      <4> SUFFICES ASSUME NEW j \in 1 .. k - 1 PROVE TotalAmount(Taken(order, j)) < need
        OBVIOUS
      <4>1. j \in 1 .. n /\ j \in 0 .. n /\ ~ (k <= j)
        BY <1>1, <3>3
      <4>2. ~ (TotalAmount(Taken(order, j)) >= need) /\ TotalAmount(Taken(order, j)) \in Nat
        BY <1>2, <3>3, <4>1
      <4>3. QED BY <4>2
    <3>5. k \in 0 .. n /\ k # 0
      BY <3>3
    <3>6. QED BY <3>3, <3>4, <3>5
  <2>3. QED BY <2>1, <2>2
<1> HIDE DEF Right
<1>6. fronts = { First(order, k) : k \in 0 .. n }
  BY <1>1 DEF First
<1>7. \E s \in fronts : IsSelection(s, order, need)
  BY <1>4, <1>5, <1>6
<1>8. Selected(order, need) \in fronts /\ IsSelection(Selected(order, need), order, need)
  BY <1>7 DEF Selected
<1>9. PICK k \in 0 .. n : Selected(order, need) = First(order, k)
  BY <1>6, <1>8
<1>10. Right(k)
  BY <1>4, <1>8, <1>9
<1>11. QED BY <1>2, <1>9, <1>10 DEF Right

(* Sums over one place and over two.                                        *)
LEMMA SumOfFew ==
    ASSUME NEW f
    PROVE  /\ DOMAIN f = {1} /\ f[1] \in Int => SumFunction(f) = f[1]
           /\ DOMAIN f = {1, 2} /\ f[1] \in Int /\ f[2] \in Int => SumFunction(f) = f[1] + f[2]
<1>0. SumFunctionOnSet(f, {}) = 0 /\ IsFiniteSet({1}) /\ IsFiniteSet({1, 2})
  <2>1. IsFiniteSet({1}) /\ IsFiniteSet({1} \cup {2}) /\ {1} \cup {2} = {1, 2}
    BY FS_Singleton, FS_AddElement
  <2>2. QED BY <2>1, SumOfNone
<1>1. \A x \in Int : f[x] \in Int => SumFunctionOnSet(f, {x}) = f[x]
  <2> SUFFICES ASSUME NEW x \in Int, f[x] \in Int PROVE SumFunctionOnSet(f, {x}) = f[x]
    OBVIOUS
  <2>1. IsFiniteSet({x}) /\ (\A y \in {x} : f[y] \in Int) /\ x \in {x} /\ {x} \ {x} = {}
    BY FS_Singleton
  <2>2. SumFunctionOnSet(f, {x}) = f[x] + SumFunctionOnSet(f, {x} \ {x})
    BY <2>1, SumTakes
  <2>3. SumFunctionOnSet(f, {x} \ {x}) = 0
    BY <1>0, <2>1, Zenon
  <2>4. QED BY <2>2, <2>3
<1>2. ASSUME f[1] \in Int, f[2] \in Int PROVE SumFunctionOnSet(f, {1, 2}) = f[1] + f[2]
  <2>1. (\A y \in {1, 2} : f[y] \in Int) /\ 1 \in {1, 2} /\ {1, 2} \ {1} = {2}
    BY <1>2
  <2>2. SumFunctionOnSet(f, {1, 2}) = f[1] + SumFunctionOnSet(f, {1, 2} \ {1})
    BY <1>0, <2>1, SumTakes
  <2>3. QED BY <1>1, <1>2, <2>1, <2>2
<1>3. QED BY <1>1, <1>2 DEF SumFunction

(* The payment and the change, put together.                                *)
LEMMA PairOfTwo == \A a, b : << a >> \o << b >> = << a, b >> /\ << a >> \o << >> = << a >>
<1> SUFFICES ASSUME NEW a, NEW b PROVE << a >> \o << b >> = << a, b >> /\ << a >> \o << >> = << a >>
  OBVIOUS
<1> DEFINE S == {a, b}
           x == << a >>
           y == << b >>
           z == << a, b >>
<1>1. /\ x \in Seq(S) /\ Len(x) = 1 /\ x[1] = a
      /\ y \in Seq(S) /\ Len(y) = 1 /\ y[1] = b
      /\ z \in Seq(S) /\ Len(z) = 2 /\ z[1] = a /\ z[2] = b /\ z \in [ 1 .. 2 -> S ]
  OBVIOUS
<1> HIDE DEF S, x, y, z
<1>2. /\ x \o y \in Seq(S) /\ Len(x \o y) = 1 + 1
      /\ \A i \in 1 .. 1 + 1 : (x \o y)[i] = IF i <= 1 THEN x[i] ELSE y[i - 1]
  <2>1. /\ x \o y \in Seq(S) /\ Len(x \o y) = Len(x) + Len(y)
        /\ \A i \in 1 .. Len(x) + Len(y) : (x \o y)[i] = IF i <= Len(x) THEN x[i] ELSE y[i - Len(x)]
    BY <1>1, ConcatProperties
  <2>2. QED BY <1>1, <2>1
<1>3. x \o y = z
  <2> DEFINE p == x \o y
  <2>1. p \in Seq(S) /\ Len(p) = 2 /\ p[1] = a /\ p[2] = b
    BY <1>1, <1>2
  <2> HIDE DEF p
  <2>2. p \in [ 1 .. 2 -> S ]
    BY <2>1, LenProperties
  <2>3. \A i \in 1 .. 2 : i = 1 \/ i = 2
    OBVIOUS
  <2>4. \A i \in 1 .. 2 : p[i] = z[i]
    BY <1>1, <2>1, <2>3
  <2>5. p = z
    BY <1>1, <2>2, <2>4
  <2>6. QED BY <2>5 DEF p
<1>4. x \o << >> = x
  BY <1>1, ConcatEmptySeq
<1>5. QED BY <1>3, <1>4 DEF x, y, z

(* The rules over the transactions of the chain and a new one read the      *)
(* outputs of the chain, and the new one as it is.                          *)
LEMMA NewRules ==
    ASSUME NEW tx, NEW ins, tx.inputs = ins, NEW outs, tx.outputs = outs,
           \A i \in DOMAIN ins : OutPointOf(ins[i]) \in OutPoint
    PROVE  /\ Rules(tx)!TotalInput(NewTx) =
                SumFunction([ i \in DOMAIN ins |-> OutputAt(OutPointOf(ins[i])).amount ]) % U64
           /\ Rules(tx)!TotalOutput(NewTx) =
                SumFunction([ i \in DOMAIN outs |-> outs[i].amount ]) % U64
           /\ \A utxos :
                /\ \A i \in DOMAIN ins : InputOk(ins[i], utxos)
                /\ \A i, j \in DOMAIN ins : OutPointOf(ins[i]) = OutPointOf(ins[j]) => i = j
                /\ Rules(tx)!TotalInput(NewTx) >= Rules(tx)!TotalOutput(NewTx)
                => Rules(tx)!ValidateTransaction(NewTx, utxos, {})
<1> DEFINE all == Tx \cup {NewTx}
           inputs == [ t \in all |-> IF t = NewTx THEN tx.inputs ELSE Inputs[t] ]
           outputs == [ t \in all |-> IF t = NewTx THEN tx.outputs ELSE Outputs[t] ]
<1>1. /\ inputs[NewTx] = ins /\ outputs[NewTx] = outs
      /\ \A t \in Tx : outputs[t] = Outputs[t]
  BY WalletAssumption
<1>2. \A in : Rules(tx)!OutPointOf(in) = OutPointOf(in)
  BY DEF Rules!OutPointOf, OutPointOf
<1>3. ASSUME NEW o \in OutPoint PROVE Rules(tx)!OutputAt(o) = OutputAt(o)
  <2>1. o[1] \in Tx
    BY DEF OutPoint, Created
  <2>2. \A i : Rules(tx)!OutputIndex(i) = OutputIndex(i)
    BY DEF Rules!OutputIndex, OutputIndex
  <2>3. Rules(tx)!Lasting(o[1]) = Lasting(o[1])
    BY <1>1, <2>1 DEF Rules!Lasting, Lasting
  <2>4. QED BY <1>1, <2>1, <2>2, <2>3 DEF Rules!OutputAt, OutputAt
<1>4. \A f : Rules(tx)!SumFunction(f) = SumFunction(f)
  BY DEF Rules!SumFunction, Rules!SumFunctionOnSet, Rules!FoldFunctionOnSet, Rules!MapThenFoldSet,
         SumFunction, SumFunctionOnSet, FoldFunctionOnSet, MapThenFoldSet
<1>5. \A i \in DOMAIN ins : /\ Rules(tx)!OutPointOf(ins[i]) = OutPointOf(ins[i])
                            /\ Rules(tx)!OutputAt(OutPointOf(ins[i])) = OutputAt(OutPointOf(ins[i]))
  BY <1>2, <1>3
<1>6. Rules(tx)!InputSum(NewTx) =
          Rules(tx)!SumFunction([ i \in DOMAIN ins |->
              Rules(tx)!OutputAt(Rules(tx)!OutPointOf(ins[i])).amount ])
  BY <1>1 DEF Rules!InputSum
<1>7. [ i \in DOMAIN ins |-> Rules(tx)!OutputAt(Rules(tx)!OutPointOf(ins[i])).amount ]
          = [ i \in DOMAIN ins |-> OutputAt(OutPointOf(ins[i])).amount ]
  BY <1>5
<1>8. Rules(tx)!OutputSum(NewTx) =
          Rules(tx)!SumFunction([ i \in DOMAIN outs |-> outs[i].amount ])
  BY <1>1 DEF Rules!OutputSum
<1>9. \A i \in DOMAIN ins : \A utxos : InputOk(ins[i], utxos) => Rules(tx)!InputOk(ins[i], utxos)
  BY <1>5 DEF InputOk, Rules!InputOk
<1>10. ASSUME NEW utxos, \A i \in DOMAIN ins : InputOk(ins[i], utxos),
              \A i, j \in DOMAIN ins : OutPointOf(ins[i]) = OutPointOf(ins[j]) => i = j,
              Rules(tx)!TotalInput(NewTx) >= Rules(tx)!TotalOutput(NewTx)
       PROVE  Rules(tx)!ValidateTransaction(NewTx, utxos, {})
  <2>1. \A i, j \in DOMAIN ins :
            Rules(tx)!OutPointOf(ins[i]) = Rules(tx)!OutPointOf(ins[j]) => i = j
    BY <1>2, <1>10
  <2>2. \A i \in DOMAIN ins : Rules(tx)!InputOk(ins[i], utxos)
    BY <1>9, <1>10
  <2>3. QED BY <1>1, <1>10, <2>1, <2>2 DEF Rules!ValidateTransaction
<1>11. Rules(tx)!TotalInput(NewTx) =
          SumFunction([ i \in DOMAIN ins |-> OutputAt(OutPointOf(ins[i])).amount ]) % U64
  BY <1>4, <1>6, <1>7 DEF Rules!TotalInput
<1>12. Rules(tx)!TotalOutput(NewTx) = SumFunction([ i \in DOMAIN outs |-> outs[i].amount ]) % U64
  BY <1>4, <1>8 DEF Rules!TotalOutput
<1>13. QED BY <1>10, <1>11, <1>12

\* The first k of an owner's coins in a UTXO set, the largest first, are worth
\* what is needed.
Covers(owner, coins, order, k, need, utxos) ==
    /\ coins \in SUBSET OutPoint /\ IsFiniteSet(coins) /\ TotalAmount(coins) < U64
    /\ coins \subseteq utxos /\ \A o \in coins : OutputAt(o).owner = owner
    /\ order \in LargestFirst(coins) /\ k \in 0 .. Cardinality(coins)
    /\ TotalAmount(Taken(order, k)) >= need

\* A node with these UTXOs takes a transaction of k inputs for the fee; it pays
\* the amount, and nobody but the sender the rest.
Delivers(tx, owner, to, amount, fee, k, utxos) ==
    /\ Rules(tx)!ValidateTransaction(NewTx, utxos, {}) /\ Rules(tx)!Fee(NewTx) = fee
    /\ Len(tx.inputs) = k
    /\ to # owner => PaidTo(to, tx) = amount
    /\ \A i \in DOMAIN tx.outputs : tx.outputs[i].owner \in { to, owner }

(* What build_transaction makes of coins that are worth enough.             *)
LEMMA PaymentAccepted ==
    ASSUME NEW owner, NEW to, NEW amount \in Nat, NEW fee \in Nat,
           NEW need \in Nat, need = amount + fee, need < U64,
           NEW coins, NEW order, NEW k, NEW utxos, Covers(owner, coins, order, k, need, utxos),
           NEW tx, tx = Payment(owner, to, amount, fee, First(order, k))
    PROVE  Delivers(tx, owner, to, amount, fee, k, utxos)
<1> DEFINE n == Cardinality(coins)
<1>0. /\ coins \in SUBSET OutPoint /\ IsFiniteSet(coins) /\ TotalAmount(coins) < U64
      /\ coins \subseteq utxos /\ \A o \in coins : OutputAt(o).owner = owner
      /\ order \in LargestFirst(coins) /\ k \in 0 .. n
      /\ TotalAmount(Taken(order, k)) >= need
  BY DEF Covers
<1> USE <1>0
<1> DEFINE s == First(order, k)
           worth == TotalAmount(Taken(order, k))
           change == worth - (amount + fee)
           pay == [ amount |-> amount, owner |-> to ]
           rest == [ amount |-> change, owner |-> owner ]
           in == [ i \in 1 .. k |-> [ from |-> s[i][1], index |-> s[i][2],
                                      owner |-> owner, signed |-> TRUE ] ]
           out == IF change > 0 THEN << pay, rest >> ELSE << pay >>
<1>1. /\ n \in Nat /\ k \in Nat /\ \A i \in 1 .. k : i \in 1 .. n
      /\ \A i, j \in 1 .. n : order[i] = order[j] => i = j
      /\ s \in [ 1 .. k -> coins ] /\ \A i \in 1 .. k : s[i] = order[i]
  <2>1. n \in Nat /\ \A i, j \in 1 .. n : order[i] = order[j] => i = j
    BY Orders
  <2>2. s \in [ 1 .. k -> coins ] /\ \A i \in 1 .. k : s[i] = order[i]
    BY FirstCoins
  <2> HIDE DEF s
  <2>3. QED BY <2>1, <2>2
<1>2. /\ worth \in Nat /\ worth < U64 /\ Worth(s) = worth /\ U64 \in Nat \ {0}
      /\ SumFunction([ i \in DOMAIN s |-> OutputAt(s[i]).amount ]) = worth
  <2> DEFINE all == TotalAmount(coins)
  <2>1. /\ worth \in Nat /\ worth <= all /\ Worth(s) = worth
        /\ SumFunction([ i \in DOMAIN s |-> OutputAt(s[i]).amount ]) = worth
    <3>1. IsWorth(coins, order, k, n)
      BY FirstWorth
    <3>2. QED BY <3>1 DEF IsWorth
  <2>2. all \in Nat /\ all < U64 /\ U64 \in Nat \ {0}
    BY TotalTakes, LedgerAssumption
  <2> HIDE DEF all, worth, s
  <2>3. QED BY <2>1, <2>2
<1>3. AddU64(amount, fee) = amount + fee
  BY <1>2 DEF AddU64
<1>4. change \in Nat /\ change <= worth /\ amount + change + fee = worth /\ worth >= amount + fee
  <2>1. worth >= amount + fee
    OBVIOUS
  <2> HIDE DEF worth
  <2>2. QED BY <1>2, <2>1
<1> HIDE DEF worth
<1>5. tx.inputs = in /\ tx.outputs = out
  <2>1. DOMAIN s = 1 .. k
    BY <1>1
  <2>2. << pay >> \o << rest >> = << pay, rest >> /\ << pay >> \o << >> = << pay >>
    BY PairOfTwo
  <2>3. tx = [ inputs |-> [ i \in DOMAIN s |-> [ from |-> s[i][1], index |-> s[i][2],
                                                 owner |-> owner, signed |-> TRUE ] ],
               outputs |-> << pay >> \o IF change > 0 THEN << rest >> ELSE << >> ]
    BY <1>2, <1>3 DEF Payment
  <2> HIDE DEF pay, rest, change, s
  <2>4. tx.inputs = in
    BY <2>1, <2>3
  <2>5. tx.outputs = << pay >> \o IF change > 0 THEN << rest >> ELSE << >>
    BY <2>3
  <2>6. CASE change > 0
    BY <2>2, <2>4, <2>5, <2>6
  <2>7. CASE ~ (change > 0)
    BY <2>2, <2>4, <2>5, <2>7
  <2>8. QED BY <2>6, <2>7
<1>6. /\ DOMAIN in = 1 .. k
      /\ \A i \in 1 .. k : /\ OutPointOf(in[i]) = s[i] /\ s[i] \in coins
                           /\ in[i].owner = owner /\ in[i].signed = TRUE
  <2>1. \A o \in OutPoint : o = << o[1], o[2] >>
    BY DEF OutPoint, Created
  <2>2. \A i \in 1 .. k : s[i] \in coins /\ s[i] = << s[i][1], s[i][2] >>
    BY <1>1, <2>1
  <2> HIDE DEF s
  <2>3. QED BY <2>2 DEF OutPointOf
<1>7. /\ \A i \in DOMAIN out : out[i].owner \in { to, owner }
      /\ SumFunction([ i \in DOMAIN out |-> out[i].amount ]) = amount + change
      /\ to # owner => SumFunction([ i \in DOMAIN out |->
                                       IF out[i].owner = to THEN out[i].amount ELSE 0 ]) = amount
  <2> DEFINE f == [ i \in DOMAIN out |-> out[i].amount ]
             g == [ i \in DOMAIN out |-> IF out[i].owner = to THEN out[i].amount ELSE 0 ]
  <2>1. CASE change > 0
    <3>1. out = << pay, rest >>
      BY <2>1
    <3>2. DOMAIN out = {1, 2} /\ out[1] = pay /\ out[2] = rest
      <4> HIDE DEF pay, rest, out
      <4>1. QED BY <3>1
    <3>3. pay.amount = amount /\ pay.owner = to /\ rest.amount = change /\ rest.owner = owner
      OBVIOUS
    <3> HIDE DEF pay, rest, out, change
    <3>4. DOMAIN f = {1, 2} /\ f[1] = amount /\ f[2] = change
      BY <3>2, <3>3
    <3>5. DOMAIN g = {1, 2} /\ g[1] = amount /\ (to # owner => g[2] = 0)
      BY <3>2, <3>3
    <3> HIDE DEF f, g
    <3>6. SumFunction(f) = amount + change
      BY <1>4, <3>4, SumOfFew
    <3>7. to # owner => SumFunction(g) = amount
      BY <3>5, SumOfFew
    <3>8. \A i \in DOMAIN out : out[i].owner \in { to, owner }
      BY <3>2, <3>3
    <3>9. QED BY <3>6, <3>7, <3>8 DEF f, g
  <2>2. CASE ~ (change > 0)
    <3>1. out = << pay >> /\ change = 0
      <4>1. change = 0
        <5> HIDE DEF change
        <5>1. QED BY <1>4, <2>2
      <4>2. QED BY <2>2, <4>1
    <3>2. DOMAIN out = {1} /\ out[1] = pay
      <4> HIDE DEF pay, rest, out
      <4>1. QED BY <3>1
    <3>3. pay.amount = amount /\ pay.owner = to
      OBVIOUS
    <3> HIDE DEF pay, rest, out, change
    <3>4. DOMAIN f = {1} /\ f[1] = amount /\ DOMAIN g = {1} /\ g[1] = amount
      BY <3>2, <3>3
    <3> HIDE DEF f, g
    <3>5. SumFunction(f) = amount + change /\ SumFunction(g) = amount
      BY <3>1, <3>4, SumOfFew
    <3>6. \A i \in DOMAIN out : out[i].owner \in { to, owner }
      BY <3>2, <3>3
    <3>7. QED BY <3>5, <3>6 DEF f, g
  <2>3. QED BY <2>1, <2>2
<1> HIDE DEF in, out
<1>8. \A i \in DOMAIN in : OutPointOf(in[i]) \in OutPoint
  BY <1>6
<1>9. Rules(tx)!TotalInput(NewTx) = worth
  <2> DEFINE f == [ i \in DOMAIN s |-> OutputAt(s[i]).amount ]
             g == [ i \in DOMAIN in |-> OutputAt(OutPointOf(in[i])).amount ]
  <2>1. f = g
    <3>1. DOMAIN s = 1 .. k /\ DOMAIN in = 1 .. k
      BY <1>1, <1>6
    <3>2. QED BY <1>6, <3>1
  <2>2. Rules(tx)!TotalInput(NewTx) = SumFunction(g) % U64
    BY <1>5, <1>8, NewRules
  <2>3. worth % U64 = worth
    BY <1>2
  <2>4. QED BY <1>2, <2>1, <2>2, <2>3
<1>10. Rules(tx)!TotalOutput(NewTx) = amount + change
  <2>1. Rules(tx)!TotalOutput(NewTx) = SumFunction([ i \in DOMAIN out |-> out[i].amount ]) % U64
    BY <1>5, <1>8, NewRules
  <2>2. (amount + change) % U64 = amount + change
    <3> HIDE DEF change
    <3>1. QED BY <1>2, <1>4
  <2>3. QED BY <1>7, <2>1, <2>2
<1>11. Rules(tx)!Fee(NewTx) = fee /\ Rules(tx)!TotalInput(NewTx) >= Rules(tx)!TotalOutput(NewTx)
  <2> DEFINE paid == amount + change
  <2>1. worth >= paid /\ worth - paid = fee
    <3> HIDE DEF change
    <3>1. QED BY <1>2, <1>4
  <2>2. QED BY <1>9, <1>10, <2>1 DEF Rules!Fee
<1>12. \A i \in DOMAIN in : InputOk(in[i], utxos)
  BY <1>6 DEF InputOk
<1>13. Rules(tx)!ValidateTransaction(NewTx, utxos, {})
  <2>1. \A i, j \in DOMAIN in : OutPointOf(in[i]) = OutPointOf(in[j]) => i = j
    BY <1>1, <1>6
  <2>2. QED BY <1>5, <1>8, <1>11, <1>12, <2>1, NewRules
<1>14. Len(tx.inputs) = k
  BY <1>1, <1>5, <1>6 DEF in
<1>15. QED BY <1>5, <1>7, <1>11, <1>13, <1>14 DEF PaidTo, Delivers

-----------------------------------------------------------------------------
(* What a user can send *)

(* Finitely many txids make finitely many outputs.                          *)
LEMMA OutPointsFinite == IsFiniteSet(OutPoint)
<1> DEFINE families == { Created(t) : t \in Tx }
           f == [ t \in Tx |-> Created(t) ]
<1>1. IsFiniteSet(Tx)
  BY WalletAssumption
<1>2. f \in Surjection(Tx, families)
  BY DEF Surjection
<1>3. \A s \in families : IsFiniteSet(s)
  BY CreatedAmount
<1> HIDE DEF families, f
<1>4. IsFiniteSet(families)
  BY <1>1, <1>2, FS_Surjection
<1>5. IsFiniteSet(UNION families)
  BY <1>3, <1>4, FS_UNION
<1>6. QED BY <1>5 DEF OutPoint, families

(* The builder fails on the coins of an owner only when all of them are not *)
(* worth what is needed.                                                    *)
LEMMA EnoughIs ==
    ASSUME NEW coins \in SUBSET OutPoint, IsFiniteSet(coins), NEW order \in LargestFirst(coins),
           NEW n, n = Cardinality(coins), TotalAmount(coins) < U64, NEW need \in Nat
    PROVE  \E k \in 0 .. n :
               /\ Selected(order, need) = First(order, k)
               /\ \A j \in 1 .. k - 1 : TotalAmount(Taken(order, j)) < need
               /\ Worth(Selected(order, need)) = TotalAmount(Taken(order, k))
               /\ Worth(Selected(order, need)) >= need <=> TotalAmount(coins) >= need
<1>1. PICK k \in 0 .. n :
          /\ Selected(order, need) = First(order, k)
          /\ \A j \in 1 .. k - 1 : TotalAmount(Taken(order, j)) < need
          /\ TotalAmount(Taken(order, k)) >= need \/ k = n
          /\ Worth(Selected(order, need)) = TotalAmount(Taken(order, k))
          /\ TotalAmount(Taken(order, k)) \in Nat
  BY SelectionIs
<1>2. Taken(order, n) = coins /\ TotalAmount(Taken(order, k)) <= TotalAmount(coins)
  <2>1. IsWorth(coins, order, k, n)
    BY FirstWorth
  <2>2. QED BY <2>1 DEF IsWorth
<1>3. TotalAmount(coins) \in Nat
  BY TotalTakes
<1>4. TotalAmount(Taken(order, k)) >= need <=> TotalAmount(coins) >= need
  <2> DEFINE part == TotalAmount(Taken(order, k))
             whole == TotalAmount(coins)
  <2>1. part \in Nat /\ whole \in Nat /\ part <= whole /\ (part >= need \/ part = whole)
    BY <1>1, <1>2, <1>3
  <2> HIDE DEF part, whole
  <2>2. part >= need <=> whole >= need
    BY <2>1
  <2>3. QED BY <2>2 DEF part, whole
<1>5. QED BY <1>1, <1>2, <1>4

(* No smaller set of coins is worth as much as the coins the builder takes. *)
LEMMA FewestCoins ==
    ASSUME NEW coins \in SUBSET OutPoint, IsFiniteSet(coins), NEW order \in LargestFirst(coins),
           NEW n, n = Cardinality(coins), NEW k \in 0 .. n, NEW need \in Nat, need > 0,
           \A j \in 1 .. k - 1 : TotalAmount(Taken(order, j)) < need,
           NEW s \in SUBSET coins, TotalAmount(s) >= need
    PROVE  Cardinality(s) >= k
<1> DEFINE c == Cardinality(s)
           t == TotalAmount(Taken(order, c))
<1>1. c \in 0 .. n /\ TotalAmount(s) <= t
  BY FirstAreLargest
<1>2. n \in Nat
  BY Orders
<1>3. Taken(order, c) \subseteq coins
  <2>1. order \in [ 1 .. n -> coins ]
    BY Orders
  <2> HIDE DEF c
  <2>2. \A i \in 1 .. c : i \in 1 .. n
    BY <1>1, <1>2
  <2>3. QED BY <2>1, <2>2 DEF Taken
<1>4. TotalAmount(s) \in Nat /\ t \in Nat /\ TotalAmount({}) = 0
  BY <1>3, TotalTakes
<1>5. t >= need
  BY <1>1, <1>4
<1>6. c # 0
  <2> SUFFICES ASSUME c = 0 PROVE FALSE
    OBVIOUS
  <2>1. Taken(order, c) = {}
    BY DEF Taken
  <2>2. t = 0
    BY <1>4, <2>1
  <2>3. QED BY <1>5, <2>2
<1>7. ~ (c \in 1 .. k - 1)
  <2> SUFFICES ASSUME c \in 1 .. k - 1 PROVE FALSE
    OBVIOUS
  <2>1. t < need
    OBVIOUS
  <2> HIDE DEF t
  <2>2. QED BY <1>4, <1>5, <2>1
<1> HIDE DEF c, t
<1>8. c >= k
  BY <1>1, <1>2, <1>6, <1>7
<1>9. QED BY <1>8 DEF c

(* The coins of an owner are worth the balance, when a u64 holds the supply. *)
LEMMA CoinsOf ==
    ASSUME TypeOK, TotalAmount(utxo_set) < U64, NEW owner, NEW coins, coins = UtxosFor(owner)
    PROVE  /\ coins \in SUBSET OutPoint /\ IsFiniteSet(coins) /\ coins \subseteq utxo_set
           /\ \A o \in coins : OutputAt(o).owner = owner
           /\ TotalAmount(coins) \in Nat /\ TotalAmount(coins) < U64
           /\ Balance(owner) = TotalAmount(coins)
<1>1. coins \subseteq utxo_set /\ \A o \in coins : OutputAt(o).owner = owner
  BY DEF UtxosFor
<1>2. utxo_set \in SUBSET OutPoint /\ IsFiniteSet(utxo_set)
  <2>1. utxo_set \in SUBSET OutPoint
    BY DEF TypeOK
  <2>2. QED BY <2>1, OutPointsFinite, FS_Subset
<1>3. coins \in SUBSET OutPoint /\ IsFiniteSet(coins)
  BY <1>1, <1>2, FS_Subset
<1> DEFINE part == TotalAmount(coins)
           whole == TotalAmount(utxo_set)
<1>4. part \in Nat /\ whole \in Nat /\ part <= whole /\ whole < U64
  BY <1>1, <1>2, TotalTakes
<1>5. Balance(owner) = part % U64
  BY DEF Balance
<1>6. part < U64 /\ part % U64 = part
  <2>1. U64 \in Nat \ {0}
    BY LedgerAssumption
  <2> HIDE DEF part, whole
  <2>2. QED BY <1>4, <2>1
<1>7. QED BY <1>1, <1>3, <1>4, <1>5, <1>6

(* What the builder makes of the coins of an owner.                         *)
LEMMA BuildIsValid ==
    ASSUME TypeOK, TotalAmount(utxo_set) < U64, NEW owner, NEW to,
           NEW amount \in 0 .. MaxSend, NEW fee \in 0 .. MaxSend, NEW need, need = amount + fee,
           NEW built, built = BuildTransaction(owner, UtxosFor(owner), to, amount, fee)
    PROVE  /\ built # {} <=> to \in Addresses /\ Balance(owner) >= need
           /\ \A tx \in built :
                 /\ Acceptable(tx, fee)
                 /\ to # owner => PaidTo(to, tx) = amount
                 /\ \A i \in DOMAIN tx.outputs : tx.outputs[i].owner \in { to, owner }
                 /\ Thrifty(owner, tx, need)
<1> DEFINE coins == UtxosFor(owner)
           n == Cardinality(coins)
           enough == { order \in LargestFirst(coins) : Worth(Selected(order, need)) >= need }
<1>1. /\ coins \in SUBSET OutPoint /\ IsFiniteSet(coins) /\ coins \subseteq utxo_set
      /\ \A o \in coins : OutputAt(o).owner = owner
      /\ TotalAmount(coins) \in Nat /\ TotalAmount(coins) < U64
      /\ Balance(owner) = TotalAmount(coins)
  BY CoinsOf
<1>2. /\ amount \in Nat /\ fee \in Nat /\ need \in Nat /\ need < U64 /\ U64 \in Nat \ {0}
      /\ AddU64(amount, fee) = need
  <2>1. /\ MaxSend \in Nat /\ 2 * MaxSend < U64 /\ U64 \in Nat \ {0}
    BY WalletAssumption, LedgerAssumption
  <2>2. amount \in Nat /\ fee \in Nat /\ need \in Nat /\ need < U64
    BY <2>1
  <2>3. need % U64 = need
    BY <2>1, <2>2
  <2>4. QED BY <2>1, <2>2, <2>3 DEF AddU64
<1>3. built = IF to \in Addresses
              THEN { Payment(owner, to, amount, fee, Selected(order, need)) : order \in enough }
              ELSE {}
  BY <1>2 DEF BuildTransaction
<1> HIDE DEF coins
<1>4. ASSUME NEW order \in LargestFirst(coins)
      PROVE  \E k \in 0 .. n :
                 /\ Selected(order, need) = First(order, k)
                 /\ \A j \in 1 .. k - 1 : TotalAmount(Taken(order, j)) < need
                 /\ Worth(Selected(order, need)) = TotalAmount(Taken(order, k))
                 /\ Worth(Selected(order, need)) >= need <=> TotalAmount(coins) >= need
  BY <1>1, <1>2, EnoughIs
<1>5. enough = IF TotalAmount(coins) >= need THEN LargestFirst(coins) ELSE {}
  BY <1>4
<1>6. LargestFirst(coins) # {}
  BY <1>1, OrderExists
<1>7. built # {} <=> to \in Addresses /\ Balance(owner) >= need
  BY <1>1, <1>3, <1>5, <1>6
<1>8. ASSUME NEW tx \in built
      PROVE  /\ Acceptable(tx, fee)
             /\ to # owner => PaidTo(to, tx) = amount
             /\ \A i \in DOMAIN tx.outputs : tx.outputs[i].owner \in { to, owner }
             /\ Thrifty(owner, tx, need)
  <2>1. PICK order \in enough : tx = Payment(owner, to, amount, fee, Selected(order, need))
    BY <1>3
  <2>2. order \in LargestFirst(coins) /\ Worth(Selected(order, need)) >= need
    BY <2>1
  <2>3. PICK k \in 0 .. n :
            /\ Selected(order, need) = First(order, k)
            /\ \A j \in 1 .. k - 1 : TotalAmount(Taken(order, j)) < need
            /\ Worth(Selected(order, need)) = TotalAmount(Taken(order, k))
    BY <1>4, <2>2
  <2>4. TotalAmount(Taken(order, k)) >= need /\ tx = Payment(owner, to, amount, fee, First(order, k))
    BY <2>1, <2>2, <2>3
  <2> HIDE DEF n, enough
  <2>5. Delivers(tx, owner, to, amount, fee, k, utxo_set)
    <3>1. Covers(owner, coins, order, k, need, utxo_set)
      BY <1>1, <2>2, <2>3, <2>4 DEF Covers, n
    <3>2. tx = Payment(owner, to, amount, fee, First(order, k))
      BY <2>4
    <3>3. QED BY <1>2, <3>1, <3>2, PaymentAccepted
  <2>6. ASSUME NEW s \in SUBSET coins, need > 0, TotalAmount(s) >= need
        PROVE  Cardinality(s) >= k
    <3>1. n = Cardinality(coins)
      BY DEF n
    <3>2. QED BY <1>1, <1>2, <2>2, <2>3, <2>6, <3>1, FewestCoins
  <2>7. Thrifty(owner, tx, need)
    BY <2>5, <2>6 DEF Thrifty, Delivers, coins
  <2>8. QED BY <2>5, <2>7 DEF Acceptable, Delivers
<1>9. QED BY <1>7, <1>8

(* run_send, from the phrase to the transaction.                            *)
LEMMA SendsAreRight ==
    ASSUME TypeOK, TotalAmount(utxo_set) < U64
    PROVE  SendIsValid
<1> SUFFICES ASSUME NEW text \in Text, NEW to \in Recipient,
                    NEW amount \in 0 .. MaxSend, NEW fee \in 0 .. MaxSend,
                    NEW owner, owner = KeyOf[text],
                    NEW built, built = Send(text, to, amount, fee)
             PROVE  /\ built # {} <=> /\ text.words \in Phrases
                                      /\ to \in Addresses
                                      /\ Balance(owner) >= amount + fee
                    /\ \A tx \in built :
                          /\ Acceptable(tx, fee)
                          /\ to # owner => PaidTo(to, tx) = amount
                          /\ \A i \in DOMAIN tx.outputs : tx.outputs[i].owner \in { to, owner }
                          /\ Thrifty(owner, tx, amount + fee)
  BY DEF SendIsValid
<1> DEFINE words == text.words
           need == amount + fee
           made == BuildTransaction(owner, UtxosFor(owner), to, amount, fee)
<1>1. ValidateMnemonic(words) <=> words \in Phrases
  <2>1. words \in Seq(Range(words))
    BY WalletAssumption
  <2> HIDE DEF words
  <2>2. QED BY <2>1, PhrasesAreValid
<1>2. built = IF ValidateMnemonic(words) THEN made ELSE {}
  BY DEF Send, FromMnemonic
<1>3. /\ made # {} <=> to \in Addresses /\ Balance(owner) >= need
      /\ \A tx \in made :
            /\ Acceptable(tx, fee)
            /\ to # owner => PaidTo(to, tx) = amount
            /\ \A i \in DOMAIN tx.outputs : tx.outputs[i].owner \in { to, owner }
            /\ Thrifty(owner, tx, need)
  <2>1. need = amount + fee /\ made = BuildTransaction(owner, UtxosFor(owner), to, amount, fee)
    OBVIOUS
  <2> HIDE DEF need, made
  <2>2. QED BY <2>1, BuildIsValid
<1> HIDE DEF made
<1>4. QED BY <1>1, <1>2, <1>3

(* `send', build_transaction (builder.rs:33-113) and the phrases             *)
(* (mnemonic.rs) agree with the rules of a node, whatever the faults and    *)
(* whichever of the largest-first orders the sort leaves: every payment     *)
(* that can be made is made, is accepted for its fee and spends as few      *)
(* coins as any.  Sums of coins are u64 sums and wrap, so this is for UTXO  *)
(* sets whose whole worth a u64 can hold.  An outpoint stands for the last  *)
(* output of its index (OutputAt of Ledger): of a transaction with more     *)
(* outputs than there are indices a crash between two puts of one index may *)
(* leave the earlier output in the tree, which this does not cover.         *)
THEOREM SendsAreValid == Spec => [](TotalAmount(utxo_set) < U64 => SendIsValid)
<1>1. TypeOK => (TotalAmount(utxo_set) < U64 => SendIsValid)
  BY SendsAreRight
<1>2. QED BY <1>1, TypeCorrect, PTL

(* With no fault, and no transaction on the chain whose outputs wrap, the   *)
(* schedule of rewards keeps the UTXO set that small: block_reward pays no  *)
(* more than 2 * 210_000 * 5000 in all.                                     *)
THEOREM FaultlessSends ==
    ASSUME \A n \in Nat : RewardsOf(n) < U64
    PROVE  Spec => [](crashes + failures = 0 /\ OutputsFit(tracked) => SendIsValid)
<1>1. ASSUME TypeOK, SupplyWithinRewards PROVE SendIsValid
  <2> SUFFICES ASSUME pc = "idle" PROVE SendIsValid
    BY DEF SendIsValid
  <2> DEFINE paid == SumFunction([ h \in 0 .. height |-> BlockReward(h) ])
             whole == TotalAmount(utxo_set)
  <2>1. whole \in Nat
    <3>1. utxo_set \in SUBSET OutPoint
      BY <1>1 DEF TypeOK
    <3>2. QED BY <3>1, OutPointsFinite, FS_Subset, TotalTakes
  <2>2. height + 1 \in Nat /\ paid = RewardsOf(height + 1)
    <3>1. height \in Nat
      BY <1>1, ChainAssumption DEF TypeOK, Heights
    <3>2. QED BY <3>1, RewardsStep
  <2>3. whole <= paid
    BY <1>1 DEF SupplyWithinRewards
  <2>4. RewardsOf(height + 1) \in Nat /\ U64 \in Nat
    BY <2>2, RewardsStep, LedgerAssumption
  <2>5. RewardsOf(height + 1) < U64
    BY <2>2
  <2> HIDE DEF paid, whole
  <2>6. whole < U64
    BY <2>1, <2>2, <2>3, <2>4, <2>5
  <2>7. QED BY <1>1, <2>6, SendsAreRight DEF whole
<1>2. (TypeOK /\ (crashes + failures = 0 /\ OutputsFit(tracked) => SupplyWithinRewards))
        => (crashes + failures = 0 /\ OutputsFit(tracked) => SendIsValid)
  BY <1>1
<1>3. QED BY <1>2, TypeCorrect, SupplyNeverExceedsRewards, PTL
=============================================================================
