# MicroChain: a TLA+ verification project

MicroChain is a small UTXO blockchain node in Rust: proof of work with a
per-block difficulty rule, a mempool, a sled database, a TCP peer protocol and a
terminal interface. This directory holds TLA+ models of it, the TLC
configurations that check them, and TLAPS proofs about the storage layer, crash
recovery, the ledger it implements, money, the mempool, synchronisation and the
peer table. Paths below are relative to `src/src/` unless they name a document.

## 1. The system

| component | source | state | operations |
|---|---|---|---|
| ledger rules | `types/transaction.rs`, `consensus/validation.rs`, `pow.rs:95-100` | none | `validate_block`, `validate_transaction`, `calculate_fees`, `block_reward` |
| blocks | `types/block.rs` | none | header hash, Merkle check |
| chain state | `chain/blockchain.rs` | `utxo_set`, `tip`, `height`, `timestamps`, `difficulty_scores` | `new`, `init_genesis`, `add_block`, reads |
| storage | `storage/db.rs` | sled trees `blocks`, `utxos`, `meta` (tip, height, `h:<n>`) | one `put`/`remove` per write, `flush` (called by nobody) |
| difficulty | `consensus/pow.rs` | none (works on the two slices of the chain state) | `compact_to_target`, `target_to_compact`, `compact_to_difficulty_score`, `difficulty_score_to_compact`, `lwma_next_difficulty`, `check_pow`, `mine` |
| mempool | `chain/mempool.rs` | `txs`, a HashMap by txid | `add`, `remove_confirmed`, `get_mineable` |
| node | `cli/commands.rs` `run_node`, `run_tui` | the mining switch | the mining loop, the wiring of everything below |
| synchronisation | `network/sync_manager.rs`, `protocol.rs`, `peer.rs`, `server.rs` | per connection: where the handler is, the stream | Version, VerAck, GetBlocks, Blocks, NewTx, Ping, Pong |
| peer table, discovery | `network/sync_manager.rs`, `server.rs` | `peers`, the discovery channel | enter, leave, GetPeers, Peers, dialling |
| connection | `network/peer.rs`, `protocol.rs` | the stream; what is written and read of the current frame | `send`, `receive`, `to_bytes`, `from_bytes` |
| wallet, builder | `wallet/*.rs` | key, mnemonic | `create`, `from_mnemonic`, `build_transaction` over a copy of the UTXO set |
| mnemonics | `crypto/mnemonic.rs` | none | `entropy_to_mnemonic`, `validate_mnemonic`, `mnemonic_to_seed` |
| Merkle tree | `crypto/hash.rs` | none | `merkle_root` |
| keys, addresses | `crypto/keys.rs`, `address.rs` | none | sign, verify, encode, decode |
| terminal interface | `tui/*.rs` | copies for display, logs, tab | refresh, keys, drawing |
| one-shot commands | `cli/commands.rs` | none | `mine`, `wallet`, `send`, `info` |

**How they interact.** One `RwLock<Blockchain>` and one `RwLock<Mempool>` are
shared by the task of the terminal interface, which also mines, and by one task
per TCP connection. The mining loop holds the chain's write lock from the
template to the clean-up of the pool; a block of a peer takes the write lock per
block; a transaction of a peer holds the read lock while it changes the pool.
Whoever takes both takes the chain first, so the two locks cannot deadlock.
Each write of `add_block` to sled is an operation of its own. The peer table
has a third lock, taken by itself, and kept while the answer to GetPeers is
sent. The interface's loop waits for it on every turn. A handler is one task that
reads or writes, never both, and TCP takes only so many bytes that nobody reads.
Connections talk over TCP: in order and complete until the connection breaks. Nothing is relayed: `broadcast_block`
and `broadcast_tx` emit local events and have no callers.

**What is hard.**

- *Crashes between writes.* `add_block` makes four writes for a block and one
  for every output, without a transaction and without `flush`; `Blockchain::new`
  trusts what it finds.
- *Errors half way.* The memory takes the block in before the first write that
  may fail. `remove_utxo`'s result is dropped. Every error of `get_tip` means
  "empty database".
- *Shared pool.* The pool is validated against a UTXO set that blocks of peers
  change under it, and the miner takes the whole pool or nothing.
- *Two ends, one handler.* Height and tip of one decision are read under
  separate locks while other connections and the miner move the chain.
- *Who waits for whom.* A handler that sends does not read, and one of its
  sends happens under a lock that the node's other tasks need. A frame may be cut
  anywhere, and a frame above the size limit ends the connection.
- *Bodies and headers.* A block is known by its header; the Merkle root is all
  that ties a body to it, and it pairs an odd hash with itself.
- *Counting connections.* The limit is read before, and the table written
  after, a connection is made.
- *Numbers.* u64 sums, an inclusive range one too long, a score that is linear
  in the mantissa and exponential in the exponent, unchecked timestamps.

**What makes each component correct.** Ledger: nothing is spent twice, fees are
moved and not minted, only valid bodies are accepted. Chain and storage: memory
is what a restart would load; the index is a replay of the chain; after any
crash every stored name leads to a stored block and the chain is a prefix of the
old one. Mempool and node: no conflicts in the pool, nothing lost, a fresh pool
is mined. Synchronisation: answers connect to the asker's chain, a gap closes.
Connection: each direction delivers messages whole, once and in order, all of
them while the connection lasts, and nobody waits for ever for the lock. Merkle
tree: one acceptable body per header. Wallet: what `send` builds is what the user
asked for and what a node accepts. Peers: the table is the live connections, what
left it can be reached again, a bounded number. Difficulty: scores and headers agree, steady chains
stay steady, one block changes little.

## 2. The modules

| module | models | how |
|---|---|---|
| `Ledger` | transactions and validation | operators; a transaction is its txid, with constant tables of inputs and outputs, because the txid is a hash of the contents; an output goes by `i as u16`, its position modulo `U16`, and a later one of the same index overwrites; a sum is taken whole and then modulo `U64`, which is what wrapping at each addition comes to |
| `Merkle` | `merkle_root` | a hash is the term it was computed from, so equal roots are roots of the same tree |
| `Blocks` | blocks | a block has a parent, a body, the Merkle root of its header and a Boolean for proof of work; `Ancestry` (by recursion over the parents) and `Replay` (in closed form: what some block of a chain leaves and every later one leaves too) are reference definitions |
| `LedgerSpec` | what the chain promises | one variable, `ledger`: the sequence of blocks, grown by a valid block at a time; the rules are parameters, which `Chain` gives those of `Blocks` |
| `Chain` | `blockchain.rs` over `db.rs` | one action per write, `recoverable` = the disks a crash may leave, storage errors, crash, quit, load |
| `SumTheorems`, `LedgerProofs`, `ChainProofs`, `NodeProofs`, `SyncProofs`, `PeersProofs`, `ConnectionProofs`, `DifficultyProofs` | lemmas about sums and about `Ledger`, theorems about `Chain` (order of the writes; recovery and the ledger; what a header fixes; phrases and payments), `Node`, `Sync`, `Peers`, `Connection` and `Difficulty` | TLAPS |
| `Node` | pool, miner, intake of blocks and transactions | one action per critical section, over the chain `Chain` implements |
| `Sync` | the block exchange between nodes | one action per lock or message step of both handlers of every connection |
| `Peers` | peer table, discovery | one action per step of a connection task |
| `Difficulty` | compact targets, scores, LWMA | operators over `Base` and `Bytes` in place of 256 and 32; a chain of headers drives them |
| `Mnemonic` | phrases | operators over word lists of any size: entropy, checksum, words |
| `Wallet` | wallet, builder, `send` | functions of a state of `Chain`: which owner a phrase gives, which coins are selected, what is built |
| `Channel` | what a connection promises | two sequences, sent and received |
| `Connection` | `peer.rs`, `protocol.rs`, `handle_peer` at both ends | bytes, socket buffers, the lock of the peer table; one action per read, write, lock or message step |
| `MCChain`, `MCNode`, `MCSync`, `MCPeers`, `MCDifficulty` | instances for TLC; `MCChain`, `MCSync` and `MCPeers` have several, and the `.cfg` chooses | |

`Node` builds on `Ledger`; `Chain` on `Blocks` and so on `Ledger`, and it
instantiates `LedgerSpec` with a refinement mapping. `Wallet` extends `Chain` and
`Mnemonic`, and instantiates `Ledger` once more with the built transaction among
the others. `Connection` instantiates `Channel` once for each direction. It takes
the shape of the conversation from the same handler `Sync` and `Peers` model, and
leaves the contents to them: heights stand for chains, a list of addresses is one
small message. `Sync`, `Peers` and `Difficulty` stand alone. They do so because the code couples them by little:
`Sync` needs of a block only its ancestry, `Peers` needs no chain at all, and
`Difficulty` needs only headers, whose difficulty and timestamp `add_block` does
not compare with the chain.

**Chain.** `utxo_set`, `tip`, `height` are the fields of `Blockchain`; `tracked`
is both `timestamps` and `difficulty_scores`, always pushed together, as the
block each entry came from. `TakeIn` is what `add_block` and `init_genesis` do
before the first write; then `PutBlock`, `SetBlockAtHeight`, `SetTip`,
`SetHeight`, one `RemoveUtxo` or `PutUtxo` per output in the code's order, and
`Finish`, which sets tip and height in memory. `disk` is what the process reads
back. sled writes its log in order in the background, so a crash leaves the
state after some prefix of the writes, no shorter than what was known to be on
disk: `recoverable` collects these states and `Crash` picks one. `Quit` is a
clean exit; dropping the database flushes. `AddBlockFails`, `InitGenesisFails`,
`RemoveUtxoLost`, `GetTipFails` and `HasBlockFails` are storage errors where the
code returns, drops or misreads them: a failed read of the tip is an empty database,
a failed look for a block is a block not stored, and `add_block` then takes in
again what an earlier call has stored. A read that fails and ends the start, or
a query whose error is only returned, changes nothing. `LoadFails` is a start that ends with an error: a step
that changes nothing, and after which the same start may be tried again.

**Node.** `chain` is the sequence of bodies. `Mine` is an iteration of the
mining loop that finds a nonce and whose block is accepted; the other iterations
change nothing. The pool is a HashMap, so a template may have its transactions
in any order. Genesis and the node's own coinbases pay what `init_genesis` and
the mining loop put into them; a peer's coinbase may claim anything. A block of a peer may contain pool transactions, conflicts with
them, or neither. `NewTx` is a message that the node handles and that nothing in
this repository sends.

**Sync.** A block is the path of its ancestors, so "the parent is our tip" and
"is on our chain" are prefix tests. `inbox` is the TCP stream in one direction:
in order, without loss or duplication while the connection stands. `up` holds the
handlers whose connection does. `Cut` breaks a connection and touches
nothing else: a handler learns of it only when it sends or receives (`End`), and
until then it compares, goes on importing what it has of an answer, or reads what had
arrived; what it sends is lost (`Arriving`). A node that restarts
loses its handlers at once, the peer's live on. It dials anew, so a pair of
nodes can have a handler of an old connection beside those of a new one;
connections of a pair are numbered for that, and a handler is named by its node, its
peer and the number. `Compare` and `Ask` are two steps because
the code takes the chain lock twice; a batch is imported a block at a time
because each takes the write lock anew. GetPeers and Peers are in `Peers`;
Ping and Pong change no state and no code sends a Ping.

**Peers.** A task goes dial, enter, greet, loop, leave. `leaked` and `doubled`
are history variables that no action reads but `GreetFails`, for its bound.
An accepted connection carries the other side's ephemeral port. The filter of
`NewAddresses` knows one address of the node itself, the loopback one. The listener
is bound to 0.0.0.0, so the addresses of its network cards are among `Listening`
like those of other nodes, and a node may dial itself there; `Configured` may
contain any listening address, as the command line does not filter.

**Connection.** `stream` holds the bytes between a write of one end and a read of
the other, at most `Capacity`: the kernel's buffers on both sides. `out` is what
`write_all` still has to hand over and `got` what `read_exact` has collected;
`Read` returns any number of bytes that are there, and a handler with something
in `out` does not read. A byte knows its value, which is what a length is
computed from, and its message, which stands for bincode: a payload decodes when
it is all of one message's bytes. `waiters` is the queue of tokio's `RwLock`,
which is first come, first served for readers too, and `guard` says that the
handler holds its read guard across a send, as the `GetPeers` arm does. Other
users of the lock hold it without waiting for anything, so each is one step at
the head of the queue. When the connection ends, by `Cut` or because one end
returns, any beginning of what was under way may still be read, and writes may
succeed although nobody will read them.

**Wallet.** `Text` is what a user types: words and the white space between them.
`validate_mnemonic` sees the words and the key is derived from the text, so
`KeyOf` is a table over texts. Of a builder's coins only the order counts, which
is any that sorts the amounts; the sums wrap as u64 sums do.

**Merkle.** `merkle_root` is a recursive function over levels. `RootFixesBody` of
`Chain` asks what follows for blocks: bodies that repeat their last
transactions have the same root, and the validation of the body has to refuse them.

**Difficulty.** Comparing hash and target byte by byte is comparing numbers, so
a target is a number. `MineBlock` is a block at the difficulty the rule gives,
`PeerBlock` one at any difficulty, `Restart` the recomputation of the scores
from the stored headers. A target of zero is refused, as no hash meets it.

## 3. What the runs check

Bounds are constants of the modules (`MaxHeight`, `MaxCrashes`, `MaxFailures`,
`MaxBreaks`, `Fragile`, `MaxQueue`, `MaxLost`, `Count`, the sets of tasks, blocks and
transactions); each is named in its module.

### Runs that pass

- **`chain_clean`** (`MCChain.cfg`). Twenty-three blocks: a chain of five, a rival
  branch, a branch on which a worthless output is spent, made again by the same
  transaction and spent again, blocks that spend fees, change and several outputs, one whose transaction has more outputs than there are indices (`U16` is 2), and blocks that
  must be refused for each reason the code has (no proof, wrong Merkle root,
  double spend within a block and across blocks, spending within the block,
  missing signature, outputs above inputs, coinbase too large, two coinbases, no
  coinbase, empty). No faults. `MemoryMatchesDisk`, `UtxoIsReplay`,
  `SupplyWithinRewards`, `SpentOncePerCreation` (between two spends of an output
  a block makes it again), and `ImplementsLedger`: across quits and restarts the
  chain implements `LedgerSpec`. The reward halves
  within the bound, so an off-by-one in the height shows. `RootFixesBody`: of all
  bodies up to twice as long that fit the header of the next block, the accepted
  one has the same transactions with inputs at the same places; copies of one
  without inputs the rules allow in any number (block `b3f` has one). `SendIsValid`: in every state of
  the chain, for every text of two words, and for one of four words whole, cut
  short or with a word replaced, for every recipient, amount and fee within the
  bound, `send` succeeds exactly when phrase, address and balance allow it, and
  then the node's rules accept what it built, for that fee, with that payment,
  the change to the sender, and no coin more than necessary. The states are of a
  chain without faults, so coins of several sizes and spent coins occur.
- **`chain_faults`** (`MCChainFaults.cfg`, 129,824 states). Two crashes and two storage errors:
  at any write, at the read of the tip and at the look for a block (other failed
  reads change nothing), on a universe with forks at two heights and the block that a miner
  with a stale height would mine. `NamesNeverDangle`: what the order of the writes guarantees. `OnlyGenesisUnloadable`: only an
  interrupted first start leaves a database that cannot be opened.
  `CrashKeepsPrefix`: a restart never jumps to another branch. And how far
  things drift: `HeightLag` (one per crash), `StrandedBlocks` (one per crash),
  `TornByOneBlock` (one block), `LwmaDataExcess` (one per storage error, and a
  block whose `add_block` failed may come in again when `has_block` fails next). Two
  of each fault let one hit the repair of the other; a third adds nothing new
  because every call ends or restarts from the same few disks.
- **`node`** (`MCNode.cfg`, 18,516 states). Conflicting transactions, one that depends on
  another, one with more outputs than there are indices, one without inputs, one that spends a worthless output of that,
  empty blocks and blocks of peers with and without
  pool transactions, a peer's block that repeats the coinbase of genesis, mining
  switched on and off. `PoolIsDisjoint`,
  `StaleOnlyBySpend`, `FreshPoolMines`, `Conservation`, `ConfirmedOnce`,
  `PoolLossless`, and under fairness `PoolIsMined`.
  `Conservation` says that money is never made, and that it is lost in two ways only: a
  coinbase that comes again overwrites its own unspent output, and so does the later of
  two outputs with one index. `ConfirmedOnce` is about transactions that
  move money: the code takes one without inputs, and what spends its worthless
  outputs, any number of times; one that moves money is confirmed again only
  after a coinbase was repeated, and the run has such a case. The premise of the theorems, `SumsFit`, is
  checked of this instance.
- **`sync`** (`MCSync.cfg`, 180,466 states). `a` and `b` dial `c` and hold parts of one chain,
  and `b` mines, onto that chain or beside it. `Count`
  is 1, so an answer holds two blocks and the boundary is met: `c` starts two blocks
  behind `a`. `a` is `Fragile`: it restarts, or its connection breaks, once, at any
  moment. Both of what makes the import hard happen: `c` imports answers of `a` and `b` at once,
  and it goes on importing an answer of `a` after the connection broke while a
  handler of `a`'s next connection imports another. `OneSideFetches`; `AnswersFollow`: of an
  answer on its way and of what is left of one that is being imported; and under
  fairness `SyncsWithinBatch`. A second break, or one more fragile node, multiplies the states by six
  and more and takes the check of liveness out of reach; the first two properties, which
  are the ones about breaks, are proved for any number.
- **`peers`** (`MCPeers.cfg`, 1.9 million states). Three connections at once over three listening
  addresses, the loopback one among them and among the configured, and one ephemeral port, with messages of up to two addresses.
  `TableExplained`; `LostForGood`: the address a broken greeting leaves in the table
  is never dialled again and never leaves it, since it counts as known. Tasks are interchangeable, so the run uses
  symmetry.
- **`difficulty`** (`MCDifficulty.cfg`). Base 4 and six digits, a window of three
  and chains of five headers: short chains, a window that slides, solve times
  negative, fast, on time, slow and beyond the clamp, difficulties of peers below
  the floor, denormal and hard. `ScoresOfHeaders`, `SteadyOnTime`,
  `PushesTheRightWay`, `ScoreStepBounded`. The last three are stated where twice
  the average score still has a compact: beyond that `difficulty_score_to_compact`
  wraps the mantissa. No real chain gets there, as it would need hashes below
  256^16.
- **`connection`** (`MCConnection.cfg`). Two ends, a length of one byte of six
  values, small messages of one byte of payload and answers of four and five,
  where four is the limit: an answer exactly at the limit, one above it, and one
  that does not fit the buffers at once all occur. `Capacity` is 10, one of each
  small message, so buffers fill up; one end's table has two more users, a reader
  and a writer, so that a reader may wait behind a writer that waits for the
  handler's guard; of a cut connection three bytes may still arrive at one end, a
  frame and a half. `LockHolderCanSend`: a handler that sends under the lock has room for all
  of it, because the peers are asked for once, before any blocks.
  `ImplementsChannels`: both directions implement `Channel`, through partial
  writes and reads and cuts. Under fairness, `LockWaitsEnd`: whoever waits for
  the lock gets it, and `EverythingDelivered`: two ends never wait for each
  other, and without a cut only an answer above the limit loses messages. All of
  that holds of the conversation this repository's nodes have; a peer that asks
  for something else at another time is not one of them.

Deadlock is checked in every run but the `Sync` ones: there all messages may
have been answered and nobody mines any more, which is a state the system may
rest in.

### Where the code and its documents disagree

Each is a run whose one property a document, comment or name states and TLC
refutes.

- `InputsCoverOutputs`: u64 sums wrap in the release profile and a transaction
  with outputs above its inputs is valid (`ARCHITECTURE.md:219`).
- `MiningGrowsChain`: a pool transaction made stale by a block of a peer stops
  mining for good (`cli/commands.rs:209`).
- `InitialSync`: nothing is asked for after the first answer, so a node more than
  501 blocks behind stays behind (`README.md:121`).
- `OutboundBounded`: discovery starts more connections than its maximum
  (`network/sync_manager.rs:32`).
- `ScoreFollowsTarget`: where the exponent changes, a higher score has an easier
  target (`consensus/pow.rs:150`).

Met while reading, and not stated as runs: a crash between `set_tip` and
`set_height` leaves the height one behind the tip (`HeightLag`), the miner then
builds the coinbase of the tip again, and validation, which looks at the amount only,
takes it, against `transaction.rs:48` ("make each coinbase unique") and
`ARCHITECTURE.md:117` ("unique txids across blocks"); a phrase with a double space is valid and gives another
wallet; the initial target needs two zero
bytes, so about 65,536 nonces and not "~256" (`pow.rs:126-131`); a change by a
factor of two of the *score* may be a factor of thousands of the target
(`README.md:101`); a mantissa of more than 0xFFFF at exponent 32 is easier than
`MIN_DIFFICULTY`, and a block of a peer may have it; `add_block` compares
neither difficulty nor timestamp with the chain; forks are never resolved; after
a crash an old UTXO tree is loaded as it is; and blocks and transactions are not
relayed (`README.md:121`).

## 4. Fairness

`Node!FairSpec` assumes `WF_vars(Mine)`. The loop of `run_tui` comes round every
250 ms and tries 100,000 nonces with the time of the second in the header, so
that it fails for ever has probability zero; weak fairness suffices because the
template, and so the chance to mine it, stays until something changes. There is
no fairness on transactions, blocks of peers or the mining switch.
`Sync!FairSpec` assumes weak fairness of each handler and of each dial: the
runtime polls a task that can move. There is none on mining, on broken
connections, on noticing them, or on restarts. `Connection!FairSpec` assumes weak fairness of each
handler and of the other users of the lock, together: the runtime polls a task
that can move, and whoever is at the head of the queue can. It assumes none of
the requests for the lock, of cuts or of growing chains.

## 5. What is proved

Each theorem holds for every value of the constants: every tree of blocks, set of
transactions, number of nodes, connections, tasks, addresses, crashes, storage
errors, and every bound. `Spec` is the specification of the module each theorem is
about.

| module | theorem | statement |
|---|---|---|
| `ChainProofs` | `TypeCorrect` | `Spec => []TypeOK` |
| | `NamesSafe` | `Spec => [](NamesNeverDangle /\ WritesInOrder)` |
| | `OpensOnceStarted` | `Spec => []OnlyGenesisUnloadable` |
| | `LwmaDataFollows` | `Spec => []LwmaDataExcess` |
| | `MemoryFollowsDisk` | `Spec => [](failures = 0 => MemoryMatchesDisk)` |
| | `HeightFollowsTip` | `Spec => []HeightLag` |
| | `FewBlocksStranded` | `Spec => []StrandedBlocks` |
| | `CrashLeavesPrefix` | `Spec => CrashKeepsPrefix` |
| | `CrashTearsOneBlock` | `Spec => []TornByOneBlock` |
| | `IndexIsReplay` | `Spec => [](crashes + failures = 0 => UtxoIsReplay)` |
| | `ChainIsALedger` | `Spec /\ [](crashes + failures = 0) => ImplementsLedger` |
| | `OutputsSpentOnce` | `Spec => [](crashes + failures = 0 => SpentOncePerCreation)` |
| | `SupplyNeverExceedsRewards` | `Spec => [](crashes + failures = 0 /\ OutputsFit(tracked) => SupplyWithinRewards)` |
| | `HeadersFixMoves` | `Spec => []RootFixesBody` |
| | `PhrasesAreValid` | `ValidateMnemonic(words) <=> words \in Phrases`, for every sequence of words |
| | `SendsAreValid` | `Spec => [](TotalAmount(utxo_set) < U64 => SendIsValid)` |
| | `FaultlessSends` | from rewards below `U64`: `Spec => [](crashes + failures = 0 /\ OutputsFit(tracked) => SendIsValid)` |
| `NodeProofs` | `NodeTypeCorrect` | `Spec => []TypeOK` |
| | `PoolNeverDoubleSpends` | `Spec => []PoolIsDisjoint` |
| | `PoolStaleOnlyBySpend` | `Spec => []StaleOnlyBySpend` |
| | `PoolNeverLoses` | `Spec => PoolLossless` |
| | `FreshPoolsMine` | from `SumsFit`: `Spec => []FreshPoolMines` |
| | `NothingConfirmedTwice` | from `SumsFit`: `Spec => []ConfirmedOnce` |
| | `MoneyIsConserved` | from `SumsFit`: `Spec => []Conservation` |
| `SyncProofs` | `SyncTypeCorrect` | `Spec => []TypeOK` |
| | `ChainsOnlyGrow` | `Spec => [][\A n \in Node : IsPrefix(tip[n], tip'[n])]_vars` |
| | `OneSideFetchesAlways` | `Spec => []OneSideFetches` |
| | `AnswersAlwaysFollow` | `Spec => []AnswersFollow` |
| `PeersProofs` | `PeersTypeCorrect` | `Spec => []TypeOK` |
| | `TableIsExplained` | `Spec => []TableExplained` |
| | `LeakedIsLost` | `Spec => LostForGood` |
| `ConnectionProofs` | `ConnectionTypeCorrect` | `Spec => []TypeOK` |
| | `ChannelsImplemented` | `Spec => ImplementsChannels` |
| | `LockHolderHasRoom` | `Spec => []LockHolderCanSend` |
| `DifficultyProofs` | `DifficultyTypeCorrect` | `Spec => []TypeOK` |
| | `ScoresFollowHeaders` | `Spec => []ScoresOfHeaders` |
| | `StepsAreBounded` | `Spec => []ScoreStepBounded` |
| | `RulePushesRight` | `Spec => []PushesTheRightWay` |
| | `SteadyChainsStay` | `Spec => []SteadyOnTime` |

**What they assume.** `LedgerAssumption`, `BlocksAssumption`,
`AncestryAssumption` (the links between blocks form no cycle),
`ChainAssumption`, `NodeAssumption` (genesis and the node's own coinbases pay
the scheduled reward, and the whole schedule is below 2^64; in the code it is
below 2 * 210,000 * 5,000), `SyncAssumption`, `PeersAssumption`,
`ConnectionAssumption` (lengths fit the prefix, and the buffers of a socket take
five small messages), `DifficultyAssumption` (a base of two digits at least,
targets of three digits at least, and headers whose four bytes are an exponent
and a mantissa), `MnemonicAssumption` (entropy and checksum fill whole words, and
a hash is at least as long as the checksum) and `WalletAssumption` (finitely many
txids, a txid for the new transaction that no other has, and an amount and a fee
that fit a u64 together), each of which TLC evaluates in the runs of its module, and
the models of disk and network above. Three premises are not assumptions on constants, because the code does
not enforce them:

- `SumsFit`, and `OutputsFit(tracked)` for the blocks of one chain: no
  transaction has outputs that add up to 2^64. `validate_transaction` does not
  see such a sum wrap; the run of `InputsCoverOutputs` shows what follows, and
  supply and conservation are lost with it. Nothing is assumed about fees or the
  inputs of a transaction: that these do not wrap is part of what is proved.
- `TotalAmount(utxo_set) < U64` in `SendsAreValid`: a wallet adds its coins up in
  a u64. `FaultlessSends` does without.
- No crash and no storage error so far, where a theorem says `crashes + failures
  = 0`: after one the UTXO tree is loaded as it is, and the runs with faults
  show how far it may be off.

`MCNode` evaluates `SumsFit` on its instance, so it is met there. That no coinbase
comes twice, and that no transaction has more outputs than indices, is not
assumed anywhere: `Conservation` and `ConfirmedOnce` say what follows if one does.

**The order of the writes** (`ChainProofs`). `NamesNeverDangle` is not
inductive: that `set_tip` names a stored block is true because `put_block` came
before. `WritesInOrder` records for every step what the earlier writes of the
call have done, and that every height below the new one is indexed; `DiskInv` is
both with `TypeOK`. A write adds one state to `recoverable`, so it is enough that
the new disk is sound (`WriteKeepsNames`); a step that does not write leaves
only states that were sound (`NoWriteKeepsNames`); the five kinds of write each
get a lemma. A crash may take the disk back any distance, and then nothing of
`WritesInOrder` is needed but that the process is down. `OpensOnceStarted` adds
`HeightStored`: a process that finished a start has a height on every disk that
may be recovered from its own writes, or genesis is the only tip.
`LwmaDataFollows` adds `ExcessInv`, which counts the entries of a call in
progress against the height it is about to reach.

**Memory and disk.** They differ during a call.
`MemoryInv` says for each step of it what is still to come: an outpoint will be in
the tree (`WillHold`) if it is there or will be put, and no removal of it comes
last, and the outpoints that will be there are those in memory. `IsNext` keeps
the code's order between a removal and an insertion of one outpoint, which is
what makes that hold. A first start takes the tree for empty, so `BlankInv` is
needed too: a disk without a tip has no outputs.

**What a crash costs.** `RecoveryInv` bounds every disk that may be recovered at
any moment: on the branch of the disk the process sees, with a height and a set of
stranded blocks at most one crash worse than the crashes so far account for, the
one more being the call in progress. A crash then spends exactly this one.

**The index and the ledger.** `ReplayInv` says that until the first fault the UTXO
set is the replay of the blocks taken in, that the tree lags by the call in
progress, and that every recoverable disk is torn by writes of one block at most.
`Replay` is in closed form, so that one block more is one application of
`apply_block_utxos`. With it every step maps to a step of `LedgerSpec` or a
stutter: `LedgerShown` is `tracked` while a process runs and the chain of the
disk otherwise, blocks appear in it when `TakeIn` takes them in, and what the
code checks against the index it checks against the history.
`OutputsSpentOnce` and `SupplyNeverExceedsRewards` are then proved of the ledger
instead of the disk. The first from `HistoryInv` (every block of the history
consumes what those before it left unspent), the second from `SupplyInv` (the
history has earned what it leaves: `Earned`).

**What a header fixes.** `RootFixesBody` needs no invariant: it is a fact about
`merkle_root` and `validate_block` together. `Turns` gives a run of `merkle_root` as the
levels it goes through. Two levels are `Alike` when they agree at every place
both have and one holds nothing the other does not. If the levels above are
alike then so are those below (`AlikeBelow`), since a pair fixes its two halves, and an
odd last one is a pair of copies; the two runs end alike, in one root, and take
the same number of turns, since a leaf is not a pair. So two bodies
of one root differ only by copies at the end (`RootsAlike`). In a body the rules
accept nothing that has inputs occurs twice (`NoMoveTwice`): a coinbase stands
first and nowhere else, and the inputs of any other are spent when it comes
again. This is where accepting a repeated transaction would break the property.

**Phrases and payments** (`ChainProofs`). `SendIsValid` is about one state, too,
and needs of the state only its types and that sums of coins do not wrap.
The phrases are positional numbers. `BitsOfNumber` and `NumberOfBits` take a word
to its bits and back, since what is left of a number after some shifts is the value of
the bits before; `Flattened` finds the bits of a word in the whole phrase, and
`GroupsOfBits` the group that is read back; `Sizes` says that the division by
`Ratio + 1` of `validate_mnemonic` finds the length of the checksum. So the
accepted phrases are those a wallet writes (`PhrasesAreValid`), and nothing is
assumed of the hash but its length.

The builder sorts and takes. `First` is what it has taken of an order; `OrderExists`
says that there is one to take from, and `SelectionIs` that it stops at the first
front that is worth enough, or at the end. Among all sets of so many coins
a front of the order is worth the most (`FirstAreLargest`): any other
set of one coin more has a coin that is not in the front, which is worth no more than the
next of the order. Hence a set that is worth enough has as many coins as the
builder took (`FewestCoins`), and the builder fails only when all coins together are not
enough (`EnoughIs`). `NewRules` evaluates the rules of a node with the built
transaction among the others, and `PaymentAccepted` adds up its two sides. The
premise about the UTXO set follows from `SupplyNeverExceedsRewards` as
long as there was no fault (`FaultlessSends`).

**Money** (`LedgerProofs`). `BlockKeepsSupply`: a valid block adds at most its
reward to what is unspent. Its transactions consume disjoint sets of unspent
outputs (`SpentBefore`), so what they consume together is a part of the whole,
and what each creates with its fee is at most what it consumes
(`ValidTransactionPays`). The fees are at most what was unspent
(`FeesWithinSupply`), so with the reward they stay within the schedule, and the
cap on the coinbase is not reached by wrapping. Sums are `SumFunctionOnSet` of the
community modules; `SumTheorems` has the facts about them, first that taking
out any element takes its value off (`SumTakes`), then sums over disjoint families, over
images, of sums, and comparisons. The induction is over the sets of counterexamples
(`SubsetInduction`), since a theorem with an operator parameter cannot be used.

**Mempool and mining** (`NodeProofs`). Types need two facts more: the chain has a
genesis block and the pool is finite, for otherwise a template, the pool in some
order, need not be a sequence (`TypeInv`). `StaleOnlyBySpend` is not inductive,
since it says nothing of a transaction whose input is gone. `PoolInv` keeps what
made it valid: the verdict needs no outputs but the transaction's own inputs
(`ValidOnItsInputs`), and those are unspent or spent on the chain. A block keeps
that because an output it removes is consumed by one of its transactions
(`OnlySpentLeave`, `AddBlockKeepsInputs`), and the verdict comes back with the
inputs because more outputs never hurt (`ValidInLargerSet`). A fresh pool is
mined by `FreshInv`, which puts these together with `PoolIsDisjoint`, and
`WorthInv`, by which reward and fees do not wrap.

`ConfirmedInv` is about the chain as a whole. As long as the coinbases of its blocks
differ, a confirmed output that holds money
is unspent until it is spent, and then for good (`UnspentUntilSpent`). What a block
takes in a second time finds its inputs unspent that were spent, so they hold
nothing, so neither does what it creates (`SecondTimeWorthless`): it cannot bring back
an output worth having. A coinbase, which consumes nothing, can, and validation
does not keep it from coming again. `ConfirmedOnce` therefore tells a transaction confirmed
after a repeated coinbase from one confirmed without, and needs no premise about
what peers offer. `Conservation` follows block by block (`AddBlockIssues`): what a transaction
consumes it creates again or leaves as its fee, and what is created is inserted. It is
inserted over something worth having only if a coinbase is repeated or two outputs of a
transaction have one index (`AddBlockInsertsAnew`); otherwise the equation holds, and
in those cases what is overwritten is lost, so that "at most" holds always.

**Synchronisation** (`SyncProofs`). `FetchInv` keeps for each end that a height
announced, read or compared with is at most the announcer's height, which only
grows: two ends that both fetch would each have been announced more than
they have. That needs `Standing`, which ties the two handlers of a connection
together while it stands: neither is closed. Once it is broken nothing arrives any
more, and a handler that goes on can only finish what it had. `FollowInv` keeps for every batch, on its way or half imported, that it
is a part of the sender's chain, and of one on its way that it begins on the asker's: the asker's chain may
have grown since it asked, which keeps the tip it asked from on it.

**Peer table** (`PeersProofs`). `TableInv` adds that connections which share an
address have been recorded as doubled. `LeakedIsLost` is inductive by itself, once every
way an address can come back is named in `OutOfReach`: a task that has it, a
configured dial still to be made, the discovery channel. What peers send does not open
one, because the table, where the address stays, is what the filter leaves out.

**Connection** (`ConnectionProofs`). The length prefix comes first:
`PrefixIsSize` says that the number `receive` computes from the first bytes of a
frame is the size `to_bytes` wrote, whatever base and number of digits, by
counting digits shifted in against digits shifted out. `TypeInv` adds that a
handler is in the queue of its lock exactly while it waits, so it is there once.

`FlowInv` is the invariant of the stream. `Delivery` says that what an end
received is a beginning of what was sent to it, and that the bytes it has read
of the current frame, followed by those on their way and those `write_all` still
holds, are the frames of the messages after that: all of them while the
connection is up, some beginning of them after (`Follows`). A partial read or
write moves a byte within that sequence and leaves it as it is
(`AcceptedFacts`, `ReadFacts`); a send extends it by a frame (`FollowsSent`); a
cut takes a beginning of it (`FollowsCut`). A complete frame at its front has the
length of the first message not received (`PrefixRead`) and is made of its bytes
alone (`FrameRead`), so what `receive` returns is the next one. Every step is then a
step of `Channel`, or none, in each direction. It rests on `NothingToWrite`:
where a handler is about to send, its last message has been handed over.

`RoomInv` is for the lock. `Load` bounds what is on its way in one direction by
the messages sent on it, as long as all were small; `Order` says that Version and
GetPeers are the first two messages of each end and never come again; `Progress`
relates where a handler stands to how much it has received and sent. With
`Delivery`, the second message an end receives, and no other, is GetPeers, so when it
answers it has sent Version, GetPeers, VerAck and perhaps GetBlocks, all small.
The answer is the fifth, and the buffers take five. That is where the property
would fail if peers were asked for later: after a Blocks answer `Load` says
nothing.

**Difficulty** (`DifficultyProofs`). The invariant is small, `DInv`: types,
which say that no header lacks an exponent or a mantissa, and the first line of
`ScoresOfHeaders`, that each score is its header's. It is inductive because the
rule never leaves the range it can write down: a compact made from any score
has an exponent of 1 to `Bytes` and a mantissa of at least one
(`CompactsOfRule`), and a header of a peer with neither has a target of zero, or
one that rounds to it, which no hash meets. All else follows in one state, by arithmetic over sums and
quotients of unknown size. A compact survives its score, since exponent and
mantissa are quotient and remainder by `Unit`; a target survives its compact,
since it has at most three digits that are not zero on the right end
of it. The weights of a window add up to `n * (n + 1) / 2` (`WeightSum`), so a window of
solve times of at least the block time has a weighted sum of at least that
multiple of it (and at most, of at most), and the quotient of the rule is on
the right side of the average; the clamp of the solve times and the one of the
score keep it there. On equality nothing is left over, so a steady chain keeps
its score exactly. Where the rule meets the edge of what a compact can
write, the mantissa of zero is the one that costs a score of one, which is why
`PushesTheRightWay` and `ScoreStepBounded` say "less one".

**What proving showed.** Two properties stated earlier held in the runs and were
false in general. That no output is spent twice is wrong for a worthless output: a transaction
without inputs, or one that spends only worthless outputs, may be confirmed again
and make its output again. `SpentOncePerCreation` says what is true, and
`chain_clean` has such a branch now. `TornByOneBlock` had to speak of the writes
of the block and not of its net effect, for the same reason. The closed form of
`Replay` and the two sums of a transaction, one before and one after it wraps,
came from the proofs too.

**Only model-checked.**

- Liveness: `PoolIsMined`, `SyncsWithinBatch`, `LockWaitsEnd`,
  `EverythingDelivered`. TLAPS does not reason about ENABLED, on which fairness
  rests.

Every other property of a passing run is stated by a theorem. Where one is about a
recursive function (levels of the tree, bits of a word, rewards, scores), the
induction is written out, over the set of counterexamples or of numbers reached,
as the library's induction theorems take an operator for their statement.

## 6. Assumptions and limits

- Hashes do not collide: txids and block hashes are names, sighash is the
  identity of the transaction, a signature is right or not.
- sled is durable by prefix and a single operation is atomic.
- TCP is in order and complete until it breaks.
- An outpoint stands for one output, the last of its index. In the moment between two
  puts of one index, for which a transaction needs more than 65,536 outputs, the disk
  holds an earlier one, and a crash may leave it there; what `SendIsValid` and the
  validation after such a crash say of that outpoint is then about the wrong
  amount. The other properties of behaviours with faults are about outpoints alone.
- A height is never at the edge of u32, and amounts are far from 2^64 except in
  the run about their sums.
- A handler of `Connection` meets a handler of the same program; its messages
  NewTx, Ping and Pong are left out, as no code sends the first two and only a
  Ping is answered with the third. Socket buffers hold at least one of each small
  message, a few hundred bytes each where kernels give tens of thousands; that a
  Peers message is small rests on the table being small.
- tokio's `RwLock` is fair, as its documentation says.
- A node has one process; sled's file lock sees to that.

Not modelled: the byte formats of keys, blocks and messages (bincode, sled keys);
the curve arithmetic of signatures and key derivation, and the bech32 encoding of
addresses, which are thin wrappers over libraries; drawing, tabs and logs, which
nothing else depends on; `info`, which only prints. PROJECT.json gives the reason
for each.

## 7. Plan

Done in this order: `Ledger`, `Blocks`, `LedgerSpec`, `Chain`, the proofs of the
order of the writes, `Node`, `Sync`, `Peers`, `Difficulty`, the proofs about the
pool, `Merkle`, `Mnemonic`, `Wallet`, `Channel`, `Connection`; then the proofs
about recovery, the refinement of `LedgerSpec`, synchronisation, the peer
table, money (supply, fees and conservation), the connection, the difficulty
rule, the Merkle tree, the phrases and the payments.
