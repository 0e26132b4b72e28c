------------------------------ MODULE MCChain -------------------------------
(* A small universe of transactions, blocks and phrases for Chain,         *)
(* LedgerSpec, Mnemonic and Wallet.                                        *)
EXTENDS Wallet

\* An input that spends output `index' of `from' with the key of `owner'.
In(from, index, owner, signed) ==
    [ from |-> from, index |-> index, owner |-> owner, signed |-> signed ]
Out(amount, owner) == [ amount |-> amount, owner |-> owner ]
CoinbaseIn == In("zero", CoinbaseIndex, "nobody", FALSE)

MCTx == { "cb0", "cb1", "cb2", "cb2b", "cb3", "cb4", "greedy",
          "pay", "rival", "split", "unsigned", "overspend", "onward", "gather", "wrap", "free",
          "echo" }

\* free is what the builder makes of an amount and a fee of 0 without a coin, wrap
\* of an amount of 1022 and a fee of 3 with a coin of 4.
\* split has one output more than there are indices (U16 = 2).
\* cb2b pays its miner the fee of `pay' on top of the reward; greedy one more.
MCInputs == [ t \in MCTx |->
    CASE t \in { "cb0", "cb1", "cb2", "cb2b", "cb3", "cb4", "greedy" } -> << CoinbaseIn >>
      [] t = "pay"       -> << In("cb1", 0, "alice", TRUE) >>
      [] t = "wrap"      -> << In("cb1", 0, "alice", TRUE) >>
      [] t = "rival"     -> << In("cb1", 0, "alice", TRUE) >>
      [] t = "split"     -> << In("cb1", 0, "alice", TRUE) >>
      [] t = "unsigned"  -> << In("cb1", 0, "alice", FALSE) >>
      [] t = "overspend" -> << In("cb1", 0, "alice", TRUE) >>
      [] t = "free"      -> << >>
      [] t = "echo"      -> << In("free", 0, "bob", TRUE) >>
      [] t = "onward"    -> << In("pay", 0, "bob", TRUE) >>
      [] t = "gather"    -> << In("pay", 1, "alice", TRUE), In("cb2", 0, "alice", TRUE) >> ]

MCOutputs == [ t \in MCTx |->
    CASE t = "cb0"  -> << Out(4, "nobody") >>
      [] t = "cb1"  -> << Out(4, "alice") >>
      [] t = "cb2"  -> << Out(2, "alice") >>
      [] t = "cb2b" -> << Out(3, "bob") >>
      [] t = "cb3"  -> << Out(2, "alice") >>
      [] t = "cb4"  -> << Out(1, "bob") >>
      [] t = "greedy" -> << Out(4, "alice") >>
      [] t = "pay"  -> << Out(2, "bob"), Out(1, "alice") >>
      [] t = "rival" -> << Out(4, "bob") >>
      [] t = "split" -> << Out(1, "bob"), Out(2, "bob"), Out(1, "alice") >>
      [] t = "wrap" -> << Out(1022, "bob"), Out(3, "alice") >>
      [] t \in { "free", "echo" } -> << Out(0, "bob") >>
      [] t = "unsigned" -> << Out(4, "bob") >>
      [] t = "overspend" -> << Out(9, "bob") >>
      [] t = "onward" -> << Out(2, "alice") >>
      [] t = "gather" -> << Out(3, "bob") >> ]

\* Blocks a chain without faults meets: the honest chain g-b1-b2-b3-b4, rivals of
\* its blocks, a branch b2f-b3e-b4e on which an output without value is spent,
\* made again and spent again, and blocks that must be refused.
CleanBody ==
    ( "g"   :> << "cb0" >> ) @@
    ( "b1"  :> << "cb1" >> ) @@
    ( "b2"  :> << "cb2", "pay" >> ) @@
    ( "b2b" :> << "cb2b", "pay" >> ) @@
    ( "b2r" :> << "cb2", "rival" >> ) @@
    ( "b2s" :> << "cb2", "split" >> ) @@
    ( "b3"  :> << "cb3", "gather", "onward" >> ) @@
    ( "b3r" :> << "cb3", "rival" >> ) @@
    ( "b3f" :> << "cb3", "onward", "free" >> ) @@
    ( "b4"  :> << "cb4" >> ) @@
    ( "b2f" :> << "cb2", "free" >> ) @@
    ( "b3e" :> << "cb3", "echo", "free" >> ) @@
    ( "b4e" :> << "cb4", "echo" >> ) @@
    ( "nopow"    :> << "cb2" >> ) @@
    ( "nomerkle" :> << "cb2", "pay" >> ) @@
    ( "twice"    :> << "cb2", "pay", "rival" >> ) @@
    ( "within"   :> << "cb2", "pay", "onward" >> ) @@
    ( "forged"   :> << "cb2", "unsigned" >> ) @@
    ( "over"     :> << "cb2", "overspend" >> ) @@
    ( "rich"     :> << "greedy", "pay" >> ) @@
    ( "twocb"    :> << "cb2", "cb3" >> ) @@
    ( "nocb"     :> << "pay" >> ) @@
    ( "empty"    :> << >> )

CleanPrev == [ b \in DOMAIN CleanBody |->
    CASE b = "g" -> "none"
      [] b = "b1" -> "g"
      [] b \in { "b3", "b3r", "b3f" } -> "b2"
      [] b = "b4" -> "b3"
      [] b = "b3e" -> "b2f"
      [] b = "b4e" -> "b3e"
      [] OTHER -> "b1" ]

\* Blocks a node may meet after a crash: the chain above, the next block of a
\* miner whose height fell behind (it pays cb2 again), and its successor.
CrashBody ==
    ( "g"   :> << "cb0" >> ) @@
    ( "b1"  :> << "cb1" >> ) @@
    ( "b2"  :> << "cb2", "pay" >> ) @@
    ( "b2b" :> << "cb2b" >> ) @@
    ( "b3"  :> << "cb3" >> ) @@
    ( "b3m" :> << "cb2" >> ) @@
    ( "b3r" :> << "cb3", "rival" >> ) @@
    ( "b4"  :> << "cb4", "onward" >> )

CrashPrev == [ b \in DOMAIN CrashBody |->
    CASE b = "g" -> "none"
      [] b = "b1" -> "g"
      [] b \in { "b2", "b2b" } -> "b1"
      [] b = "b4" -> "b3"
      [] OTHER -> "b2" ]

\* Blocks with a sum at the edge: the outputs of wrap add up to U64 + 1.
WrapBody ==
    ( "g"  :> << "cb0" >> ) @@
    ( "b1" :> << "cb1" >> ) @@
    ( "b2" :> << "cb2", "wrap" >> )

WrapPrev == ( "g" :> "none" ) @@ ( "b1" :> "g" ) @@ ( "b2" :> "b1" )
WrapBlock == DOMAIN WrapBody
WrapPow == [ b \in WrapBlock |-> TRUE ]

CleanBlock == DOMAIN CleanBody
CrashBlock == DOMAIN CrashBody
CleanPow == [ b \in CleanBlock |-> b # "nopow" ]
\* The header of nomerkle has the root of another body.
CleanRoot == [ b \in CleanBlock |-> MerkleRoot(CleanBody[IF b = "nomerkle" THEN "b3" ELSE b]) ]
CrashRoot == [ b \in CrashBlock |-> MerkleRoot(CrashBody[b]) ]
WrapRoot == [ b \in WrapBlock |-> MerkleRoot(WrapBody[b]) ]
CrashPow == [ b \in CrashBlock |-> TRUE ]

-----------------------------------------------------------------------------
(* Phrases of 2 or 4 words from a list of 8: 4 or 8 bits of entropy and 2   *)
(* or 4 bits of checksum.                                                   *)

\* A hash that depends on every bit and tells the lengths apart.
MCHashBits == [ entropy \in UNION { [ 1 .. n -> {0, 1} ] : n \in {4, 8} } |->
    LET sum == FoldLeft(LAMBDA v, bit : (3 * v + bit + 1) % 16, 0, entropy)
    IN  [ i \in 1 .. 4 |-> (sum \div 2^(4 - i)) % 2 ] ]

AliceWords == EntropyToMnemonic(<< 1, 0, 1, 1 >>)
BobWords == EntropyToMnemonic(<< 0, 1, 1, 0, 1, 0, 0, 1 >>)

\* Every phrase of two words; the 9th value is no word of the list.
ShortText == [ words : [ 1 .. 2 -> 0 .. 8 ], spacing : {"single"} ]

\* Bob's phrase, whole, cut short, and with one word replaced.
LongText ==
    { [ words |-> words, spacing |-> "single" ] :
        words \in { BobWords, Front(BobWords) }
                 \cup { [ BobWords EXCEPT ![i] = w ] : i \in 1 .. 4, w \in 0 .. 8 } }

\* Alice's phrase, with a double space in it.
WideText == { [ words |-> AliceWords, spacing |-> "wide" ] }

MCText == ShortText \cup LongText \cup WideText

MCKeyOf == [ text \in MCText |->
    IF text = [ words |-> AliceWords, spacing |-> "single" ] THEN "alice"
    ELSE IF text = [ words |-> BobWords, spacing |-> "single" ] THEN "bob"
    ELSE "stranger" ]
=============================================================================
