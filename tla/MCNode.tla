------------------------------- MODULE MCNode -------------------------------
(* Instances of Node: own and peer coinbases for each height, two payments *)
(* that conflict, one of them with more outputs than there are indices     *)
(* (U16 = 2), one that merges the output of another with a coinbase, one   *)
(* without inputs, which validation lets through, and one that spends its  *)
(* output.                                                                 *)
EXTENDS Node

In(from, index, owner) ==
    [ from |-> from, index |-> index, owner |-> owner, signed |-> TRUE ]
Out(amount, owner) == [ amount |-> amount, owner |-> owner ]

Own == << "own1", "own2", "own3" >>
Peer == << "peer1", "peer2", "peer3" >>
Coinbases == {"cb0"} \cup ToSet(Own) \cup ToSet(Peer)
MCTx == Coinbases \cup { "pay", "rival", "merge", "void", "echo" }

MCInputs == [ t \in MCTx |->
    CASE t \in Coinbases -> << In("zero", CoinbaseIndex, "nobody") >>
      [] t \in { "pay", "rival" } -> << In("cb0", 0, "alice") >>
      [] t = "merge"  -> << In("own1", 0, "me"), In("pay", 0, "bob") >>
      [] t = "void"   -> << >>
      [] t = "echo"   -> << In("void", 0, "bob") >> ]

MCOutputs == [ t \in MCTx |->
    CASE t = "cb0"    -> << Out(5, "alice"), Out(1, "me") >>
      [] t = "peer2"  -> << Out(7, "peer") >>
      [] t \in ToSet(Own) \cup ToSet(Peer) -> << Out(6, IF t \in ToSet(Own) THEN "me" ELSE "peer") >>
      [] t = "pay"    -> << Out(3, "bob"), Out(1, "alice") >>
      [] t = "rival"  -> << Out(2, "me"), Out(1, "bob"), Out(2, "alice") >>
      [] t = "merge"  -> << Out(8, "bob") >>
      [] t = "void"   -> << Out(0, "bob") >>
      [] t = "echo"   -> << Out(0, "alice") >> ]

MCGenesis == << "cb0" >>

MCMaxHeight == 3

\* peer2 claims a fee of 1 on top of the reward; an empty block with it is
\* invalid.  At height 2 a peer may repeat the coinbase of genesis, whose output
\* `pay' can then spend again.
MCPeerBodies == [ h \in 1 .. MCMaxHeight + 1 |->
    IF h > MCMaxHeight THEN {}
    ELSE { << Peer[h] >> \o s : s \in { << >>, << "pay" >>, << "rival" >>, << "merge" >>,
                                        << "void" >>, << "pay", "rival" >> } }
         \cup (IF h = 2 THEN { << "cb0" >> } ELSE {}) ]

\* The premise of the theorems holds here.
ASSUME MCNodeAssumption == SumsFit
=============================================================================
