------------------------------- MODULE MCPeers ------------------------------
(* Instances of Peers: three places for connections, two listening peers,  *)
(* our loopback address, configured too in one instance, and one port that *)
(* peers dial us from.                                                     *)
EXTENDS Peers, TLC

CONSTANTS t1, t2, t3, home, east, west, eph

MCTask == { t1, t2, t3 }
TaskSymmetry == Permutations(MCTask)
MCListening == { home, east, west }
MCEphemeral == { eph }
MCConfigured == { east, home }
NoneConfigured == { }
=============================================================================
