------------------------------- MODULE Merkle -------------------------------
(***************************************************************************)
(* The Merkle tree of a block: crypto/hash.rs.                             *)
(*                                                                         *)
(* BLAKE3 is taken to be free of collisions, so a hash is the term it was  *)
(* computed from: <<>> for the all-zero hash, <<id>> for the hash that is  *)
(* the id itself, <<a, b>> for the hash of the concatenation of a and b.   *)
(***************************************************************************)
EXTENDS Integers, Sequences

ZeroHash == <<>>

HashPair(a, b) == <<a, b>>

\* Mutant: the last hash of an odd level is dropped.
LevelDropsOdd(level) ==
    [ i \in 1 .. Len(level) \div 2 |-> HashPair(level[2 * i - 1], level[2 * i]) ]

\* One turn of the loop: neighbours in pairs, an odd last hash with itself.
NextLevel(level) ==
    [ i \in 1 .. (Len(level) + 1) \div 2 |->
        HashPair(level[2 * i - 1],
                 IF 2 * i <= Len(level) THEN level[2 * i] ELSE level[2 * i - 1]) ]

\* A level of n hashes is a single one after fewer than n turns.
MerkleRoot(ids) ==
    LET level[turns \in 0 .. Len(ids)] ==
            IF turns = 0 THEN [ i \in DOMAIN ids |-> <<ids[i]>> ]
            ELSE IF Len(level[turns - 1]) <= 1 THEN level[turns - 1]
            ELSE NextLevel(level[turns - 1])
    IN  IF ids = <<>> THEN ZeroHash ELSE level[Len(ids)][1]
=============================================================================
