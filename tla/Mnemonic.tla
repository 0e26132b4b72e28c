------------------------------ MODULE Mnemonic ------------------------------
(***************************************************************************)
(* Mnemonic phrases: crypto/mnemonic.rs.  A phrase writes entropy and the  *)
(* first bits of its hash in words of a fixed list; a word stands for its  *)
(* position in the list, and every value that is no position for a word    *)
(* the list does not have.                                                 *)
(***************************************************************************)
EXTENDS Integers, Sequences, SequencesExt

CONSTANTS
    WordBits,        \* 11 in the code, for a list of 2048 words
    Ratio,           \* entropy bits for one bit of checksum, 32 in the code
    EntropyLengths,  \* in bits, {128, 256} in the code
    WordCounts,      \* {12, 24} in the code
    HashBits         \* entropy -> the bits of its hash, most significant first

Bit == {0, 1}
Entropy == UNION { [ 1 .. n -> Bit ] : n \in EntropyLengths }

ASSUME MnemonicAssumption ==
    /\ WordBits \in Nat \ {0} /\ Ratio \in Nat \ {0}
    /\ EntropyLengths \subseteq Nat
    /\ WordCounts = { (n + n \div Ratio) \div WordBits : n \in EntropyLengths }
    /\ \A n \in EntropyLengths : n % Ratio = 0 /\ (n + n \div Ratio) % WordBits = 0
    /\ \A e \in Entropy : HashBits[e] \in Seq(Bit) /\ Len(HashBits[e]) >= Len(e) \div Ratio

\* The number of values of n bits.
Power2[n \in 0 .. WordBits] == IF n = 0 THEN 1 ELSE 2 * Power2[n - 1]

\* Most significant bit first, shifted in one at a time.
NumberOf(bits) ==
    LET value[i \in 0 .. Len(bits)] == IF i = 0 THEN 0 ELSE 2 * value[i - 1] + bits[i]
    IN  value[Len(bits)]

BitsOf(word) == [ i \in 1 .. WordBits |-> (word \div Power2[WordBits - i]) % 2 ]

Checksum(entropy, length) == SubSeq(HashBits[entropy], 1, length)

\* entropy_to_mnemonic: the bits in groups of WordBits, each a word.
EntropyToMnemonic(entropy) ==
    LET bits == entropy \o Checksum(entropy, Len(entropy) \div Ratio)
    IN  [ i \in 1 .. Len(bits) \div WordBits |->
            NumberOf(SubSeq(bits, (i - 1) * WordBits + 1, i * WordBits)) ]

\* validate_mnemonic
ValidateMnemonic(words) ==
    /\ Len(words) \in WordCounts
    /\ \A i \in DOMAIN words : words[i] \in 0 .. Power2[WordBits] - 1
    /\ LET bits == FlattenSeq([ i \in DOMAIN words |-> BitsOf(words[i]) ])
           checksum == Len(bits) \div (Ratio + 1)
           entropy == SubSeq(bits, 1, Len(bits) - checksum)
       IN  SubSeq(bits, Len(entropy) + 1, Len(bits)) = Checksum(entropy, checksum)
=============================================================================
