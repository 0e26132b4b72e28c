-------------------------- MODULE ConnectionProofs --------------------------
(***************************************************************************)
(* Proofs about Connection for every length of prefix and base, every      *)
(* size of message, buffer and answer, and any other tasks of the nodes:   *)
(* types, each direction of a connection implements Channel, and whoever   *)
(* sends while it holds the lock of the peer table has room for it.        *)
(***************************************************************************)
EXTENDS Connection, SumTheorems, SequenceTheorems

(* What the assumption says about numbers.                                  *)
LEMMA Sizes ==
    /\ LenBytes \in Nat /\ LenBytes >= 1
    /\ Base \in Nat /\ Base >= 2
    /\ SmallSize \in Nat /\ SmallSize >= 1
    /\ \A size \in AnswerSizes : size \in Nat /\ size >= 1
    /\ MaxMessage \in Nat /\ Capacity \in Nat /\ MaxHeight \in Nat
BY ConnectionAssumption

-----------------------------------------------------------------------------
(* The length prefix *)

(* Every number has its digits: the recursion of Shifted defines a function *)
(* and that function obeys it.                                              *)
LEMMA ShiftedUnfolds ==
    ASSUME NEW n \in Nat
    PROVE  /\ Shifted(n)[0] = n
           /\ \A j \in 1 .. LenBytes : Shifted(n)[j] = Shifted(n)[j - 1] \div Base
           /\ \A j \in 0 .. LenBytes : Shifted(n)[j] \in Nat
<1> DEFINE Obeys(s, k) == s = [ j \in 0 .. k |-> IF j = 0 THEN n ELSE s[j - 1] \div Base ]
           Bad == { k \in Nat : ~ \E s : Obeys(s, k) }
<1>1. \E s : Obeys(s, 0)
  <2>1. Obeys([ j \in 0 .. 0 |-> n ], 0)
    OBVIOUS
  <2>2. QED BY <2>1
<1>2. ASSUME NEW k \in Nat, \E s : Obeys(s, k) PROVE \E s : Obeys(s, k + 1)
  <2>1. PICK s : Obeys(s, k)
    BY <1>2
  <2> DEFINE t == [ j \in 0 .. k + 1 |-> IF j = 0 THEN n ELSE s[j - 1] \div Base ]
  <2>2. \A j \in 0 .. k : t[j] = s[j]
    BY <2>1
  <2>3. \A j \in 0 .. k + 1 : j # 0 => j - 1 \in 0 .. k
    OBVIOUS
  <2>4. \A j \in 0 .. k + 1 : (IF j = 0 THEN n ELSE s[j - 1] \div Base)
                                = (IF j = 0 THEN n ELSE t[j - 1] \div Base)
    <3> HIDE DEF t
    <3>1. QED BY <2>2, <2>3
  <2>5. Obeys(t, k + 1)
    <3>1. t = [ j \in 0 .. k + 1 |-> IF j = 0 THEN n ELSE s[j - 1] \div Base ]
      OBVIOUS
    <3> HIDE DEF t
    <3>2. QED BY <2>4, <3>1
  <2>6. QED BY <2>5
<1> HIDE DEF Obeys
<1>3. Bad = {}
  <2> SUFFICES ASSUME Bad # {} PROVE FALSE
    OBVIOUS
  <2>1. PICK k \in Bad : \A j \in Bad : k <= j
    BY LeastNatural
  <2>2. k \in Nat /\ k # 0 /\ ~ \E s : Obeys(s, k)
    BY <1>1, <2>1
  <2>3. k - 1 \in Nat /\ k - 1 \notin Bad
    BY <2>1, <2>2
  <2>4. \E s : Obeys(s, k - 1 + 1)
    BY <1>2, <2>3
  <2>5. QED BY <2>2, <2>4
<1>4. \E s : Obeys(s, LenBytes)
  BY <1>3, Sizes
<1>5. Shifted(n) = CHOOSE s : Obeys(s, LenBytes)
  BY DEF Shifted, Obeys
<1>6. Obeys(Shifted(n), LenBytes)
  BY <1>4, <1>5
<1>7. Shifted(n)[0] = n /\ \A j \in 1 .. LenBytes : Shifted(n)[j] = Shifted(n)[j - 1] \div Base
  BY <1>6, Sizes DEF Obeys
<1> DEFINE Odd == { j \in 0 .. LenBytes : Shifted(n)[j] \notin Nat }
<1>8. Odd = {}
  <2> SUFFICES ASSUME Odd # {} PROVE FALSE
    OBVIOUS
  <2>1. Odd \in SUBSET Nat
    BY Sizes
  <2>2. PICK j \in Odd : \A i \in Odd : j <= i
    BY <2>1, LeastNatural
  <2>3. j \in 1 .. LenBytes
    BY <1>7, <2>2, Sizes
  <2>4. j - 1 \notin Odd /\ j - 1 \in 0 .. LenBytes
    BY <2>2, <2>3, Sizes
  <2>5. Shifted(n)[j - 1] \in Nat
    BY <2>4
  <2>6. \A x \in Nat : x \div Base \in Nat
    BY Sizes
  <2>7. QED BY <1>7, <2>2, <2>3, <2>5, <2>6
<1>9. QED BY <1>7, <1>8

(* Base * n + d, byte by byte, is defined as well.                          *)
LEMMA LengthUnfolds ==
    ASSUME NEW bytes
    PROVE  \E n : /\ LengthIn(bytes) = n[LenBytes] /\ n[0] = 0
                  /\ \A i \in 1 .. LenBytes : n[i] = Base * n[i - 1] + bytes[i].value
<1> DEFINE Obeys(s, k) == s = [ i \in 0 .. k |-> IF i = 0 THEN 0 ELSE Base * s[i - 1] + bytes[i].value ]
           Bad == { k \in Nat : ~ \E s : Obeys(s, k) }
<1>1. \E s : Obeys(s, 0)
  <2>1. Obeys([ i \in 0 .. 0 |-> 0 ], 0)
    OBVIOUS
  <2>2. QED BY <2>1
<1>2. ASSUME NEW k \in Nat, \E s : Obeys(s, k) PROVE \E s : Obeys(s, k + 1)
  <2>1. PICK s : Obeys(s, k)
    BY <1>2
  <2> DEFINE t == [ i \in 0 .. k + 1 |-> IF i = 0 THEN 0 ELSE Base * s[i - 1] + bytes[i].value ]
  <2>2. \A i \in 0 .. k : t[i] = s[i]
    BY <2>1
  <2>3. \A i \in 0 .. k + 1 : i # 0 => i - 1 \in 0 .. k
    OBVIOUS
  <2>4. \A i \in 0 .. k + 1 : (IF i = 0 THEN 0 ELSE Base * s[i - 1] + bytes[i].value)
                                = (IF i = 0 THEN 0 ELSE Base * t[i - 1] + bytes[i].value)
    <3> HIDE DEF t
    <3>1. QED BY <2>2, <2>3
  <2>5. Obeys(t, k + 1)
    <3>1. t = [ i \in 0 .. k + 1 |-> IF i = 0 THEN 0 ELSE Base * s[i - 1] + bytes[i].value ]
      OBVIOUS
    <3> HIDE DEF t
    <3>2. QED BY <2>4, <3>1
  <2>6. QED BY <2>5
<1> HIDE DEF Obeys
<1>3. Bad = {}
  <2> SUFFICES ASSUME Bad # {} PROVE FALSE
    OBVIOUS
  <2>1. PICK k \in Bad : \A j \in Bad : k <= j
    BY LeastNatural
  <2>2. k \in Nat /\ k # 0 /\ ~ \E s : Obeys(s, k)
    BY <1>1, <2>1
  <2>3. k - 1 \in Nat /\ k - 1 \notin Bad
    BY <2>1, <2>2
  <2>4. \E s : Obeys(s, k - 1 + 1)
    BY <1>2, <2>3
  <2>5. QED BY <2>2, <2>4
<1>4. \E s : Obeys(s, LenBytes)
  BY <1>3, Sizes
<1> DEFINE n == CHOOSE s : Obeys(s, LenBytes)
<1>5. LengthIn(bytes) = n[LenBytes]
  BY DEF LengthIn, Obeys
<1>6. Obeys(n, LenBytes)
  BY <1>4
<1> HIDE DEF n
<1>7. n[0] = 0 /\ \A i \in 1 .. LenBytes : n[i] = Base * n[i - 1] + bytes[i].value
  BY <1>6, Sizes DEF Obeys
<1>8. QED BY <1>5, <1>7

(* A number is its last digit and the rest.                                 *)
LEMMA LastDigit ==
    ASSUME NEW x \in Nat
    PROVE  Base * (x \div Base) + (x % Base) = x
BY Sizes

(* What to_bytes writes in front of a message of a size that fits, receive  *)
(* reads back as that size.                                                 *)
LEMMA PrefixIsSize ==
    ASSUME NEW size \in Nat, Fits(size), NEW bytes,
           \A i \in 1 .. LenBytes : bytes[i].value = Shifted(size)[LenBytes - i] % Base
    PROVE  LengthIn(bytes) = size
<1>1. PICK n : /\ LengthIn(bytes) = n[LenBytes] /\ n[0] = 0
               /\ \A i \in 1 .. LenBytes : n[i] = Base * n[i - 1] + bytes[i].value
  BY LengthUnfolds
<1>2. /\ Shifted(size)[0] = size /\ Shifted(size)[LenBytes] = 0
      /\ \A j \in 1 .. LenBytes : Shifted(size)[j] = Shifted(size)[j - 1] \div Base
      /\ \A j \in 0 .. LenBytes : Shifted(size)[j] \in Nat
  BY ShiftedUnfolds DEF Fits
<1> DEFINE Wrong == { i \in 0 .. LenBytes : n[i] # Shifted(size)[LenBytes - i] }
<1>3. Wrong = {}
  <2> SUFFICES ASSUME Wrong # {} PROVE FALSE
    OBVIOUS
  <2>1. Wrong \in SUBSET Nat
    BY Sizes
  <2>2. PICK i \in Wrong : \A k \in Wrong : i <= k
    BY <2>1, LeastNatural
  <2>3. i \in 1 .. LenBytes
    BY <1>1, <1>2, <2>2, Sizes
  <2>4. i - 1 \in 0 .. LenBytes /\ i - 1 \notin Wrong /\ LenBytes - i + 1 \in 1 .. LenBytes
    BY <2>2, <2>3, Sizes
  <2> DEFINE x == Shifted(size)[LenBytes - i]
  <2>5. x \in Nat
    BY <1>2, <2>3, Sizes
  <2>6. n[i - 1] = Shifted(size)[LenBytes - i + 1]
    <3>1. LenBytes - (i - 1) = LenBytes - i + 1
      BY <2>3, Sizes
    <3>2. QED BY <2>4, <3>1
  <2>7. Shifted(size)[LenBytes - i + 1] = x \div Base
    <3> DEFINE j == LenBytes - i + 1
    <3>1. j \in 1 .. LenBytes /\ j - 1 = LenBytes - i
      BY <2>3, <2>4, Sizes
    <3> HIDE DEF j
    <3>2. Shifted(size)[j] = Shifted(size)[j - 1] \div Base
      BY <1>2, <3>1
    <3>3. Shifted(size)[j] = x \div Base
      BY <3>1, <3>2
    <3>4. QED BY <3>3 DEF j
  <2>8. n[i] = Base * (x \div Base) + (x % Base)
    BY <1>1, <2>3, <2>6, <2>7
  <2>9. n[i] = x
    BY <2>5, <2>8, LastDigit
  <2>10. QED BY <2>2, <2>9
<1>4. n[LenBytes] = Shifted(size)[0]
  BY <1>3, Sizes
<1>5. QED BY <1>1, <1>2, <1>4

-----------------------------------------------------------------------------
(* Messages and frames *)

(* Every message has a payload whose length the prefix can hold.            *)
LEMMA MessageFacts ==
    ASSUME NEW m \in Message
    PROVE  /\ m.size \in Nat /\ m.size >= 1 /\ Fits(m.size)
           /\ m.height \in 0 .. MaxHeight
           /\ m # LengthPrefix /\ m.type # "length"
<1>1. 0 \in 0 .. MaxHeight
  BY Sizes
<1>2. PICK type, h, size : /\ m = Msg(type, h, size) /\ type # "length"
                           /\ h \in 0 .. MaxHeight /\ size \in AnswerSizes \cup {SmallSize}
  <2>1. CASE m \in { Version(h) : h \in 0 .. MaxHeight }
    BY <2>1 DEF Version
  <2>2. CASE m \in { GetBlocks(h) : h \in 0 .. MaxHeight }
    BY <2>2 DEF GetBlocks
  <2>3. CASE m \in { VerAck, GetPeers, PeerList }
    BY <1>1, <2>3 DEF VerAck, GetPeers, PeerList
  <2>4. CASE m \in { Blocks(h, size) : h \in 0 .. MaxHeight, size \in AnswerSizes \cup {SmallSize} }
    BY <2>4 DEF Blocks
  <2>5. QED BY <2>1, <2>2, <2>3, <2>4 DEF Message
<1>3. m.type = type /\ m.height = h /\ m.size = size
  BY <1>2 DEF Msg
<1>4. size \in Nat /\ size >= 1 /\ Fits(size)
  BY <1>2, Sizes, ConnectionAssumption
<1>5. m # LengthPrefix
  <2>1. LengthPrefix.type = "length"
    BY DEF LengthPrefix, Msg
  <2>2. QED BY <1>2, <1>3, <2>1
<1>6. QED BY <1>2, <1>3, <1>4, <1>5

(* The messages that handle_peer sends.                                     *)
LEMMA SmallMessages ==
    /\ \A h \in 0 .. MaxHeight :
          /\ Version(h) \in Message /\ Version(h).size = SmallSize /\ Version(h).type = "Version"
          /\ GetBlocks(h) \in Message /\ GetBlocks(h).size = SmallSize
          /\ GetBlocks(h).type = "GetBlocks"
    /\ VerAck \in Message /\ VerAck.size = SmallSize /\ VerAck.type = "VerAck"
    /\ GetPeers \in Message /\ GetPeers.size = SmallSize /\ GetPeers.type = "GetPeers"
    /\ PeerList \in Message /\ PeerList.size = SmallSize /\ PeerList.type = "Peers"
    /\ \A h \in 0 .. MaxHeight, size \in AnswerSizes \cup {SmallSize} :
          Blocks(h, size) \in Message /\ Blocks(h, size).type = "Blocks"
<1>1. \A type, h, size : Msg(type, h, size).type = type /\ Msg(type, h, size).size = size
  BY DEF Msg
<1>2. \A h \in 0 .. MaxHeight : Version(h) \in Message /\ GetBlocks(h) \in Message
  BY DEF Message
<1>3. \A h \in 0 .. MaxHeight, size \in AnswerSizes \cup {SmallSize} : Blocks(h, size) \in Message
  BY DEF Message
<1>4. VerAck \in Message /\ GetPeers \in Message /\ PeerList \in Message
  BY DEF Message
<1>5. QED BY <1>1, <1>2, <1>3, <1>4 DEF Version, GetBlocks, VerAck, GetPeers, PeerList, Blocks

FrameLen(m) == LenBytes + m.size

\* The i-th byte of a frame.
FrameByte(m, i) ==
    IF i <= LenBytes THEN Byte(LengthPrefix, Shifted(m.size)[LenBytes - i] % Base)
    ELSE Byte(m, (i - LenBytes) % Base)

LEMMA FrameFacts ==
    ASSUME NEW m \in Message
    PROVE  /\ FrameLen(m) \in Nat /\ FrameLen(m) >= 1
           /\ ToBytes(m) \in Seq(Bytes) /\ Len(ToBytes(m)) = FrameLen(m)
           /\ \A i \in 1 .. FrameLen(m) : ToBytes(m)[i] = FrameByte(m, i)
<1> DEFINE prefix == [ i \in 1 .. LenBytes |-> Byte(LengthPrefix, Shifted(m.size)[LenBytes - i] % Base) ]
<1>1. m.size \in Nat /\ m.size >= 1
  BY MessageFacts
<1>2. \A x \in Nat : x % Base \in 0 .. Base - 1
  BY Sizes
<1>3. \A i \in 1 .. LenBytes : Shifted(m.size)[LenBytes - i] \in Nat
  <2>1. \A j \in 0 .. LenBytes : Shifted(m.size)[j] \in Nat
    BY <1>1, ShiftedUnfolds
  <2>2. \A i \in 1 .. LenBytes : LenBytes - i \in 0 .. LenBytes
    BY Sizes
  <2>3. QED BY <2>1, <2>2
<1>4. \A i \in 1 .. LenBytes : Byte(LengthPrefix, Shifted(m.size)[LenBytes - i] % Base) \in Bytes
  <2>1. \A i \in 1 .. LenBytes : Shifted(m.size)[LenBytes - i] % Base \in 0 .. Base - 1
    BY <1>2, <1>3
  <2>2. \A v \in 0 .. Base - 1 : Byte(LengthPrefix, v) \in Bytes
    BY DEF Byte, Bytes
  <2>3. QED BY <2>1, <2>2
<1>5. prefix \in Seq(Bytes) /\ Len(prefix) = LenBytes
  BY <1>4, Sizes, IsASeq
<1>6. \A i \in 1 .. m.size : Byte(m, i % Base) \in Bytes
  <2>1. \A i \in 1 .. m.size : i % Base \in 0 .. Base - 1
    BY <1>2
  <2>2. \A v \in 0 .. Base - 1 : Byte(m, v) \in Bytes
    BY DEF Byte, Bytes
  <2>3. QED BY <2>1, <2>2
<1>7. Payload(m) \in Seq(Bytes) /\ Len(Payload(m)) = m.size
  BY <1>1, <1>6, IsASeq DEF Payload
<1>8. ToBytes(m) = prefix \o Payload(m)
  BY DEF ToBytes
<1>9. \A i \in 1 .. LenBytes : prefix[i] = FrameByte(m, i)
  BY Sizes DEF FrameByte
<1>10. \A i \in 1 .. m.size : Payload(m)[i] = Byte(m, i % Base)
  BY DEF Payload
<1> HIDE DEF prefix
<1>11. /\ ToBytes(m) \in Seq(Bytes) /\ Len(ToBytes(m)) = FrameLen(m)
       /\ \A i \in 1 .. FrameLen(m) :
             ToBytes(m)[i] = IF i <= LenBytes THEN prefix[i] ELSE Payload(m)[i - LenBytes]
  <2> DEFINE payload == Payload(m)
  <2>1. payload \in Seq(Bytes) /\ Len(payload) = m.size
    BY <1>7
  <2> HIDE DEF payload
  <2>2. /\ prefix \o payload \in Seq(Bytes) /\ Len(prefix \o payload) = Len(prefix) + Len(payload)
        /\ \A i \in 1 .. Len(prefix) + Len(payload) :
              (prefix \o payload)[i] = IF i <= Len(prefix) THEN prefix[i] ELSE payload[i - Len(prefix)]
    BY <1>5, <2>1, ConcatProperties
  <2>3. Len(prefix) + Len(payload) = FrameLen(m)
    BY <1>5, <2>1 DEF FrameLen
  <2>4. ToBytes(m) = prefix \o payload
    BY <1>8 DEF payload
  <2>5. QED BY <1>5, <2>2, <2>3, <2>4 DEF payload
<1>12. ASSUME NEW i \in 1 .. FrameLen(m) PROVE ToBytes(m)[i] = FrameByte(m, i)
  <2>1. CASE i <= LenBytes
    <3>1. i \in 1 .. LenBytes
      BY <2>1, Sizes
    <3>2. ToBytes(m)[i] = prefix[i]
      BY <1>11, <2>1
    <3>3. QED BY <1>9, <3>1, <3>2
  <2>2. CASE i > LenBytes
    <3>1. i - LenBytes \in 1 .. m.size
      BY <1>1, <2>2, Sizes DEF FrameLen
    <3>2. ToBytes(m)[i] = Payload(m)[i - LenBytes]
      BY <1>11, <2>2, Sizes
    <3>3. FrameByte(m, i) = Byte(m, (i - LenBytes) % Base)
      BY <2>2, Sizes DEF FrameByte
    <3>4. QED BY <1>10, <3>1, <3>2, <3>3
  <2>3. QED BY <2>1, <2>2, Sizes
<1>13. QED BY <1>1, <1>11, <1>12, Sizes DEF FrameLen

-----------------------------------------------------------------------------
(* The bytes between two ends *)

LEMMA FrameSizes ==
    \A S \in Seq(Message) : \A k \in 1 .. Len(S) :
        S[k] \in Message /\ FrameLen(S[k]) \in Nat /\ FrameLen(S[k]) >= 1
<1> SUFFICES ASSUME NEW S \in Seq(Message), NEW k \in 1 .. Len(S)
             PROVE  S[k] \in Message /\ FrameLen(S[k]) \in Nat /\ FrameLen(S[k]) >= 1
  OBVIOUS
<1> DEFINE m == S[k]
<1>1. m \in Message
  OBVIOUS
<1> HIDE DEF m
<1>2. FrameLen(m) \in Nat /\ FrameLen(m) >= 1
  BY <1>1, FrameFacts
<1>3. QED BY <1>1, <1>2 DEF m

\* The bytes of flow are those of the frames of messages r + 1, r + 2, ... of S:
\* all of them if `whole', else perhaps only the first of them.  start[k] is where
\* frame k + 1 starts.
Starts(start, S, r) ==
    /\ start[r] = 0
    /\ \A k \in r + 1 .. Len(S) : start[k] = start[k - 1] + FrameLen(S[k])
    /\ \A j, k \in r .. Len(S) : j <= k => start[j] <= start[k]

Carries(flow, start, S, r) ==
    \A k \in r + 1 .. Len(S) : \A i \in 1 .. FrameLen(S[k]) :
        start[k - 1] + i <= Len(flow) => flow[start[k - 1] + i] = FrameByte(S[k], i)

Follows(flow, S, r, whole) ==
    \E start \in [ r .. Len(S) -> Nat ] :
        /\ Starts(start, S, r)
        /\ Carries(flow, start, S, r)
        /\ IF whole THEN Len(flow) = start[Len(S)] ELSE Len(flow) <= start[Len(S)]

(* Where the frame of one more message starts.                              *)
LEMMA OneMoreStarts ==
    ASSUME NEW S \in Seq(Message), NEW r \in 0 .. Len(S), NEW m \in Message,
           NEW start \in [ r .. Len(S) -> Nat ], Starts(start, S, r)
    PROVE  \E longer \in [ r .. Len(S) + 1 -> Nat ] :
               /\ Starts(longer, Append(S, m), r)
               /\ \A k \in r .. Len(S) : longer[k] = start[k]
               /\ longer[Len(S) + 1] = start[Len(S)] + FrameLen(m)
<1> DEFINE n == Len(S)
           T == Append(S, m)
           longer == [ k \in r .. n + 1 |-> IF k = n + 1 THEN start[n] + FrameLen(m) ELSE start[k] ]
<1>1. n \in Nat /\ r \in Nat /\ r <= n
  OBVIOUS
<1>2. /\ Len(T) = n + 1 /\ T[n + 1] = m /\ \A k \in 1 .. n : T[k] = S[k]
  BY AppendProperties
<1>3. FrameLen(m) \in Nat /\ FrameLen(m) >= 1
  BY FrameFacts
<1>4. /\ \A k \in r .. n : longer[k] = start[k] /\ start[k] \in Nat
      /\ longer[n + 1] = start[n] + FrameLen(m)
  BY <1>1
<1>5. longer \in [ r .. n + 1 -> Nat ]
  BY <1>1, <1>3
<1> HIDE DEF n, T, longer
<1>6. longer[r] = 0
  BY <1>1, <1>4 DEF Starts
<1>7. ASSUME NEW k \in r + 1 .. n + 1 PROVE longer[k] = longer[k - 1] + FrameLen(T[k])
  <2>1. CASE k = n + 1
    <3>1. n \in r .. n /\ k - 1 = n
      BY <1>1, <2>1
    <3>2. QED BY <1>2, <1>4, <2>1, <3>1
  <2>2. CASE k # n + 1
    <3>1. k \in r + 1 .. n /\ k \in r .. n /\ k - 1 \in r .. n /\ k \in 1 .. n
      BY <1>1, <2>2
    <3>2. start[k] = start[k - 1] + FrameLen(S[k])
      BY <3>1 DEF Starts, n
    <3>3. QED BY <1>2, <1>4, <3>1, <3>2
  <2>3. QED BY <2>1, <2>2
<1>8. ASSUME NEW j \in r .. n + 1, NEW k \in r .. n + 1, j <= k PROVE longer[j] <= longer[k]
  <2>1. \A i \in r .. n : start[i] <= start[n]
    BY <1>1 DEF Starts, n
  <2>2. start[n] \in Nat
    BY <1>1, <1>4
  <2>3. CASE j = n + 1
    BY <1>1, <1>3, <1>4, <1>8, <2>2, <2>3
  <2>4. CASE j # n + 1 /\ k = n + 1
    <3>1. j \in r .. n
      BY <1>1, <2>4
    <3>2. QED BY <1>3, <1>4, <2>1, <2>2, <2>4, <3>1
  <2>5. CASE j # n + 1 /\ k # n + 1
    <3>1. j \in r .. n /\ k \in r .. n
      BY <1>1, <2>5
    <3>2. start[j] <= start[k]
      BY <1>8, <3>1 DEF Starts, n
    <3>3. QED BY <1>4, <3>1, <3>2
  <2>6. QED BY <2>3, <2>4, <2>5
<1>9. Starts(longer, T, r)
  BY <1>2, <1>6, <1>7, <1>8 DEF Starts
<1>10. QED BY <1>4, <1>5, <1>9 DEF n, T

(* What is sent last goes to the end of the bytes.                          *)
LEMMA FollowsSent ==
    ASSUME NEW S \in Seq(Message), NEW r \in 0 .. Len(S), NEW m \in Message,
           NEW flow \in Seq(Bytes), Follows(flow, S, r, TRUE)
    PROVE  Follows(flow \o ToBytes(m), Append(S, m), r, TRUE)
<1> DEFINE n == Len(S)
           T == Append(S, m)
           all == flow \o ToBytes(m)
<1>1. PICK start \in [ r .. n -> Nat ] :
          Starts(start, S, r) /\ Carries(flow, start, S, r) /\ Len(flow) = start[n]
  BY DEF Follows
<1>2. n \in Nat /\ r \in Nat /\ r <= n
  OBVIOUS
<1>3. /\ Len(T) = n + 1 /\ T[n + 1] = m /\ \A k \in 1 .. n : T[k] = S[k]
  BY AppendProperties
<1>4. FrameLen(m) \in Nat /\ FrameLen(m) >= 1
  BY FrameFacts
<1>5. PICK longer \in [ r .. n + 1 -> Nat ] :
          /\ Starts(longer, T, r)
          /\ \A k \in r .. n : longer[k] = start[k]
          /\ longer[n + 1] = start[n] + FrameLen(m)
  BY <1>1, OneMoreStarts
<1>6. \A k \in r .. n : start[k] \in Nat
  BY <1>1
<1>7. /\ all \in Seq(Bytes) /\ Len(all) = start[n] + FrameLen(m)
      /\ \A i \in 1 .. Len(flow) : all[i] = flow[i]
      /\ \A i \in 1 .. FrameLen(m) : all[start[n] + i] = FrameByte(m, i)
  <2> DEFINE b == ToBytes(m)
  <2>1. /\ b \in Seq(Bytes) /\ Len(b) = FrameLen(m)
        /\ \A i \in 1 .. FrameLen(m) : b[i] = FrameByte(m, i)
    BY FrameFacts
  <2> HIDE DEF b
  <2>2. /\ flow \o b \in Seq(Bytes) /\ Len(flow \o b) = Len(flow) + Len(b)
        /\ \A i \in 1 .. Len(flow) + Len(b) :
              (flow \o b)[i] = IF i <= Len(flow) THEN flow[i] ELSE b[i - Len(flow)]
    BY <2>1, ConcatProperties
  <2>3. Len(flow) = start[n] /\ Len(flow) \in Nat
    BY <1>1
  <2>4. \A i \in 1 .. Len(flow) : (flow \o b)[i] = flow[i]
    BY <1>4, <2>1, <2>2, <2>3
  <2>5. ASSUME NEW i \in 1 .. FrameLen(m) PROVE (flow \o b)[start[n] + i] = FrameByte(m, i)
    <3> DEFINE p == start[n] + i
    <3>1. p \in 1 .. Len(flow) + Len(b) /\ p > Len(flow) /\ p - Len(flow) = i
      BY <1>4, <2>1, <2>3
    <3> HIDE DEF p
    <3>2. (flow \o b)[p] = b[i]
      BY <2>2, <2>3, <3>1
    <3>3. QED BY <2>1, <3>2 DEF p
  <2>6. QED BY <2>1, <2>2, <2>3, <2>4, <2>5 DEF b
<1> HIDE DEF n, T, all
<1>8. Carries(all, longer, T, r)
  <2> SUFFICES ASSUME NEW k \in r + 1 .. n + 1, NEW i \in 1 .. FrameLen(T[k])
               PROVE  all[longer[k - 1] + i] = FrameByte(T[k], i)
    BY <1>3 DEF Carries
  <2>1. CASE k = n + 1
    <3>1. k - 1 = n /\ n \in r .. n
      BY <1>2, <2>1
    <3>2. QED BY <1>3, <1>5, <1>7, <2>1, <3>1
  <2>2. CASE k # n + 1
    <3>1. k \in r + 1 .. n /\ k - 1 \in r .. n /\ k \in r .. n /\ k \in 1 .. n
      BY <1>2, <2>2
    <3>2. T[k] = S[k] /\ longer[k - 1] = start[k - 1] /\ start[k - 1] \in Nat
      BY <1>3, <1>5, <1>6, <3>1
    <3> DEFINE p == start[k - 1] + i
    <3>3. p \in 1 .. Len(flow)
      <4>1. S[k] \in Message /\ start[k] \in Nat /\ start[n] \in Nat
        BY <1>2, <1>6, <3>1 DEF n
      <4>2. FrameLen(S[k]) \in Nat
        <5>1. k \in 1 .. n
          BY <1>1, <3>1
        <5>2. QED BY <5>1, FrameSizes DEF n
      <4>3. start[k] = start[k - 1] + FrameLen(S[k]) /\ start[k] <= start[n]
        BY <1>1, <1>2, <3>1 DEF Starts, n
      <4>4. QED BY <1>1, <3>2, <4>1, <4>2, <4>3 DEF n
    <3>4. flow[p] = FrameByte(S[k], i)
      BY <1>1, <3>1, <3>2, <3>3 DEF Carries, n
    <3>5. all[p] = flow[p]
      <4> HIDE DEF p
      <4>1. QED BY <1>7, <3>3
    <3>6. QED BY <3>2, <3>4, <3>5
  <2>3. QED BY <2>1, <2>2
<1>9. Len(all) = longer[Len(T)] /\ longer \in [ r .. Len(T) -> Nat ]
  BY <1>3, <1>5, <1>7
<1>10. Follows(all, T, r, TRUE)
  BY <1>5, <1>8, <1>9 DEF Follows
<1>11. QED BY <1>10 DEF all, T

(* On a connection that is gone what is sent is lost, and what was on its   *)
(* way may arrive in part.                                                  *)
LEMMA FollowsLost ==
    ASSUME NEW S \in Seq(Message), NEW r \in 0 .. Len(S), NEW m \in Message,
           NEW flow \in Seq(Bytes), Follows(flow, S, r, FALSE)
    PROVE  Follows(flow, Append(S, m), r, FALSE)
<1> DEFINE n == Len(S)
           T == Append(S, m)
<1>1. PICK start \in [ r .. n -> Nat ] :
          Starts(start, S, r) /\ Carries(flow, start, S, r) /\ Len(flow) <= start[n]
  BY DEF Follows
<1>2. n \in Nat /\ r \in Nat /\ r <= n
  OBVIOUS
<1>3. /\ Len(T) = n + 1 /\ T[n + 1] = m /\ \A k \in 1 .. n : T[k] = S[k]
  BY AppendProperties
<1>4. FrameLen(m) \in Nat /\ FrameLen(m) >= 1
  BY FrameFacts
<1>5. PICK longer \in [ r .. n + 1 -> Nat ] :
          /\ Starts(longer, T, r)
          /\ \A k \in r .. n : longer[k] = start[k]
          /\ longer[n + 1] = start[n] + FrameLen(m)
  BY <1>1, OneMoreStarts
<1>6. (\A k \in r .. n : start[k] \in Nat) /\ start[n] \in Nat /\ Len(flow) \in Nat
  <2>1. \A k \in r .. n : start[k] \in Nat
    BY <1>1
  <2>2. n \in r .. n /\ Len(flow) \in Nat
    BY <1>2
  <2>3. QED BY <2>1, <2>2
<1> HIDE DEF n, T
<1>7. Carries(flow, longer, T, r)
  <2> SUFFICES ASSUME NEW k \in r + 1 .. n + 1, NEW i \in 1 .. FrameLen(T[k]),
                      longer[k - 1] + i <= Len(flow)
               PROVE  flow[longer[k - 1] + i] = FrameByte(T[k], i)
    BY <1>3 DEF Carries
  <2>1. CASE k = n + 1
    <3>1. k - 1 = n /\ n \in r .. n /\ i \in Nat /\ i >= 1
      BY <1>2, <1>3, <1>4, <2>1
    <3>2. longer[k - 1] = start[n]
      BY <1>5, <3>1
    <3>3. QED BY <1>1, <1>6, <3>1, <3>2
  <2>2. CASE k # n + 1
    <3>1. k \in r + 1 .. n /\ k - 1 \in r .. n /\ k \in 1 .. n
      BY <1>2, <2>2
    <3>2. T[k] = S[k] /\ longer[k - 1] = start[k - 1]
      BY <1>3, <1>5, <3>1
    <3>3. QED BY <1>1, <3>1, <3>2 DEF Carries, n
  <2>3. QED BY <2>1, <2>2
<1>8. Len(flow) <= longer[Len(T)] /\ longer \in [ r .. Len(T) -> Nat ]
  BY <1>1, <1>3, <1>4, <1>5, <1>6
<1>9. Follows(flow, T, r, FALSE)
  BY <1>5, <1>7, <1>8 DEF Follows
<1>10. QED BY <1>9 DEF T

LEMMA FollowsCut ==
    ASSUME NEW S \in Seq(Message), NEW r \in 0 .. Len(S), NEW whole \in BOOLEAN,
           NEW flow \in Seq(Bytes), Follows(flow, S, r, whole),
           NEW part \in Seq(Bytes), Len(part) <= Len(flow),
           \A i \in 1 .. Len(part) : part[i] = flow[i]
    PROVE  Follows(part, S, r, FALSE)
<1>1. PICK start \in [ r .. Len(S) -> Nat ] :
          Starts(start, S, r) /\ Carries(flow, start, S, r) /\ Len(flow) <= start[Len(S)]
  BY DEF Follows
<1>2. Len(part) \in Nat /\ Len(flow) \in Nat /\ Len(S) \in r .. Len(S) /\ start[Len(S)] \in Nat
  BY <1>1
<1>3. Carries(part, start, S, r)
  <2> SUFFICES ASSUME NEW k \in r + 1 .. Len(S), NEW i \in 1 .. FrameLen(S[k]),
                      start[k - 1] + i <= Len(part)
               PROVE  part[start[k - 1] + i] = FrameByte(S[k], i)
    BY DEF Carries
  <2>1. k - 1 \in r .. Len(S) /\ start[k - 1] \in Nat /\ k \in 1 .. Len(S)
    <3>1. k - 1 \in r .. Len(S) /\ k \in 1 .. Len(S)
      OBVIOUS
    <3>2. QED BY <1>1, <3>1
  <2>2. FrameLen(S[k]) \in Nat
    BY <2>1, FrameSizes
  <2> DEFINE p == start[k - 1] + i
  <2>3. p \in 1 .. Len(part) /\ p <= Len(flow)
    BY <1>2, <2>1, <2>2
  <2>4. flow[p] = FrameByte(S[k], i)
    BY <1>1, <2>3 DEF Carries
  <2>5. part[p] = flow[p]
    <3> HIDE DEF p
    <3>1. QED BY <2>3
  <2>6. QED BY <2>4, <2>5
<1>4. Len(part) <= start[Len(S)]
  BY <1>1, <1>2
<1>5. QED BY <1>1, <1>3, <1>4 DEF Follows

(* Whoever has read a length prefix has read that of the first frame.       *)
LEMMA PrefixRead ==
    ASSUME NEW S \in Seq(Message), NEW r \in 0 .. Len(S), NEW whole \in BOOLEAN,
           NEW read \in Seq(Bytes), NEW rest \in Seq(Bytes),
           Follows(read \o rest, S, r, whole), Len(read) >= LenBytes
    PROVE  r < Len(S) /\ LengthIn(read) = S[r + 1].size
<1> DEFINE flow == read \o rest
<1>1. PICK start \in [ r .. Len(S) -> Nat ] :
          Starts(start, S, r) /\ Carries(flow, start, S, r) /\ Len(flow) <= start[Len(S)]
  <2>1. PICK start \in [ r .. Len(S) -> Nat ] :
            /\ Starts(start, S, r) /\ Carries(flow, start, S, r)
            /\ IF whole THEN Len(flow) = start[Len(S)] ELSE Len(flow) <= start[Len(S)]
    BY DEF Follows
  <2>2. Len(S) \in r .. Len(S) /\ start[Len(S)] \in Nat
    OBVIOUS
  <2>3. QED BY <2>1, <2>2
<1>2. /\ Len(flow) = Len(read) + Len(rest) /\ flow \in Seq(Bytes)
      /\ \A i \in 1 .. Len(read) : flow[i] = read[i]
  BY ConcatProperties
<1> HIDE DEF flow
<1>3. r < Len(S)
  <2>1. start[r] = 0
    BY <1>1 DEF Starts
  <2>2. Len(flow) > 0
    BY <1>2, Sizes
  <2>3. QED BY <1>1, <2>1, <2>2
<1> DEFINE m == S[r + 1]
<1>4. m \in Message /\ r + 1 \in r + 1 .. Len(S) /\ start[r] = 0
  BY <1>1, <1>3 DEF Starts
<1>5. m.size \in Nat /\ Fits(m.size) /\ FrameLen(m) = LenBytes + m.size
  BY <1>4, MessageFacts DEF FrameLen
<1>6. \A i \in 1 .. FrameLen(m) : i <= Len(flow) => flow[i] = FrameByte(m, i)
  <2>1. \A i \in 1 .. FrameLen(m) :
            start[r + 1 - 1] + i <= Len(flow) => flow[start[r + 1 - 1] + i] = FrameByte(m, i)
    <3> DEFINE k == r + 1
    <3>1. \A j \in r + 1 .. Len(S) : \A i \in 1 .. FrameLen(S[j]) :
              start[j - 1] + i <= Len(flow) => flow[start[j - 1] + i] = FrameByte(S[j], i)
      BY <1>1 DEF Carries
    <3>2. k \in r + 1 .. Len(S)
      BY <1>4
    <3> HIDE DEF k, m
    <3>3. \A i \in 1 .. FrameLen(S[k]) :
              start[k - 1] + i <= Len(flow) => flow[start[k - 1] + i] = FrameByte(S[k], i)
      BY <3>1, <3>2, Zenon
    <3>4. QED BY <3>3 DEF k, m
  <2>2. start[r + 1 - 1] = 0
    BY <1>4
  <2> HIDE DEF m
  <2>3. QED BY <1>5, <2>1, <2>2, Sizes
<1>7. ASSUME NEW i \in 1 .. LenBytes
      PROVE  read[i].value = Shifted(m.size)[LenBytes - i] % Base
  <2>1. i \in 1 .. FrameLen(m) /\ i \in 1 .. Len(read) /\ i <= Len(flow)
    <3>1. i \in Nat /\ 1 <= i /\ i <= LenBytes /\ LenBytes \in Nat
      BY Sizes
    <3>2. FrameLen(m) \in Nat /\ i <= FrameLen(m)
      <4> HIDE DEF m
      <4>1. QED BY <1>5, <3>1
    <3>3. Len(read) \in Nat /\ Len(rest) \in Nat
      OBVIOUS
    <3>4. i <= Len(read) /\ i <= Len(flow)
      BY <1>2, <3>1, <3>3
    <3>5. QED BY <3>1, <3>2, <3>3, <3>4
  <2>2. read[i] = FrameByte(m, i)
    BY <1>2, <1>6, <2>1
  <2>3. FrameByte(m, i) = Byte(LengthPrefix, Shifted(m.size)[LenBytes - i] % Base)
    BY Sizes DEF FrameByte
  <2>4. QED BY <2>2, <2>3 DEF Byte
<1> HIDE DEF m
<1>8. LengthIn(read) = m.size
  BY <1>5, <1>7, PrefixIsSize
<1>9. QED BY <1>3, <1>8 DEF m

(* Whoever has read a whole frame has read that of the next message, and    *)
(* what is left are the frames after it.                                    *)
LEMMA FrameRead ==
    ASSUME NEW S \in Seq(Message), NEW r \in 0 .. Len(S), NEW whole \in BOOLEAN,
           NEW read \in Seq(Bytes), NEW rest \in Seq(Bytes),
           Follows(read \o rest, S, r, whole), r < Len(S), Len(read) = FrameLen(S[r + 1])
    PROVE  read[LenBytes + 1].of = S[r + 1] /\ Follows(rest, S, r + 1, whole)
<1> DEFINE flow == read \o rest
           n == Len(S)
           m == S[r + 1]
<1>1. PICK start \in [ r .. n -> Nat ] :
          /\ Starts(start, S, r) /\ Carries(flow, start, S, r)
          /\ IF whole THEN Len(flow) = start[n] ELSE Len(flow) <= start[n]
  BY DEF Follows
<1>2. /\ Len(flow) = Len(read) + Len(rest) /\ flow \in Seq(Bytes)
      /\ \A i \in 1 .. Len(read) : flow[i] = read[i]
      /\ \A i \in 1 .. Len(rest) : flow[Len(read) + i] = rest[i]
  <2>1. /\ Len(flow) = Len(read) + Len(rest) /\ flow \in Seq(Bytes)
        /\ \A i \in 1 .. Len(read) + Len(rest) :
              flow[i] = IF i <= Len(read) THEN read[i] ELSE rest[i - Len(read)]
    BY ConcatProperties
  <2> HIDE DEF flow
  <2>2. ASSUME NEW i \in 1 .. Len(rest) PROVE flow[Len(read) + i] = rest[i]
    <3> DEFINE p == Len(read) + i
    <3>1. p \in 1 .. Len(read) + Len(rest) /\ p > Len(read) /\ p - Len(read) = i
      OBVIOUS
    <3> HIDE DEF p
    <3>2. flow[p] = rest[i]
      BY <2>1, <3>1
    <3>3. QED BY <3>2 DEF p
  <2>3. QED BY <2>1, <2>2
<1>3. /\ n \in Nat /\ r \in Nat /\ r + 1 \in r + 1 .. n /\ r + 1 \in 1 .. n /\ m \in Message
      /\ r + 1 - 1 = r
  OBVIOUS
<1>4. m.size \in Nat /\ m.size >= 1 /\ FrameLen(m) = LenBytes + m.size /\ FrameLen(m) \in Nat
  BY <1>3, MessageFacts, Sizes DEF FrameLen
<1> DEFINE len == FrameLen(m)
<1>5. Len(read) = len
  OBVIOUS
<1> HIDE DEF flow, n, m
<1>6. start[r] = 0 /\ start[r + 1] = len
  <2>1. start[r] = 0 /\ start[r + 1] = start[r + 1 - 1] + FrameLen(S[r + 1])
    BY <1>1, <1>3 DEF Starts, n
  <2>2. QED BY <1>3, <1>4, <2>1 DEF m
<1> HIDE DEF len
<1>7. len \in Nat /\ \A k \in r + 1 .. n : start[k] \in Nat /\ start[k] >= len
  <2>1. \A k \in r + 1 .. n : k \in r .. n /\ r + 1 \in r .. n /\ r + 1 <= k
    BY <1>3
  <2>2. \A k \in r + 1 .. n : start[r + 1] <= start[k]
    BY <1>1, <2>1 DEF Starts, n
  <2>3. \A k \in r + 1 .. n : start[k] \in Nat
    BY <1>1, <2>1
  <2>4. QED BY <1>4, <1>6, <2>2, <2>3 DEF len
<1> DEFINE next == [ k \in r + 1 .. n |-> start[k] - len ]
<1>8. next \in [ r + 1 .. n -> Nat ] /\ \A k \in r + 1 .. n : next[k] = start[k] - len
  BY <1>7
<1> HIDE DEF next
<1>9. Starts(next, S, r + 1)
  <2>1. next[r + 1] = 0
    BY <1>3, <1>6, <1>7, <1>8
  <2>2. ASSUME NEW k \in r + 1 + 1 .. n PROVE next[k] = next[k - 1] + FrameLen(S[k])
    <3>1. k \in r + 1 .. n /\ k - 1 \in r + 1 .. n /\ k \in 1 .. n
      BY <1>3
    <3>2. start[k] = start[k - 1] + FrameLen(S[k])
      BY <1>1, <3>1 DEF Starts, n
    <3>3. FrameLen(S[k]) \in Nat
      BY <3>1, FrameSizes DEF n
    <3>4. QED BY <1>7, <1>8, <3>1, <3>2, <3>3
  <2>3. ASSUME NEW j \in r + 1 .. n, NEW k \in r + 1 .. n, j <= k PROVE next[j] <= next[k]
    <3>1. j \in r .. n /\ k \in r .. n
      BY <1>3
    <3>2. start[j] <= start[k]
      BY <1>1, <2>3, <3>1 DEF Starts, n
    <3>3. QED BY <1>7, <1>8, <3>2
  <2>4. QED BY <2>1, <2>2, <2>3 DEF Starts, n
<1>10. Carries(rest, next, S, r + 1)
  <2> SUFFICES ASSUME NEW k \in r + 1 + 1 .. n, NEW i \in 1 .. FrameLen(S[k]),
                      next[k - 1] + i <= Len(rest)
               PROVE  rest[next[k - 1] + i] = FrameByte(S[k], i)
    BY DEF Carries, n
  <2>1. k \in r + 1 .. n /\ k - 1 \in r + 1 .. n /\ k \in 1 .. n
    BY <1>3
  <2>2. FrameLen(S[k]) \in Nat /\ next[k - 1] \in Nat /\ start[k - 1] = len + next[k - 1]
    <3>1. FrameLen(S[k]) \in Nat
      BY <2>1, FrameSizes DEF n
    <3> DEFINE j == k - 1
    <3>2. j \in r + 1 .. n
      BY <2>1
    <3> HIDE DEF j
    <3>3. next[j] = start[j] - len /\ start[j] \in Nat /\ start[j] >= len /\ len \in Nat
      BY <1>7, <1>8, <3>2
    <3>4. next[j] \in Nat /\ start[j] = len + next[j]
      BY <3>3
    <3>5. QED BY <3>1, <3>4 DEF j
  <2> DEFINE p == next[k - 1] + i
  <2>3. p \in 1 .. Len(rest) /\ start[k - 1] + i = len + p
    <3> DEFINE from == next[k - 1]
               size == FrameLen(S[k])
    <3>1. /\ from \in Nat /\ size \in Nat /\ start[k - 1] = len + from /\ p = from + i
          /\ i \in 1 .. size /\ from + i <= Len(rest) /\ Len(rest) \in Nat
      BY <2>2
    <3> HIDE DEF from, size, p
    <3>2. p \in 1 .. Len(rest)
      BY <3>1
    <3>3. start[k - 1] + i = len + p
      BY <1>7, <3>1
    <3>4. QED BY <3>2, <3>3
  <2>4. start[k - 1] + i <= Len(flow)
    BY <1>2, <1>5, <1>7, <2>3
  <2>5. flow[start[k - 1] + i] = FrameByte(S[k], i)
    BY <1>1, <2>1, <2>4 DEF Carries, n
  <2>6. flow[len + p] = rest[p]
    <3> HIDE DEF p
    <3>1. QED BY <1>2, <1>5, <2>3
  <2>7. QED BY <2>3, <2>5, <2>6
<1>11. IF whole THEN Len(rest) = next[n] ELSE Len(rest) <= next[n]
  <2>1. n \in r + 1 .. n /\ next[n] = start[n] - len /\ start[n] \in Nat
    BY <1>3, <1>7, <1>8
  <2>2. Len(rest) \in Nat
    OBVIOUS
  <2>3. QED BY <1>1, <1>2, <1>5, <1>7, <2>1, <2>2
<1>12. Follows(rest, S, r + 1, whole)
  BY <1>8, <1>9, <1>10, <1>11 DEF Follows, n
<1>13. read[LenBytes + 1].of = m
  <2> DEFINE p == LenBytes + 1
  <2>1. p \in 1 .. len /\ p \in Nat /\ p > LenBytes
    BY <1>4, Sizes DEF len
  <2>2. \A i \in 1 .. FrameLen(m) : start[r] + i <= Len(flow) => flow[start[r] + i] = FrameByte(m, i)
    BY <1>1, <1>3 DEF Carries, n, m
  <2>3. start[r] + p = p /\ p <= Len(flow)
    BY <1>2, <1>5, <1>6, <2>1
  <2>4. flow[p] = FrameByte(m, p)
    BY <2>1, <2>2, <2>3 DEF len
  <2>5. read[p] = FrameByte(m, p)
    BY <1>2, <1>5, <2>1, <2>4
  <2>6. FrameByte(m, p) = Byte(m, (p - LenBytes) % Base)
    BY <2>1, Sizes DEF FrameByte
  <2> HIDE DEF p
  <2>7. read[p].of = m
    BY <2>5, <2>6 DEF Byte
  <2>8. QED BY <2>7 DEF p
<1>14. QED BY <1>12, <1>13 DEF m

-----------------------------------------------------------------------------
(* Types *)

LEMMA Ends ==
    /\ \A e \in End : Other(e) \in End /\ Other(e) # e /\ Other(Other(e)) = e
    /\ \A e \in End, f \in End : f = e \/ f = Other(e)
BY DEF End, Other

Waiter == {"handler"} \cup Readers \cup Writers

\* The handler waits for the lock only where it has asked for it.
HandlerWaits(e) ==
    \A i \in 1 .. Len(waiters[e]) :
        waiters[e][i] = "handler" => pc[e] \in { "enter", "share", "filter", "leave" }

TypeInv == TypeOK /\ \A e \in End : HandlerWaits(e)

(* The first k bytes of some, and the rest.                                 *)
LEMMA Split ==
    ASSUME NEW s \in Seq(Bytes), NEW k \in 0 .. Len(s)
    PROVE  /\ SubSeq(s, 1, k) \in Seq(Bytes) /\ Len(SubSeq(s, 1, k)) = k
           /\ \A i \in 1 .. k : SubSeq(s, 1, k)[i] = s[i]
           /\ SubSeq(s, k + 1, Len(s)) \in Seq(Bytes)
           /\ Len(SubSeq(s, k + 1, Len(s))) = Len(s) - k
           /\ SubSeq(s, 1, k) \o SubSeq(s, k + 1, Len(s)) = s
<1> DEFINE one == 1
           m == k + 1
           n == Len(s)
<1>1. /\ one \in Int /\ k \in Int /\ m \in Int /\ n \in Int /\ one = 1 /\ m = k + 1
      /\ 0 <= k /\ k <= n
      /\ \A i \in one .. n : s[i] \in Bytes
  OBVIOUS
<1> HIDE DEF one, m, n
<1>2. /\ SubSeq(s, one, k) \in Seq(Bytes)
      /\ Len(SubSeq(s, one, k)) = IF one <= k THEN k - one + 1 ELSE 0
      /\ \A i \in 1 .. k - one + 1 : SubSeq(s, one, k)[i] = s[one + i - 1]
  <2>1. \A i \in one .. k : s[i] \in Bytes
    BY <1>1
  <2>2. QED BY <1>1, <2>1, SubSeqProperties
<1>3. /\ SubSeq(s, m, n) \in Seq(Bytes)
      /\ Len(SubSeq(s, m, n)) = IF m <= n THEN n - m + 1 ELSE 0
  <2>1. \A i \in m .. n : s[i] \in Bytes
    BY <1>1
  <2>2. QED BY <1>1, <2>1, SubSeqProperties
<1>4. Len(SubSeq(s, one, k)) = k /\ Len(SubSeq(s, m, n)) = n - k
  BY <1>1, <1>2, <1>3
<1>5. \A i \in 1 .. k : SubSeq(s, one, k)[i] = s[i]
  <2>1. \A i \in 1 .. k : i \in 1 .. k - one + 1 /\ one + i - 1 = i
    BY <1>1
  <2>2. QED BY <1>2, <2>1
<1>6. SubSeq(s, one, k) \o SubSeq(s, k + 1, n) = SubSeq(s, one, n)
  <2>1. one \in 1 .. Len(s) + 1 /\ k \in one - 1 .. Len(s) /\ n \in k .. Len(s)
    BY <1>1 DEF n
  <2>2. QED BY <2>1, ConcatAdjacentSubSeq
<1>7. SubSeq(s, one, n) = s
  BY SubSeqFull DEF one, n
<1>8. QED BY <1>2, <1>3, <1>4, <1>5, <1>6, <1>7 DEF one, m, n

(* What the kernel takes of some bytes is a beginning of them that fits; the *)
(* rest stays with the sender.                                              *)
LEMMA AcceptedFacts ==
    ASSUME TypeOK, NEW e \in End, NEW bytes \in Seq(Bytes)
    PROVE  /\ Accepted(e, bytes) \in Seq(Bytes) /\ Rest(e, bytes) \in Seq(Bytes)
           /\ Len(Accepted(e, bytes)) <= Room(e) /\ Room(e) \in Nat
           /\ Len(Accepted(e, bytes)) + Len(Rest(e, bytes)) = Len(bytes)
           /\ Accepted(e, bytes) \o Rest(e, bytes) = bytes
<1>1. Room(e) \in Nat
  <2>1. stream[Other(e)] \in Seq(Bytes) /\ Len(stream[Other(e)]) <= Capacity
    BY Ends DEF TypeOK
  <2>2. QED BY <2>1, Sizes DEF Room
<1> DEFINE k == Least(Room(e), Len(bytes))
<1>2. k \in 0 .. Len(bytes) /\ k <= Room(e)
  BY <1>1 DEF Least
<1> HIDE DEF k
<1>3. Accepted(e, bytes) = SubSeq(bytes, 1, k)
  BY DEF Accepted, k
<1>4. Len(SubSeq(bytes, 1, k)) = k
  BY <1>2, Split
<1>5. Rest(e, bytes) = SubSeq(bytes, k + 1, Len(bytes))
  BY <1>3, <1>4 DEF Rest
<1>6. /\ Accepted(e, bytes) \in Seq(Bytes) /\ Rest(e, bytes) \in Seq(Bytes)
      /\ Len(Accepted(e, bytes)) = k /\ Len(Rest(e, bytes)) = Len(bytes) - k
      /\ Accepted(e, bytes) \o Rest(e, bytes) = bytes
  BY <1>2, <1>3, <1>5, Split
<1>7. QED BY <1>1, <1>2, <1>6

LEMMA PushTypes ==
    ASSUME TypeOK, NEW e \in End, NEW bytes \in Seq(Bytes), Push(e, bytes)
    PROVE  /\ out' \in [ End -> Seq(Bytes) ] /\ stream' \in [ End -> Seq(Bytes) ]
           /\ \A f \in End : Len(stream'[f]) <= Capacity
<1>1. /\ out \in [ End -> Seq(Bytes) ] /\ stream \in [ End -> Seq(Bytes) ]
      /\ \A f \in End : Len(stream[f]) <= Capacity
  BY DEF TypeOK
<1>2. CASE up
  <2> DEFINE a == Accepted(e, bytes)
             b == Rest(e, bytes)
             s == stream[Other(e)]
  <2>1. a \in Seq(Bytes) /\ b \in Seq(Bytes) /\ Len(a) <= Capacity - Len(s)
    BY AcceptedFacts DEF Room
  <2>2. /\ stream' = [ stream EXCEPT ![Other(e)] = s \o a ]
        /\ out' = [ out EXCEPT ![e] = b ]
    BY <1>2 DEF Push
  <2>3. s \in Seq(Bytes) /\ Other(e) \in End
    BY <1>1, Ends
  <2> HIDE DEF a, b, s
  <2>4. s \o a \in Seq(Bytes) /\ Len(s \o a) = Len(s) + Len(a)
    BY <2>1, <2>3, ConcatProperties
  <2>5. Len(s \o a) <= Capacity
    BY <2>1, <2>3, <2>4, Sizes
  <2> DEFINE t == s \o a
  <2>6. t \in Seq(Bytes) /\ Len(t) <= Capacity /\ stream' = [ stream EXCEPT ![Other(e)] = t ]
    BY <2>2, <2>4, <2>5
  <2> HIDE DEF t
  <2>7. QED BY <1>1, <2>1, <2>2, <2>3, <2>6
<1>3. CASE ~ up
  <2>1. stream' = stream /\ \E left \in { bytes, <<>> } : out' = [ out EXCEPT ![e] = left ]
    BY <1>3 DEF Push
  <2>2. << >> \in Seq(Bytes)
    OBVIOUS
  <2>3. QED BY <1>1, <2>1, <2>2
<1>4. QED BY <1>2, <1>3

LEMMA ReceivesTypes ==
    ASSUME TypeOK, NEW e \in End, NEW type, type # "length", Receives(e, type)
    PROVE  /\ got' \in [ End -> Seq(Bytes) ] /\ received' \in [ End -> Seq(Message) ]
           /\ Incoming(e) \in Message /\ Incoming(e).type = type
           /\ Incoming(e) = got[e][LenBytes + 1].of
           /\ Len(got[e]) >= LenBytes + 1
<1>1. /\ got' = [ got EXCEPT ![e] = <<>> ]
      /\ received' = [ received EXCEPT ![e] = Append(@, Incoming(e)) ]
      /\ Decodes(e) /\ Incoming(e).type = type
  BY DEF Receives
<1>2. got[e] \in Seq(Bytes) /\ got \in [ End -> Seq(Bytes) ] /\ received \in [ End -> Seq(Message) ]
  BY DEF TypeOK
<1> DEFINE m == LenBytes + 1
           n == Len(got[e])
<1>3. m \in Int /\ n \in Int /\ m >= 1 /\ \A i \in m .. n : got[e][i] \in Bytes
  BY <1>2, Sizes
<1>4. Body(e) = SubSeq(got[e], m, n)
  BY DEF Body
<1> HIDE DEF m, n
<1>5. m <= n
  BY <1>1, <1>3, <1>4, SubSeqEmpty DEF Decodes
<1>6. /\ Len(Body(e)) = n - m + 1 /\ \A i \in 1 .. n - m + 1 : Body(e)[i] = got[e][m + i - 1]
  BY <1>3, <1>4, <1>5, SubSeqProperties
<1>7. Body(e)[1] = got[e][m]
  <2>1. 1 \in 1 .. n - m + 1 /\ m + 1 - 1 = m
    BY <1>3, <1>5
  <2>2. Body(e)[1] = got[e][m + 1 - 1]
    BY <1>6, <2>1
  <2>3. QED BY <2>1, <2>2
<1>8. got[e][m] \in Bytes
  BY <1>3, <1>5
<1>9. Incoming(e) \in Message
  <2>1. Incoming(e) \in Message \cup {LengthPrefix}
    BY <1>7, <1>8 DEF Incoming, Bytes
  <2>2. LengthPrefix.type = "length"
    BY DEF LengthPrefix, Msg
  <2>3. QED BY <1>1, <2>1, <2>2
<1>10. received' \in [ End -> Seq(Message) ]
  <2> DEFINE longer == Append(received[e], Incoming(e))
  <2>1. longer \in Seq(Message)
    BY <1>2, <1>9, AppendProperties
  <2>2. received' = [ received EXCEPT ![e] = longer ]
    BY <1>1
  <2> HIDE DEF longer
  <2>3. QED BY <1>2, <2>1, <2>2
<1>11. got' \in [ End -> Seq(Bytes) ]
  <2>1. << >> \in Seq(Bytes)
    OBVIOUS
  <2>2. QED BY <1>1, <1>2, <2>1
<1>12. QED BY <1>1, <1>5, <1>7, <1>9, <1>10, <1>11 DEF Incoming, m, n

\* The parts of TypeOK.
PlainOK ==
    /\ height \in [ End -> 0 .. MaxHeight ]
    /\ pc \in [ End -> Label ]
    /\ offer \in [ End -> 0 .. MaxHeight ]
    /\ up \in BOOLEAN /\ cut \in BOOLEAN
    /\ guard \in [ End -> BOOLEAN ]

BytesOK ==
    /\ out \in [ End -> Seq(Bytes) ] /\ got \in [ End -> Seq(Bytes) ]
    /\ stream \in [ End -> Seq(Bytes) ]
    /\ \A e \in End : Len(stream[e]) <= Capacity

QueuesOK ==
    /\ waiters \in [ End -> Seq(Waiter) ]
    /\ \A e \in End : \A i, j \in DOMAIN waiters[e] : waiters[e][i] = waiters[e][j] => i = j

LogsOK == sent \in [ End -> Seq(Message) ] /\ received \in [ End -> Seq(Message) ]

LEMMA TypeParts ==
    /\ TypeOK <=> PlainOK /\ BytesOK /\ QueuesOK /\ LogsOK
    /\ TypeOK' <=> PlainOK' /\ BytesOK' /\ QueuesOK' /\ LogsOK'
<1>1. TypeOK <=> PlainOK /\ BytesOK /\ QueuesOK /\ LogsOK
  BY DEF TypeOK, PlainOK, BytesOK, QueuesOK, LogsOK, Waiter
<1>2. TypeOK' <=> PlainOK' /\ BytesOK' /\ QueuesOK' /\ LogsOK'
  BY DEF TypeOK, PlainOK, BytesOK, QueuesOK, LogsOK, Waiter
<1>3. QED BY <1>1, <1>2

LEMMA SendTypes ==
    ASSUME TypeOK, NEW e \in End, NEW m \in Message, NEW label \in Label, Send(e, m, label),
           got' \in [ End -> Seq(Bytes) ], received' \in [ End -> Seq(Message) ]
    PROVE  BytesOK' /\ LogsOK' /\ pc' \in [ End -> Label ] /\ pc' = [ pc EXCEPT ![e] = label ]
<1>1. ToBytes(m) \in Seq(Bytes)
  BY FrameFacts
<1>2. BytesOK'
  BY <1>1, PushTypes DEF Send, BytesOK
<1>3. LogsOK'
  <2> DEFINE longer == Append(sent[e], m)
  <2>1. sent[e] \in Seq(Message) /\ sent \in [ End -> Seq(Message) ]
    BY DEF TypeOK
  <2>2. longer \in Seq(Message)
    BY <2>1, AppendProperties
  <2>3. sent' = [ sent EXCEPT ![e] = longer ]
    BY DEF Send
  <2> HIDE DEF longer
  <2>4. QED BY <2>1, <2>2, <2>3 DEF LogsOK
<1>4. QED BY <1>2, <1>3 DEF Send, Goto, TypeOK

(* A beginning of what is on its way.                                       *)
LEMMA DownFacts ==
    ASSUME TypeOK, Down
    PROVE  /\ stream' \in [ End -> Seq(Bytes) ]
           /\ up' = FALSE
           /\ \A e \in End : /\ Len(stream'[e]) <= Len(stream[e])
                             /\ \A i \in 1 .. Len(stream'[e]) : stream'[e][i] = stream[e][i]
<1>1. PICK n \in Kept :
          stream' = [ e \in End |-> SubSeq(stream[e], 1, IF e \in Late THEN Least(n, Len(stream[e])) ELSE 0) ]
  BY DEF Down
<1>2. ASSUME NEW e \in End
      PROVE  /\ stream'[e] \in Seq(Bytes) /\ Len(stream'[e]) <= Len(stream[e])
             /\ \A i \in 1 .. Len(stream'[e]) : stream'[e][i] = stream[e][i]
  <2> DEFINE k == IF e \in Late THEN Least(n, Len(stream[e])) ELSE 0
             s == stream[e]
  <2>1. s \in Seq(Bytes) /\ Len(s) \in Nat
    BY DEF TypeOK
  <2>2. n \in Nat
    BY ConnectionAssumption
  <2>3. k \in 0 .. Len(s)
    BY <2>1, <2>2 DEF Least
  <2>4. stream'[e] = SubSeq(s, 1, k)
    BY <1>1
  <2> HIDE DEF k, s
  <2>5. stream'[e] \in Seq(Bytes) /\ Len(stream'[e]) = k /\ \A i \in 1 .. k : stream'[e][i] = s[i]
    BY <2>1, <2>3, <2>4, Split
  <2>6. QED BY <2>3, <2>5 DEF s
<1>3. stream' \in [ End -> Seq(Bytes) ]
  <2>1. stream' = [ e \in End |-> stream'[e] ]
    BY <1>1
  <2>2. QED BY <1>2, <2>1
<1>4. up' = FALSE
  BY DEF Down
<1>5. QED BY <1>2, <1>3, <1>4

LEMMA DownTypes ==
    ASSUME TypeOK, Down, out' \in [ End -> Seq(Bytes) ], got' \in [ End -> Seq(Bytes) ]
    PROVE  BytesOK'
<1>1. \A e \in End : Len(stream'[e]) \in Nat /\ Len(stream[e]) \in Nat
  BY DownFacts DEF TypeOK
<1>2. \A e \in End : Len(stream'[e]) <= Len(stream[e]) /\ Len(stream[e]) <= Capacity
  BY DownFacts DEF TypeOK
<1>3. QED BY <1>1, <1>2, DownFacts, Sizes DEF BytesOK

LEMMA AsksTypes ==
    ASSUME TypeOK, NEW e \in End, NEW who \in Waiter, Asks(e, who),
           \A i \in 1 .. Len(waiters[e]) : waiters[e][i] # who
    PROVE  /\ QueuesOK'
           /\ \A f \in End : \A i \in 1 .. Len(waiters'[f]) :
                 waiters'[f][i] = "handler" =>
                     \/ f = e /\ who = "handler"
                     \/ \E j \in 1 .. Len(waiters[f]) : waiters[f][j] = "handler"
<1> DEFINE w == waiters[e]
           longer == Append(w, who)
<1>1. QueuesOK
  BY TypeParts
<1>2. waiters \in [ End -> Seq(Waiter) ] /\ w \in Seq(Waiter) /\ Len(w) \in Nat
  BY <1>1 DEF QueuesOK
<1>3. \A i, j \in 1 .. Len(w) : w[i] = w[j] => i = j
  <2>1. DOMAIN w = 1 .. Len(w)
    BY <1>2
  <2>2. QED BY <1>1, <2>1 DEF QueuesOK
<1>4. waiters' = [ waiters EXCEPT ![e] = longer ]
  BY DEF Asks
<1>5. \A i \in 1 .. Len(w) : w[i] # who
  OBVIOUS
<1> HIDE DEF w
<1>6. /\ longer \in Seq(Waiter) /\ Len(longer) = Len(w) + 1 /\ longer[Len(w) + 1] = who
      /\ \A i \in 1 .. Len(w) : longer[i] = w[i]
  BY <1>2, AppendProperties
<1> HIDE DEF longer
<1>7. \A i, j \in 1 .. Len(longer) : longer[i] = longer[j] => i = j
  <2> SUFFICES ASSUME NEW i \in 1 .. Len(longer), NEW j \in 1 .. Len(longer), longer[i] = longer[j]
               PROVE  i = j
    OBVIOUS
  <2>1. (i \in 1 .. Len(w) \/ i = Len(w) + 1) /\ (j \in 1 .. Len(w) \/ j = Len(w) + 1)
    BY <1>2, <1>6
  <2>2. QED BY <1>3, <1>5, <1>6, <2>1
<1>8. DOMAIN longer = 1 .. Len(longer)
  BY <1>6
<1>9. waiters'[e] = longer /\ \A f \in End : f # e => waiters'[f] = waiters[f]
  BY <1>2, <1>4
<1>10. waiters' \in [ End -> Seq(Waiter) ]
  BY <1>2, <1>4, <1>6
<1>11. QueuesOK'
  <2> SUFFICES ASSUME NEW f \in End, NEW i \in DOMAIN waiters'[f], NEW j \in DOMAIN waiters'[f],
                      waiters'[f][i] = waiters'[f][j]
               PROVE  i = j
    BY <1>10 DEF QueuesOK
  <2>1. CASE f = e
    BY <1>7, <1>8, <1>9, <2>1
  <2>2. CASE f # e
    BY <1>1, <1>9, <2>2 DEF QueuesOK
  <2>3. QED BY <2>1, <2>2
<1>12. ASSUME NEW f \in End, NEW i \in 1 .. Len(waiters'[f]), waiters'[f][i] = "handler"
       PROVE  \/ f = e /\ who = "handler"
              \/ \E j \in 1 .. Len(waiters[f]) : waiters[f][j] = "handler"
  <2>1. CASE f = e
    <3>1. i \in 1 .. Len(w) \/ i = Len(w) + 1
      BY <1>2, <1>6, <1>9, <2>1
    <3>2. QED BY <1>6, <1>9, <1>12, <2>1, <3>1 DEF w
  <2>2. CASE f # e
    BY <1>9, <1>12, <2>2
  <2>3. QED BY <2>1, <2>2
<1>13. QED BY <1>11, <1>12

LEMMA ReadsTypes ==
    ASSUME TypeOK, NEW e \in End, NEW who, Reads(e, who)
    PROVE  /\ QueuesOK'
           /\ \A f \in End : \A i \in 1 .. Len(waiters'[f]) :
                 waiters'[f][i] = "handler" =>
                     /\ ~ (f = e /\ who = "handler")
                     /\ \E j \in 1 .. Len(waiters[f]) : waiters[f][j] = "handler"
<1> DEFINE w == waiters[e]
           rest == Tail(w)
<1>1. QueuesOK
  BY TypeParts
<1>2. waiters \in [ End -> Seq(Waiter) ] /\ w \in Seq(Waiter) /\ Len(w) \in Nat
  BY <1>1 DEF QueuesOK
<1>3. \A i, j \in 1 .. Len(w) : w[i] = w[j] => i = j
  <2>1. DOMAIN w = 1 .. Len(w)
    BY <1>2
  <2>2. QED BY <1>1, <2>1 DEF QueuesOK
<1>4. waiters' = [ waiters EXCEPT ![e] = rest ] /\ w # << >> /\ Head(w) = who
  BY DEF Reads, Served
<1> HIDE DEF w
<1>5. /\ rest \in Seq(Waiter) /\ Len(rest) = Len(w) - 1 /\ Len(rest) \in Nat
      /\ \A i \in 1 .. Len(rest) : rest[i] = w[i + 1]
  BY <1>2, <1>4, HeadTailProperties
<1>6. w[1] = who /\ 1 \in 1 .. Len(w)
  BY <1>2, <1>4
<1> HIDE DEF rest
<1>7. \A i \in 1 .. Len(rest) : i + 1 \in 1 .. Len(w) /\ i + 1 # 1
  BY <1>2, <1>5
<1>8. \A i, j \in 1 .. Len(rest) : rest[i] = rest[j] => i = j
  <2> SUFFICES ASSUME NEW i \in 1 .. Len(rest), NEW j \in 1 .. Len(rest), rest[i] = rest[j]
               PROVE  i = j
    OBVIOUS
  <2>1. i + 1 = j + 1
    BY <1>3, <1>5, <1>7
  <2>2. QED BY <2>1
<1>9. \A i \in 1 .. Len(rest) : rest[i] # who
  BY <1>3, <1>5, <1>6, <1>7
<1>10. DOMAIN rest = 1 .. Len(rest)
  BY <1>5
<1>11. waiters'[e] = rest /\ \A f \in End : f # e => waiters'[f] = waiters[f]
  BY <1>2, <1>4
<1>12. waiters' \in [ End -> Seq(Waiter) ]
  BY <1>2, <1>4, <1>5
<1>13. QueuesOK'
  <2> SUFFICES ASSUME NEW f \in End, NEW i \in DOMAIN waiters'[f], NEW j \in DOMAIN waiters'[f],
                      waiters'[f][i] = waiters'[f][j]
               PROVE  i = j
    BY <1>12 DEF QueuesOK
  <2>1. CASE f = e
    BY <1>8, <1>10, <1>11, <2>1
  <2>2. CASE f # e
    BY <1>1, <1>11, <2>2 DEF QueuesOK
  <2>3. QED BY <2>1, <2>2
<1>14. ASSUME NEW f \in End, NEW i \in 1 .. Len(waiters'[f]), waiters'[f][i] = "handler"
       PROVE  /\ ~ (f = e /\ who = "handler")
              /\ \E j \in 1 .. Len(waiters[f]) : waiters[f][j] = "handler"
  <2>1. CASE f = e
    <3>1. i \in 1 .. Len(rest) /\ rest[i] = "handler"
      BY <1>11, <1>14, <2>1
    <3>2. who # "handler" /\ w[i + 1] = "handler" /\ i + 1 \in 1 .. Len(w)
      BY <1>5, <1>7, <1>9, <3>1
    <3>3. QED BY <2>1, <3>2 DEF w
  <2>2. CASE f # e
    BY <1>11, <1>14, <2>2
  <2>3. QED BY <2>1, <2>2
<1>15. QED BY <1>13, <1>14

WaitLabel == { "enter", "share", "filter", "leave" }

LEMMA TypeFromParts ==
    ASSUME PlainOK', BytesOK', QueuesOK', LogsOK', \A f \in End : HandlerWaits(f)'
    PROVE  TypeInv'
BY TypeParts DEF TypeInv

(* A handler that leaves a place where it does not wait is in no queue.     *)
LEMMA StaysOut ==
    ASSUME TypeInv, UNCHANGED waiters,
           \A f \in End : pc'[f] = pc[f] \/ pc[f] \notin WaitLabel
    PROVE  QueuesOK' /\ \A f \in End : HandlerWaits(f)'
<1>1. QueuesOK'
  BY TypeParts DEF TypeInv, QueuesOK
<1>2. \A f \in End : HandlerWaits(f)'
  BY DEF TypeInv, HandlerWaits, WaitLabel
<1>3. QED BY <1>1, <1>2

(* One that asks goes where it waits.                                       *)
LEMMA GoesToWait ==
    ASSUME TypeInv, NEW e \in End, pc[e] \notin WaitLabel, Asks(e, "handler"),
           pc' \in [ End -> Label ], pc'[e] \in WaitLabel,
           \A f \in End : f # e => pc'[f] = pc[f]
    PROVE  QueuesOK' /\ \A f \in End : HandlerWaits(f)'
<1>1. \A i \in 1 .. Len(waiters[e]) : waiters[e][i] # "handler"
  BY DEF TypeInv, HandlerWaits, WaitLabel
<1>2. TypeOK /\ "handler" \in Waiter
  BY DEF TypeInv, Waiter
<1>3. /\ QueuesOK'
      /\ \A f \in End : \A i \in 1 .. Len(waiters'[f]) :
            waiters'[f][i] = "handler" =>
                f = e \/ \E j \in 1 .. Len(waiters[f]) : waiters[f][j] = "handler"
  BY <1>1, <1>2, AsksTypes
<1>4. ASSUME NEW f \in End, NEW i \in 1 .. Len(waiters'[f]), waiters'[f][i] = "handler"
      PROVE  pc'[f] \in WaitLabel
  <2>1. CASE f = e
    BY <2>1
  <2>2. CASE f # e
    <3>1. \E j \in 1 .. Len(waiters[f]) : waiters[f][j] = "handler"
      BY <1>3, <1>4, <2>2
    <3>2. pc[f] \in WaitLabel
      BY <3>1 DEF TypeInv, HandlerWaits, WaitLabel
    <3>3. QED BY <2>2, <3>2
  <2>3. QED BY <2>1, <2>2
<1>5. QED BY <1>3, <1>4 DEF HandlerWaits, WaitLabel

(* One that is served goes on.                                              *)
LEMMA GoesOn ==
    ASSUME TypeInv, NEW e \in End, Reads(e, "handler"),
           \A f \in End : f # e => pc'[f] = pc[f]
    PROVE  QueuesOK' /\ \A f \in End : HandlerWaits(f)'
<1>1. /\ QueuesOK'
      /\ \A f \in End : \A i \in 1 .. Len(waiters'[f]) :
            waiters'[f][i] = "handler" =>
                f # e /\ \E j \in 1 .. Len(waiters[f]) : waiters[f][j] = "handler"
  BY ReadsTypes DEF TypeInv
<1>2. ASSUME NEW f \in End, NEW i \in 1 .. Len(waiters'[f]), waiters'[f][i] = "handler"
      PROVE  pc'[f] \in WaitLabel
  <2>1. f # e /\ \E j \in 1 .. Len(waiters[f]) : waiters[f][j] = "handler"
    BY <1>1, <1>2
  <2>2. pc[f] \in WaitLabel
    BY <2>1 DEF TypeInv, HandlerWaits, WaitLabel
  <2>3. QED BY <2>1, <2>2
<1>3. QED BY <1>1, <1>2 DEF HandlerWaits, WaitLabel

LEMMA TypeInit == Init => TypeInv
<1> SUFFICES ASSUME Init PROVE TypeInv
  OBVIOUS
<1>1. PlainOK
  <2>1. 0 \in 0 .. MaxHeight
    BY Sizes
  <2>2. height \in [ End -> 0 .. MaxHeight ] /\ up \in BOOLEAN /\ cut \in BOOLEAN
    BY DEF Init
  <2>3. offer \in [ End -> 0 .. MaxHeight ]
    BY <2>1 DEF Init
  <2>4. pc \in [ End -> Label ] /\ guard \in [ End -> BOOLEAN ]
    BY DEF Init, Label
  <2>5. QED BY <2>2, <2>3, <2>4 DEF PlainOK
<1>2. BytesOK
  BY Sizes DEF Init, BytesOK
<1>3. QueuesOK
  BY DEF Init, QueuesOK, Waiter
<1>4. LogsOK
  BY DEF Init, LogsOK
<1>5. \A e \in End : HandlerWaits(e)
  BY DEF Init, HandlerWaits
<1>6. QED BY <1>1, <1>2, <1>3, <1>4, <1>5, TypeParts DEF TypeInv

(* The steps that send or receive nothing.                                  *)
LEMMA QuietTypes ==
    ASSUME TypeInv, NEW e \in End,
           \/ Enter(e) \/ StartLoop(e) \/ DropGuard(e) \/ FilterPeers(e) \/ Grow(e)
           \/ \E who \in Readers \cup Writers : TableWanted(e, who) \/ TableUsed(e, who)
    PROVE  TypeInv'
<1>1. PlainOK /\ BytesOK /\ QueuesOK /\ LogsOK /\ TypeOK
  BY TypeParts DEF TypeInv
<1>2. CASE Enter(e)
  <2>1. PlainOK' /\ BytesOK' /\ LogsOK'
    BY <1>1, <1>2 DEF Enter, Goto, wire, history, PlainOK, BytesOK, LogsOK, Label
  <2>2. QueuesOK' /\ \A f \in End : HandlerWaits(f)'
    <3>1. Reads(e, "handler") /\ \A f \in End : f # e => pc'[f] = pc[f]
      BY <1>1, <1>2 DEF Enter, Goto, Writes, PlainOK
    <3>2. QED BY <3>1, GoesOn
  <2>3. QED BY <2>1, <2>2, TypeFromParts
<1>3. CASE StartLoop(e)
  <2>1. PlainOK' /\ BytesOK' /\ LogsOK'
    BY <1>1, <1>3 DEF StartLoop, Goto, wire, lock, history, PlainOK, BytesOK, LogsOK, Label
  <2>2. QueuesOK' /\ \A f \in End : HandlerWaits(f)'
    BY <1>1, <1>3, StaysOut DEF StartLoop, Goto, lock, PlainOK, WaitLabel
  <2>3. QED BY <2>1, <2>2, TypeFromParts
<1>4. CASE DropGuard(e)
  <2>1. PlainOK' /\ BytesOK' /\ LogsOK'
    BY <1>1, <1>4 DEF DropGuard, Goto, wire, history, PlainOK, BytesOK, LogsOK, Label
  <2>2. QueuesOK' /\ \A f \in End : HandlerWaits(f)'
    BY <1>1, <1>4, StaysOut DEF DropGuard, Goto, PlainOK, WaitLabel
  <2>3. QED BY <2>1, <2>2, TypeFromParts
<1>5. CASE FilterPeers(e)
  <2>1. PlainOK' /\ BytesOK' /\ LogsOK'
    BY <1>1, <1>5 DEF FilterPeers, Goto, wire, history, PlainOK, BytesOK, LogsOK, Label
  <2>2. QueuesOK' /\ \A f \in End : HandlerWaits(f)'
    BY <1>1, <1>5, GoesOn DEF FilterPeers, Goto, PlainOK
  <2>3. QED BY <2>1, <2>2, TypeFromParts
<1>6. CASE Grow(e)
  <2>1. PlainOK' /\ BytesOK' /\ LogsOK'
    BY <1>1, <1>6, Sizes DEF Grow, handler, wire, lock, history, PlainOK, BytesOK, LogsOK
  <2>2. QueuesOK' /\ \A f \in End : HandlerWaits(f)'
    BY <1>1, <1>6, StaysOut DEF Grow, handler, lock
  <2>3. QED BY <2>1, <2>2, TypeFromParts
<1>7. ASSUME NEW who \in Readers \cup Writers, TableWanted(e, who) PROVE TypeInv'
  <2>1. PlainOK' /\ BytesOK' /\ LogsOK' /\ UNCHANGED pc
    BY <1>1, <1>7 DEF TableWanted, handler, wire, history, PlainOK, BytesOK, LogsOK
  <2>2. who \in Waiter /\ who # "handler"
    BY ConnectionAssumption DEF Waiter
  <2>3. \A i \in 1 .. Len(waiters[e]) : waiters[e][i] # who
    <3>1. waiters[e] \in Seq(Waiter)
      BY <1>1 DEF QueuesOK
    <3>2. DOMAIN waiters[e] = 1 .. Len(waiters[e])
      BY <3>1
    <3>3. who \notin ToSet(waiters[e])
      BY <1>7 DEF TableWanted
    <3>4. QED BY <3>2, <3>3 DEF ToSet
  <2>4. /\ QueuesOK'
        /\ \A f \in End : \A i \in 1 .. Len(waiters'[f]) :
              waiters'[f][i] = "handler" =>
                  \E j \in 1 .. Len(waiters[f]) : waiters[f][j] = "handler"
    BY <1>1, <1>7, <2>2, <2>3, AsksTypes DEF TableWanted
  <2>5. \A f \in End : HandlerWaits(f)'
    BY <2>1, <2>4 DEF TypeInv, HandlerWaits
  <2>6. QED BY <2>1, <2>4, <2>5, TypeFromParts
<1>8. ASSUME NEW who \in Readers \cup Writers, TableUsed(e, who) PROVE TypeInv'
  <2>1. PlainOK' /\ BytesOK' /\ LogsOK' /\ UNCHANGED pc
    BY <1>1, <1>8 DEF TableUsed, handler, wire, history, PlainOK, BytesOK, LogsOK
  <2>2. Reads(e, who)
    BY <1>8 DEF TableUsed, Writes
  <2>3. /\ QueuesOK'
        /\ \A f \in End : \A i \in 1 .. Len(waiters'[f]) :
              waiters'[f][i] = "handler" =>
                  \E j \in 1 .. Len(waiters[f]) : waiters[f][j] = "handler"
    BY <1>1, <2>2, ReadsTypes
  <2>4. \A f \in End : HandlerWaits(f)'
    BY <2>1, <2>3 DEF TypeInv, HandlerWaits
  <2>5. QED BY <2>1, <2>3, <2>4, TypeFromParts
<1>9. QED BY <1>2, <1>3, <1>4, <1>5, <1>6, <1>7, <1>8

(* A length prefix holds a number.                                          *)
LEMMA LengthIsNumber ==
    ASSUME NEW bytes \in Seq(Bytes), Len(bytes) >= LenBytes
    PROVE  LengthIn(bytes) \in Nat
<1>1. PICK n : /\ LengthIn(bytes) = n[LenBytes] /\ n[0] = 0
               /\ \A i \in 1 .. LenBytes : n[i] = Base * n[i - 1] + bytes[i].value
  BY LengthUnfolds
<1>2. \A i \in 1 .. LenBytes : bytes[i].value \in Nat
  <2>1. \A i \in 1 .. LenBytes : bytes[i] \in Bytes
    BY Sizes
  <2>2. QED BY <2>1, Sizes DEF Bytes
<1> DEFINE Odd == { i \in 0 .. LenBytes : n[i] \notin Nat }
<1>3. Odd = {}
  <2> SUFFICES ASSUME Odd # {} PROVE FALSE
    OBVIOUS
  <2>1. Odd \in SUBSET Nat
    BY Sizes
  <2>2. PICK i \in Odd : \A k \in Odd : i <= k
    BY <2>1, LeastNatural
  <2>3. i \in 1 .. LenBytes
    BY <1>1, <2>2, Sizes
  <2>4. i - 1 \in 0 .. LenBytes /\ i - 1 \notin Odd
    BY <2>2, <2>3, Sizes
  <2>5. n[i - 1] \in Nat /\ bytes[i].value \in Nat
    BY <1>2, <2>3, <2>4
  <2>6. \A x, d \in Nat : Base * x + d \in Nat
    BY Sizes
  <2>7. QED BY <1>1, <2>2, <2>3, <2>5, <2>6
<1>4. QED BY <1>1, <1>3, Sizes

(* A read takes a beginning of what is on its way.                          *)
LEMMA ReadFacts ==
    ASSUME TypeOK, NEW e \in End, Read(e)
    PROVE  \E a, b \in Seq(Bytes) :
               /\ stream[e] = a \o b /\ Len(b) <= Len(stream[e])
               /\ got' = [ got EXCEPT ![e] = got[e] \o a ]
               /\ stream' = [ stream EXCEPT ![e] = b ]
<1>1. PICK k \in 1 .. Least(Missing(e), Len(stream[e])) :
          /\ got' = [ got EXCEPT ![e] = got[e] \o SubSeq(stream[e], 1, k) ]
          /\ stream' = [ stream EXCEPT ![e] = SubSeq(stream[e], k + 1, Len(stream[e])) ]
  BY DEF Read
<1>2. got[e] \in Seq(Bytes) /\ stream[e] \in Seq(Bytes)
  BY DEF TypeOK
<1>3. Missing(e) \in Int
  BY <1>2, LengthIsNumber, Sizes DEF Missing, HeaderRead
<1>4. k \in 0 .. Len(stream[e])
  BY <1>2, <1>3 DEF Least
<1> DEFINE a == SubSeq(stream[e], 1, k)
           b == SubSeq(stream[e], k + 1, Len(stream[e]))
<1>5. a \in Seq(Bytes) /\ b \in Seq(Bytes) /\ a \o b = stream[e] /\ Len(b) = Len(stream[e]) - k
  BY <1>2, <1>4, Split
<1>6. got' = [ got EXCEPT ![e] = got[e] \o a ] /\ stream' = [ stream EXCEPT ![e] = b ]
  BY <1>1
<1>7. Len(b) <= Len(stream[e])
  BY <1>2, <1>4, <1>5
<1> HIDE DEF a, b
<1>8. QED BY <1>5, <1>6, <1>7

(* Reads and writes of the socket, and its end.                             *)
LEMMA SocketTypes ==
    ASSUME TypeInv, NEW e \in End,
           Write(e) \/ Read(e) \/ Cut \/ GreetingFails(e) \/ LoopFails(e) \/ Leave(e)
    PROVE  TypeInv'
<1>1. PlainOK /\ BytesOK /\ QueuesOK /\ LogsOK /\ TypeOK
  BY TypeParts DEF TypeInv
<1>2. CASE Write(e)
  <2>1. PlainOK' /\ LogsOK'
    BY <1>1, <1>2 DEF Write, lock, history, PlainOK, LogsOK
  <2>2. BytesOK'
    <3>1. out[e] \in Seq(Bytes)
      BY <1>1 DEF BytesOK
    <3>2. QED BY <1>1, <1>2, <3>1, PushTypes DEF Write, BytesOK
  <2>3. QueuesOK' /\ \A f \in End : HandlerWaits(f)'
    BY <1>1, <1>2, StaysOut DEF Write, lock
  <2>4. QED BY <2>1, <2>2, <2>3, TypeFromParts
<1>3. CASE Read(e)
  <2>1. PlainOK' /\ LogsOK' /\ UNCHANGED out
    BY <1>1, <1>3 DEF Read, lock, history, PlainOK, LogsOK
  <2>2. PICK a, b \in Seq(Bytes) :
            /\ stream[e] = a \o b /\ Len(b) <= Len(stream[e])
            /\ got' = [ got EXCEPT ![e] = got[e] \o a ]
            /\ stream' = [ stream EXCEPT ![e] = b ]
    BY <1>1, <1>3, ReadFacts
  <2>3. BytesOK'
    <3> DEFINE g == got[e] \o a
    <3>1. got[e] \in Seq(Bytes)
      BY <1>1 DEF BytesOK
    <3>2. g \in Seq(Bytes)
      BY <3>1, ConcatProperties
    <3>3. got' = [ got EXCEPT ![e] = g ]
      BY <2>2
    <3> HIDE DEF g
    <3>4. Len(stream[e]) \in Nat /\ Len(stream[e]) <= Capacity /\ Len(b) \in Nat
      BY <1>1 DEF BytesOK
    <3>5. Len(b) <= Capacity
      BY <2>2, <3>4, Sizes
    <3>6. QED BY <1>1, <2>1, <2>2, <3>2, <3>3, <3>5 DEF BytesOK
  <2>4. QueuesOK' /\ \A f \in End : HandlerWaits(f)'
    BY <1>1, <1>3, StaysOut DEF Read, lock
  <2>5. QED BY <2>1, <2>3, <2>4, TypeFromParts
<1>4. CASE Cut
  <2>1. PlainOK' /\ LogsOK'
    BY <1>1, <1>4, DownFacts DEF Cut, handler, lock, history, PlainOK, LogsOK
  <2>2. BytesOK'
    BY <1>1, <1>4, DownTypes DEF Cut, handler, BytesOK
  <2>3. QueuesOK' /\ \A f \in End : HandlerWaits(f)'
    BY <1>1, <1>4, StaysOut DEF Cut, handler, lock
  <2>4. QED BY <2>1, <2>2, <2>3, TypeFromParts
<1>5. << >> \in Seq(Bytes)
  OBVIOUS
<1>6. CASE GreetingFails(e)
  <2>1. PlainOK' /\ LogsOK' /\ BytesOK'
    <3>1. out' \in [ End -> Seq(Bytes) ] /\ got' \in [ End -> Seq(Bytes) ]
      BY <1>1, <1>5, <1>6 DEF GreetingFails, BytesOK
    <3>2. BytesOK'
      BY <1>1, <1>6, <3>1, DownTypes DEF GreetingFails, Return, BytesOK
    <3>3. up' \in BOOLEAN
      BY <1>1, <1>6, DownFacts DEF GreetingFails, Return, PlainOK
    <3>4. PlainOK' /\ LogsOK'
      BY <1>1, <1>6, <3>3 DEF GreetingFails, Return, Goto, lock, history, PlainOK, LogsOK, Label
    <3>5. QED BY <3>2, <3>4
  <2>2. QueuesOK' /\ \A f \in End : HandlerWaits(f)'
    BY <1>1, <1>6, StaysOut DEF GreetingFails, Return, Goto, lock, PlainOK, WaitLabel
  <2>3. QED BY <2>1, <2>2, TypeFromParts
<1>7. CASE LoopFails(e)
  <2>1. BytesOK'
    BY <1>1, <1>5, <1>7 DEF LoopFails, wire, BytesOK
  <2>2. PlainOK' /\ LogsOK'
    BY <1>1, <1>7 DEF LoopFails, Goto, wire, history, PlainOK, LogsOK, Label
  <2>3. QueuesOK' /\ \A f \in End : HandlerWaits(f)'
    <3>1. pc[e] \notin WaitLabel /\ pc'[e] \in WaitLabel /\ \A f \in End : f # e => pc'[f] = pc[f]
      BY <1>1, <1>7 DEF LoopFails, Goto, PlainOK, WaitLabel
    <3>2. QED BY <1>7, <2>2, <3>1, GoesToWait DEF LoopFails, PlainOK
  <2>4. QED BY <2>1, <2>2, <2>3, TypeFromParts
<1>8. CASE Leave(e)
  <2>1. out' \in [ End -> Seq(Bytes) ] /\ got' \in [ End -> Seq(Bytes) ]
    BY <1>1, <1>8 DEF Leave, BytesOK
  <2>2. BytesOK'
    BY <1>1, <1>8, <2>1, DownTypes DEF Leave, Return, BytesOK
  <2>3. up' \in BOOLEAN
    BY <1>1, <1>8, DownFacts DEF Leave, Return, PlainOK
  <2>4. PlainOK' /\ LogsOK'
    BY <1>1, <1>8, <2>3 DEF Leave, Return, Goto, history, PlainOK, LogsOK, Label
  <2>5. QueuesOK' /\ \A f \in End : HandlerWaits(f)'
    BY <1>1, <1>8, GoesOn DEF Leave, Return, Goto, Writes, PlainOK
  <2>6. QED BY <2>2, <2>4, <2>5, TypeFromParts
<1>9. QED BY <1>2, <1>3, <1>4, <1>6, <1>7, <1>8

(* The steps that send or receive a message.                                *)
LEMMA MessageTypes ==
    ASSUME TypeInv, NEW e \in End,
           \/ SendVersion(e) \/ SendGetPeers(e) \/ OnVersion(e) \/ Compare(e) \/ OnVerAck(e)
           \/ OnGetBlocks(e) \/ OnBlocks(e) \/ OnGetPeers(e) \/ SharePeers(e) \/ OnPeers(e)
    PROVE  TypeInv'
<1>1. PlainOK /\ BytesOK /\ QueuesOK /\ LogsOK /\ TypeOK
  BY TypeParts DEF TypeInv
<1>2. got \in [ End -> Seq(Bytes) ] /\ received \in [ End -> Seq(Message) ]
  BY <1>1 DEF BytesOK, LogsOK
<1>3. height[e] \in 0 .. MaxHeight /\ 0 \in 0 .. MaxHeight
  BY <1>1, Sizes DEF PlainOK
<1>4. CASE SendVersion(e)
  <2> DEFINE m == Version(height[e])
  <2>1. m \in Message /\ "introduce" \in Label
    BY <1>3, SmallMessages DEF Label
  <2>2. Send(e, m, "introduce") /\ UNCHANGED <<height, offer, got, up, cut, lock, received>> /\ pc[e] = "greet"
    BY <1>4 DEF SendVersion
  <2> HIDE DEF m
  <2>3. BytesOK' /\ LogsOK' /\ pc' \in [ End -> Label ] /\ pc' = [ pc EXCEPT ![e] = "introduce" ]
    BY <1>1, <1>2, <2>1, <2>2, SendTypes
  <2>4. PlainOK'
    BY <1>1, <2>2, <2>3 DEF PlainOK, lock
  <2>5. QueuesOK' /\ \A f \in End : HandlerWaits(f)'
    BY <1>1, <2>2, <2>3, StaysOut DEF lock, PlainOK, WaitLabel
  <2>6. QED BY <2>3, <2>4, <2>5, TypeFromParts
<1>5. CASE SendGetPeers(e)
  <2>1. GetPeers \in Message /\ "greeted" \in Label
    BY SmallMessages DEF Label
  <2>2. Send(e, GetPeers, "greeted") /\ UNCHANGED <<height, offer, got, up, cut, lock, received>> /\ pc[e] = "introduce"
    BY <1>5 DEF SendGetPeers
  <2>3. BytesOK' /\ LogsOK' /\ pc' \in [ End -> Label ] /\ pc' = [ pc EXCEPT ![e] = "greeted" ]
    BY <1>1, <1>2, <2>1, <2>2, SendTypes
  <2>4. PlainOK'
    BY <1>1, <2>2, <2>3 DEF PlainOK, lock
  <2>5. QueuesOK' /\ \A f \in End : HandlerWaits(f)'
    BY <1>1, <2>2, <2>3, StaysOut DEF lock, PlainOK, WaitLabel
  <2>6. QED BY <2>3, <2>4, <2>5, TypeFromParts
<1>6. ASSUME NEW type, type # "length", Receives(e, type)
      PROVE  /\ got' \in [ End -> Seq(Bytes) ] /\ received' \in [ End -> Seq(Message) ]
             /\ Incoming(e) \in Message /\ Incoming(e).height \in 0 .. MaxHeight /\ pc[e] = "loop"
  <2>1. /\ got' \in [ End -> Seq(Bytes) ] /\ received' \in [ End -> Seq(Message) ]
        /\ Incoming(e) \in Message
    BY <1>1, <1>6, ReceivesTypes
  <2>2. pc[e] = "loop"
    BY <1>6 DEF Receives
  <2> DEFINE m == Incoming(e)
  <2>3. m \in Message
    BY <2>1
  <2> HIDE DEF m
  <2>4. m.height \in 0 .. MaxHeight
    BY <2>3, MessageFacts
  <2>5. QED BY <2>1, <2>2, <2>4 DEF m
<1>7. CASE OnVersion(e)
  <2>1. VerAck \in Message /\ "compare" \in Label
    BY SmallMessages DEF Label
  <2>2. /\ got' \in [ End -> Seq(Bytes) ] /\ received' \in [ End -> Seq(Message) ]
        /\ Incoming(e).height \in 0 .. MaxHeight /\ pc[e] = "loop"
    BY <1>6, <1>7 DEF OnVersion
  <2>3. /\ Send(e, VerAck, "compare") /\ UNCHANGED <<height, up, cut, lock>>
        /\ offer' = [ offer EXCEPT ![e] = Incoming(e).height ]
    BY <1>7 DEF OnVersion
  <2>4. BytesOK' /\ LogsOK' /\ pc' \in [ End -> Label ] /\ pc' = [ pc EXCEPT ![e] = "compare" ]
    BY <1>1, <2>1, <2>2, <2>3, SendTypes
  <2>5. PlainOK'
    <3>1. offer' \in [ End -> 0 .. MaxHeight ]
      BY <1>1, <2>2, <2>3 DEF PlainOK
    <3>2. QED BY <1>1, <2>3, <2>4, <3>1 DEF PlainOK, lock
  <2>6. QueuesOK' /\ \A f \in End : HandlerWaits(f)'
    BY <1>1, <2>2, <2>3, <2>4, StaysOut DEF lock, PlainOK, WaitLabel
  <2>7. QED BY <2>4, <2>5, <2>6, TypeFromParts
<1>8. CASE Compare(e)
  <2>1. /\ pc[e] = "compare" /\ UNCHANGED <<height, got, up, cut, lock, received>>
        /\ offer' = [ offer EXCEPT ![e] = 0 ]
    BY <1>8 DEF Compare
  <2>2. BytesOK' /\ LogsOK' /\ pc' = [ pc EXCEPT ![e] = "loop" ]
    <3>1. CASE offer[e] > height[e]
      <4> DEFINE m == GetBlocks(height[e])
      <4>1. m \in Message /\ "loop" \in Label
        BY <1>3, SmallMessages DEF Label
      <4>2. Send(e, m, "loop")
        BY <1>8, <3>1 DEF Compare
      <4> HIDE DEF m
      <4>3. QED BY <1>1, <1>2, <2>1, <4>1, <4>2, SendTypes
    <3>2. CASE ~ (offer[e] > height[e])
      <4>1. Goto(e, "loop") /\ UNCHANGED <<out, stream, sent>>
        BY <1>8, <3>2 DEF Compare
      <4>2. QED BY <1>1, <2>1, <4>1 DEF Goto, BytesOK, LogsOK
    <3>3. QED BY <3>1, <3>2
  <2>3. PlainOK'
    <3>1. offer' \in [ End -> 0 .. MaxHeight ]
      BY <1>1, <1>3, <2>1 DEF PlainOK
    <3>2. pc' \in [ End -> Label ]
      BY <1>1, <2>2 DEF PlainOK, Label
    <3>3. QED BY <1>1, <2>1, <3>1, <3>2 DEF PlainOK, lock
  <2>4. QueuesOK' /\ \A f \in End : HandlerWaits(f)'
    BY <1>1, <2>1, <2>2, StaysOut DEF lock, PlainOK, WaitLabel
  <2>5. QED BY <2>2, <2>3, <2>4, TypeFromParts
<1>9. CASE OnVerAck(e)
  <2>1. got' \in [ End -> Seq(Bytes) ] /\ received' \in [ End -> Seq(Message) ]
    BY <1>6, <1>9 DEF OnVerAck
  <2>2. UNCHANGED <<height, pc, offer, out, wire, lock, sent>>
    BY <1>9 DEF OnVerAck
  <2>3. PlainOK' /\ BytesOK' /\ LogsOK'
    BY <1>1, <2>1, <2>2 DEF wire, lock, PlainOK, BytesOK, LogsOK
  <2>4. QueuesOK' /\ \A f \in End : HandlerWaits(f)'
    BY <2>2, StaysOut DEF lock
  <2>5. QED BY <2>3, <2>4, TypeFromParts
<1>10. CASE OnGetBlocks(e)
  <2>1. PICK size \in AnswerSizes \cup {SmallSize} : Send(e, Blocks(height[e], size), "loop")
    BY <1>10 DEF OnGetBlocks
  <2> DEFINE m == Blocks(height[e], size)
  <2>2. m \in Message /\ "loop" \in Label
    BY <1>3, SmallMessages DEF Label
  <2>3. /\ got' \in [ End -> Seq(Bytes) ] /\ received' \in [ End -> Seq(Message) ] /\ pc[e] = "loop"
    BY <1>6, <1>10 DEF OnGetBlocks
  <2>4. UNCHANGED <<height, offer, up, cut, lock>> /\ Send(e, m, "loop")
    BY <1>10, <2>1 DEF OnGetBlocks
  <2> HIDE DEF m
  <2>5. BytesOK' /\ LogsOK' /\ pc' \in [ End -> Label ] /\ pc' = [ pc EXCEPT ![e] = "loop" ]
    BY <1>1, <2>2, <2>3, <2>4, SendTypes
  <2>6. PlainOK'
    BY <1>1, <2>4, <2>5 DEF PlainOK, lock
  <2>7. QueuesOK' /\ \A f \in End : HandlerWaits(f)'
    BY <1>1, <2>3, <2>4, <2>5, StaysOut DEF lock, PlainOK, WaitLabel
  <2>8. QED BY <2>5, <2>6, <2>7, TypeFromParts
<1>11. CASE OnBlocks(e)
  <2>1. got' \in [ End -> Seq(Bytes) ] /\ received' \in [ End -> Seq(Message) ]
    BY <1>6, <1>11 DEF OnBlocks
  <2>2. /\ UNCHANGED <<pc, offer, out, wire, lock, sent>>
        /\ \E h \in 0 .. MaxHeight : height' = [ height EXCEPT ![e] = h ]
    BY <1>11 DEF OnBlocks
  <2>3. height' \in [ End -> 0 .. MaxHeight ]
    BY <1>1, <2>2 DEF PlainOK
  <2>4. PlainOK' /\ BytesOK' /\ LogsOK'
    BY <1>1, <2>1, <2>2, <2>3 DEF wire, lock, PlainOK, BytesOK, LogsOK
  <2>5. QueuesOK' /\ \A f \in End : HandlerWaits(f)'
    BY <2>2, StaysOut DEF lock
  <2>6. QED BY <2>4, <2>5, TypeFromParts
<1>12. ASSUME NEW label \in {"share", "filter"}, NEW type, type # "length",
              Receives(e, type), Asks(e, "handler"), Goto(e, label),
              UNCHANGED <<height, offer, out, wire, guard, sent>>
       PROVE  TypeInv'
  <2>1. /\ got' \in [ End -> Seq(Bytes) ] /\ received' \in [ End -> Seq(Message) ] /\ pc[e] = "loop"
    BY <1>6, <1>12
  <2>2. pc' = [ pc EXCEPT ![e] = label ] /\ pc' \in [ End -> Label ]
    BY <1>1, <1>12 DEF Goto, PlainOK, Label
  <2>3. PlainOK' /\ BytesOK' /\ LogsOK'
    BY <1>1, <1>12, <2>1, <2>2 DEF wire, PlainOK, BytesOK, LogsOK
  <2>4. pc[e] \notin WaitLabel /\ pc'[e] \in WaitLabel /\ \A f \in End : f # e => pc'[f] = pc[f]
    BY <1>1, <2>1, <2>2 DEF PlainOK, WaitLabel
  <2>5. QueuesOK' /\ \A f \in End : HandlerWaits(f)'
    BY <1>12, <2>2, <2>4, GoesToWait
  <2>6. QED BY <2>3, <2>5, TypeFromParts
<1>13. CASE OnGetPeers(e)
  BY <1>12, <1>13 DEF OnGetPeers
<1>14. CASE OnPeers(e)
  BY <1>12, <1>14 DEF OnPeers
<1>15. CASE SharePeers(e)
  <2>1. PeerList \in Message /\ "shared" \in Label
    BY SmallMessages DEF Label
  <2>2. /\ Send(e, PeerList, "shared") /\ UNCHANGED <<height, offer, got, up, cut, received>>
        /\ guard' = [ guard EXCEPT ![e] = TRUE ] /\ Reads(e, "handler")
    BY <1>15 DEF SharePeers
  <2>3. BytesOK' /\ LogsOK' /\ pc' \in [ End -> Label ] /\ pc' = [ pc EXCEPT ![e] = "shared" ]
    BY <1>1, <1>2, <2>1, <2>2, SendTypes
  <2>4. PlainOK'
    BY <1>1, <2>2, <2>3 DEF PlainOK
  <2>5. \A f \in End : f # e => pc'[f] = pc[f]
    BY <1>1, <2>3 DEF PlainOK
  <2>6. QueuesOK' /\ \A f \in End : HandlerWaits(f)'
    BY <2>2, <2>5, GoesOn
  <2>7. QED BY <2>3, <2>4, <2>6, TypeFromParts
<1>16. QED BY <1>4, <1>5, <1>7, <1>8, <1>9, <1>10, <1>11, <1>13, <1>14, <1>15

LEMMA TypeStep == TypeInv /\ [Next]_vars => TypeInv'
<1> SUFFICES ASSUME TypeInv, [Next]_vars PROVE TypeInv'
  OBVIOUS
<1>1. CASE UNCHANGED vars
  BY <1>1 DEF vars, handler, wire, lock, history, TypeInv, TypeOK, HandlerWaits
<1>2. ASSUME NEW e \in End, Handle(e) PROVE TypeInv'
  BY <1>2, QuietTypes, SocketTypes, MessageTypes DEF Handle
<1>3. ASSUME NEW e \in End, Grow(e) PROVE TypeInv'
  BY <1>3, QuietTypes
<1>4. ASSUME NEW e \in End, NEW who \in Readers \cup Writers, TableWanted(e, who) \/ TableUsed(e, who)
      PROVE  TypeInv'
  BY <1>4, QuietTypes
<1>5. CASE Cut
  <2>1. "dialer" \in End
    BY DEF End
  <2>2. QED BY <1>5, <2>1, SocketTypes
<1>6. QED BY <1>1, <1>2, <1>3, <1>4, <1>5 DEF Next

(* The state of a connection always has its types: socket buffers are never *)
(* over their capacity, and nobody waits twice for the lock.                *)
THEOREM ConnectionTypeCorrect == Spec => []TypeOK
<1>1. TypeInv => TypeOK
  BY DEF TypeInv
<1>2. QED BY <1>1, TypeInit, TypeStep, PTL DEF Spec

-----------------------------------------------------------------------------
(* Delivery *)

\* The bytes that e has not read, as long as they can still reach it.
InFlight(e) == stream[e] \o (IF up THEN out[Other(e)] ELSE << >>)

Failed == { "leave", "done" }

\* What e received is what was sent to it first, and the bytes it has read of the
\* current frame, with those that are on their way, are the frames after that.
Delivery(e) ==
    /\ Len(received[e]) <= Len(sent[Other(e)])
    /\ \A i \in 1 .. Len(received[e]) : received[e][i] = sent[Other(e)][i]
    /\ pc[e] \notin Failed =>
          Follows(got[e] \o InFlight(e), sent[Other(e)], Len(received[e]), up)

\* Nothing is left to write where the handler does not write.
NothingToWrite(e) == pc[e] \in { "enter", "greet", "share", "filter", "leave" } => out[e] = << >>

FlowInv == TypeInv /\ \A e \in End : Delivery(e) /\ NothingToWrite(e)

LEMMA Regroup ==
    \A s, t, u \in Seq(Bytes) : (s \o t) \o u = s \o (t \o u)
BY ConcatAssociative

LEMMA InFlightTypes ==
    ASSUME TypeOK, NEW e \in End
    PROVE  /\ InFlight(e) \in Seq(Bytes) /\ got[e] \in Seq(Bytes) /\ stream[e] \in Seq(Bytes)
           /\ out[Other(e)] \in Seq(Bytes) /\ up \in BOOLEAN
           /\ sent[Other(e)] \in Seq(Message) /\ received[e] \in Seq(Message)
<1>1. /\ got[e] \in Seq(Bytes) /\ stream[e] \in Seq(Bytes) /\ out[Other(e)] \in Seq(Bytes)
      /\ up \in BOOLEAN /\ sent[Other(e)] \in Seq(Message) /\ received[e] \in Seq(Message)
  BY Ends DEF TypeOK
<1> DEFINE o == IF up THEN out[Other(e)] ELSE << >>
<1>2. o \in Seq(Bytes)
  BY <1>1
<1> HIDE DEF o
<1>3. stream[e] \o o \in Seq(Bytes)
  BY <1>1, <1>2, ConcatProperties
<1>4. QED BY <1>1, <1>3 DEF InFlight, o

(* What receive returns is the first message that was sent and not received, *)
(* and what follows on the wire are the frames after it.                    *)
LEMMA ReceivesNext ==
    ASSUME TypeOK, NEW e \in End, Delivery(e), NEW type, type # "length", Receives(e, type)
    PROVE  LET S == sent[Other(e)]
               r == Len(received[e])
           IN  r < Len(S) /\ Incoming(e) = S[r + 1] /\ Follows(InFlight(e), S, r + 1, up)
<1> DEFINE S == sent[Other(e)]
           r == Len(received[e])
           read == got[e]
           rest == InFlight(e)
<1>1. /\ S \in Seq(Message) /\ r \in 0 .. Len(S) /\ up \in BOOLEAN
      /\ read \in Seq(Bytes) /\ rest \in Seq(Bytes)
  BY InFlightTypes DEF Delivery
<1>2. pc[e] = "loop" /\ Arrived(e)
  BY DEF Receives
<1>3. Follows(read \o rest, S, r, up)
  BY <1>2 DEF Delivery, Failed
<1>4. Len(read) >= LenBytes /\ LenBytes + LengthIn(read) - Len(read) = 0
  BY <1>2 DEF Arrived, HeaderRead, Missing
<1>5. Incoming(e) = read[LenBytes + 1].of
  BY ReceivesTypes
<1> HIDE DEF S, r, read, rest
<1>6. r < Len(S) /\ LengthIn(read) = S[r + 1].size
  BY <1>1, <1>3, <1>4, PrefixRead
<1>7. Len(read) = FrameLen(S[r + 1])
  <2> DEFINE m == S[r + 1]
  <2>1. m \in Message
    BY <1>1, <1>6
  <2> HIDE DEF m
  <2>2. m.size \in Nat
    BY <2>1, MessageFacts
  <2>3. LengthIn(read) = m.size
    BY <1>6 DEF m
  <2>4. Len(read) = FrameLen(m)
    BY <1>1, <1>4, <2>2, <2>3, Sizes DEF FrameLen
  <2>5. QED BY <2>4 DEF m
<1>8. read[LenBytes + 1].of = S[r + 1] /\ Follows(rest, S, r + 1, up)
  BY <1>1, <1>3, <1>6, <1>7, FrameRead
<1>9. QED BY <1>5, <1>6, <1>8 DEF S, r, rest

(* How a direction fares: when nothing about it changes, or its reader ends, *)
LEMMA DeliveryKept ==
    ASSUME NEW e \in End, Delivery(e),
           received'[e] = received[e], sent'[Other(e)] = sent[Other(e)],
           \/ pc'[e] \in Failed
           \/ /\ pc[e] \notin Failed /\ up' = up
              /\ got'[e] \o InFlight(e)' = got[e] \o InFlight(e)
    PROVE  Delivery(e)'
BY DEF Delivery

(* when the connection ends,                                                *)
LEMMA DeliveryDown ==
    ASSUME TypeOK, NEW e \in End, Delivery(e), Down,
           received'[e] = received[e], sent'[Other(e)] = sent[Other(e)],
           got'[e] = got[e], pc[e] \in Failed => pc'[e] \in Failed
    PROVE  Delivery(e)'
<1> DEFINE S == sent[Other(e)]
           r == Len(received[e])
           g == got[e]
           flow == g \o InFlight(e)
           s == stream'[e]
<1>1. /\ S \in Seq(Message) /\ r \in 0 .. Len(S) /\ up \in BOOLEAN /\ g \in Seq(Bytes)
      /\ InFlight(e) \in Seq(Bytes) /\ stream[e] \in Seq(Bytes)
  BY InFlightTypes DEF Delivery
<1>2. /\ s \in Seq(Bytes) /\ up' = FALSE /\ Len(s) <= Len(stream[e])
      /\ \A i \in 1 .. Len(s) : s[i] = stream[e][i]
  BY DownFacts
<1>3. ASSUME pc[e] \notin Failed PROVE Follows(g \o s, S, r, FALSE)
  <2>1. Follows(flow, S, r, up)
    BY <1>3 DEF Delivery
  <2>2. /\ flow \in Seq(Bytes) /\ Len(flow) = Len(g) + Len(InFlight(e))
        /\ \A i \in 1 .. Len(g) + Len(InFlight(e)) :
              flow[i] = IF i <= Len(g) THEN g[i] ELSE InFlight(e)[i - Len(g)]
    BY <1>1, ConcatProperties
  <2>3. /\ Len(InFlight(e)) >= Len(stream[e])
        /\ \A i \in 1 .. Len(stream[e]) : InFlight(e)[i] = stream[e][i]
    <3> DEFINE o == IF up THEN out[Other(e)] ELSE << >>
    <3>1. o \in Seq(Bytes)
      BY InFlightTypes
    <3>2. InFlight(e) = stream[e] \o o
      BY DEF InFlight
    <3> HIDE DEF o
    <3>3. QED BY <1>1, <3>1, <3>2, ConcatProperties
  <2> DEFINE part == g \o s
  <2>4. /\ part \in Seq(Bytes) /\ Len(part) = Len(g) + Len(s)
        /\ \A i \in 1 .. Len(g) + Len(s) : part[i] = IF i <= Len(g) THEN g[i] ELSE s[i - Len(g)]
    <3>1. g \in Seq(Bytes) /\ s \in Seq(Bytes)
      BY <1>1, <1>2
    <3> HIDE DEF s, g
    <3>2. QED BY <3>1, ConcatProperties
  <2> HIDE DEF part, flow, s, g
  <2>5. Len(part) <= Len(flow)
    BY <1>1, <1>2, <2>2, <2>3, <2>4
  <2>6. ASSUME NEW i \in 1 .. Len(part) PROVE part[i] = flow[i]
    <3>1. i \in 1 .. Len(g) + Len(InFlight(e))
      BY <1>1, <1>2, <2>2, <2>3, <2>4
    <3>2. CASE i <= Len(g)
      BY <2>2, <2>4, <3>1, <3>2
    <3>3. CASE i > Len(g)
      <4> DEFINE k == i - Len(g)
      <4>1. k \in 1 .. Len(s) /\ k \in 1 .. Len(stream[e])
        BY <1>1, <1>2, <2>4, <3>3
      <4>2. part[i] = s[k] /\ flow[i] = InFlight(e)[k]
        BY <1>1, <2>2, <2>4, <3>1, <3>3
      <4> HIDE DEF k
      <4>3. QED BY <1>2, <2>3, <4>1, <4>2
    <3>4. QED BY <1>1, <3>2, <3>3
  <2>7. Follows(part, S, r, FALSE)
    BY <1>1, <2>1, <2>2, <2>4, <2>5, <2>6, FollowsCut
  <2>8. QED BY <2>7 DEF part
<1>4. InFlight(e)' = s
  <2>1. InFlight(e)' = s \o << >>
    BY <1>2 DEF InFlight
  <2> HIDE DEF s
  <2>2. s \o << >> = s
    BY <1>2, ConcatEmptySeq
  <2>3. QED BY <2>1, <2>2
<1>5. pc'[e] \notin Failed => Follows(got'[e] \o InFlight(e)', S, r, up')
  BY <1>2, <1>3, <1>4
<1>6. QED BY <1>5 DEF Delivery

(* when a message is sent on it,                                            *)
LEMMA DeliverySent ==
    ASSUME TypeOK, NEW d \in End, NEW e \in End, e = Other(d), Delivery(e),
           NEW m \in Message, NEW label, Send(d, m, label), out[d] = << >>,
           received'[e] = received[e], got'[e] = got[e], up' = up, pc'[e] = pc[e]
    PROVE  Delivery(e)'
<1> DEFINE S == sent[d]
           r == Len(received[e])
           g == got[e]
<1>1. d = Other(e) /\ d # e
  BY Ends
<1>2. /\ S \in Seq(Message) /\ r \in 0 .. Len(S) /\ up \in BOOLEAN /\ g \in Seq(Bytes)
      /\ InFlight(e) \in Seq(Bytes) /\ stream[e] \in Seq(Bytes)
  BY <1>1, InFlightTypes DEF Delivery
<1>3. sent'[d] = Append(S, m)
  BY DEF Send, TypeOK
<1>4. InFlight(e) = stream[e]
  <2>1. InFlight(e) = stream[e] \o << >>
    BY <1>1 DEF InFlight
  <2>2. QED BY <1>2, <2>1, ConcatEmptySeq
<1>5. g \o stream[e] \in Seq(Bytes)
  BY <1>2, ConcatProperties
<1>6. ToBytes(m) \in Seq(Bytes)
  BY FrameFacts
<1>7. ASSUME pc[e] \notin Failed PROVE Follows(got'[e] \o InFlight(e)', Append(S, m), r, up')
  <2>1. Follows(g \o stream[e], S, r, up)
    BY <1>1, <1>4, <1>7 DEF Delivery
  <2>2. CASE up
    <3> DEFINE a == Accepted(d, ToBytes(m))
               b == Rest(d, ToBytes(m))
    <3>1. a \in Seq(Bytes) /\ b \in Seq(Bytes) /\ a \o b = ToBytes(m)
      BY <1>6, AcceptedFacts
    <3>2. stream'[e] = stream[e] \o a /\ out'[d] = b
      BY <2>2 DEF Send, Push, TypeOK
    <3>3. InFlight(e)' = (stream[e] \o a) \o b
      BY <1>1, <2>2, <3>2 DEF InFlight
    <3> HIDE DEF a, b
    <3>4. (stream[e] \o a) \o b = stream[e] \o ToBytes(m)
      <4>1. stream[e] \in Seq(Bytes) /\ a \in Seq(Bytes) /\ b \in Seq(Bytes)
        BY <1>2, <3>1
      <4>2. (stream[e] \o a) \o b = stream[e] \o (a \o b)
        BY <4>1, Regroup, Zenon
      <4>3. QED BY <3>1, <4>2
    <3>5. g \o (stream[e] \o ToBytes(m)) = (g \o stream[e]) \o ToBytes(m)
      <4>1. g \in Seq(Bytes) /\ stream[e] \in Seq(Bytes)
        BY <1>2
      <4> HIDE DEF g
      <4>2. QED BY <1>6, <4>1, Regroup, Zenon
    <3>6. Follows((g \o stream[e]) \o ToBytes(m), Append(S, m), r, TRUE)
      <4> DEFINE flow == g \o stream[e]
      <4>1. flow \in Seq(Bytes) /\ Follows(flow, S, r, TRUE)
        BY <1>5, <2>1, <2>2
      <4> HIDE DEF flow, S, r
      <4>2. Follows(flow \o ToBytes(m), Append(S, m), r, TRUE)
        BY <1>2, <4>1, FollowsSent
      <4>3. QED BY <4>2 DEF flow
    <3>7. up' = TRUE
      BY <2>2
    <3>8. QED BY <3>3, <3>4, <3>5, <3>6, <3>7
  <2>3. CASE ~ up
    <3>1. stream' = stream
      BY <2>3 DEF Send, Push
    <3>2. InFlight(e)' = InFlight(e)
      BY <2>3, <3>1 DEF InFlight
    <3>3. Follows(g \o stream[e], Append(S, m), r, FALSE)
      <4> DEFINE flow == g \o stream[e]
      <4>1. flow \in Seq(Bytes) /\ Follows(flow, S, r, FALSE)
        BY <1>2, <1>5, <2>1, <2>3
      <4> HIDE DEF flow, S, r
      <4>2. Follows(flow, Append(S, m), r, FALSE)
        BY <1>2, <4>1, FollowsLost
      <4>3. QED BY <4>2 DEF flow
    <3>4. up' = FALSE
      BY <1>2, <2>3
    <3>5. QED BY <1>4, <3>2, <3>3, <3>4
  <2>4. QED BY <2>2, <2>3
<1>8. /\ Len(Append(S, m)) = Len(S) + 1
      /\ \A i \in 1 .. Len(S) : Append(S, m)[i] = S[i]
  BY <1>2, AppendProperties
<1>9. r <= Len(Append(S, m)) /\ \A i \in 1 .. r : received[e][i] = Append(S, m)[i]
  BY <1>1, <1>2, <1>8 DEF Delivery
<1>10. QED BY <1>1, <1>3, <1>7, <1>9 DEF Delivery

(* and when its reader receives one.                                        *)
LEMMA DeliveryReceived ==
    ASSUME TypeOK, NEW e \in End, Delivery(e), NEW type, type # "length", Receives(e, type),
           sent'[Other(e)] = sent[Other(e)], stream'[e] = stream[e],
           out'[Other(e)] = out[Other(e)], up' = up
    PROVE  /\ Delivery(e)'
           /\ Len(received[e]) < Len(sent[Other(e)])
           /\ received'[e] = Append(received[e], sent[Other(e)][Len(received[e]) + 1])
<1> DEFINE S == sent[Other(e)]
           R == received[e]
           r == Len(R)
           m == S[r + 1]
<1>1. S \in Seq(Message) /\ R \in Seq(Message) /\ r \in Nat /\ InFlight(e) \in Seq(Bytes)
  BY InFlightTypes
<1>2. r < Len(S) /\ Incoming(e) = m /\ Follows(InFlight(e), S, r + 1, up)
  BY ReceivesNext
<1>3. received'[e] = Append(R, m) /\ got'[e] = << >>
  BY <1>2 DEF Receives, TypeOK
<1>4. m \in Message
  BY <1>1, <1>2
<1>5. InFlight(e)' = InFlight(e)
  BY DEF InFlight
<1>6. << >> \o InFlight(e) = InFlight(e)
  BY <1>1, ConcatEmptySeq
<1>7. /\ Len(Append(R, m)) = r + 1 /\ Append(R, m)[r + 1] = m
      /\ \A i \in 1 .. r : Append(R, m)[i] = R[i]
  BY <1>1, <1>4, AppendProperties
<1>8. Follows(got'[e] \o InFlight(e)', S, r + 1, up')
  BY <1>2, <1>3, <1>5, <1>6
<1>9. \A i \in 1 .. r + 1 : Append(R, m)[i] = S[i]
  <2>1. \A i \in 1 .. r : R[i] = S[i]
    BY DEF Delivery
  <2>2. \A i \in 1 .. r + 1 : i \in 1 .. r \/ i = r + 1
    BY <1>1
  <2>3. QED BY <1>7, <2>1, <2>2
<1> DEFINE q == Len(received'[e])
<1>10. q = r + 1 /\ r + 1 <= Len(S)
  BY <1>1, <1>2, <1>3, <1>7
<1>11. Delivery(e)'
  <2>1. Len(received'[e]) <= Len(sent'[Other(e)])
    BY <1>10
  <2>2. \A i \in 1 .. Len(received'[e]) : received'[e][i] = sent'[Other(e)][i]
    BY <1>3, <1>9, <1>10
  <2>3. Follows(got'[e] \o InFlight(e)', sent'[Other(e)], Len(received'[e]), up')
    BY <1>8, <1>10
  <2>4. QED BY <2>1, <2>2, <2>3 DEF Delivery
<1>12. QED BY <1>2, <1>3, <1>11

LEMMA FlowInit == Init => FlowInv
<1> SUFFICES ASSUME Init, NEW e \in End PROVE Delivery(e) /\ NothingToWrite(e)
  BY TypeInit DEF FlowInv
<1>1. /\ got[e] = << >> /\ stream[e] = << >> /\ out[Other(e)] = << >> /\ out[e] = << >>
      /\ sent[Other(e)] = << >> /\ received[e] = << >> /\ up = TRUE
  BY Ends DEF Init
<1>2. Follows(<< >>, << >>, 0, TRUE)
  <2> DEFINE start == [ k \in 0 .. 0 |-> 0 ]
  <2>1. Starts(start, << >>, 0) /\ Carries(<< >>, start, << >>, 0) /\ Len(<< >>) = start[Len(<< >>)]
    BY DEF Starts, Carries
  <2>2. start \in [ 0 .. Len(<< >>) -> Nat ]
    OBVIOUS
  <2> HIDE DEF start
  <2>3. QED BY <2>1, <2>2 DEF Follows
<1>3. << >> \o << >> = << >>
  <2>1. << >> \in Seq(Bytes)
    OBVIOUS
  <2>2. QED BY <2>1, ConcatEmptySeq
<1>4. got[e] \o InFlight(e) = << >>
  BY <1>1, <1>3 DEF InFlight
<1>5. Delivery(e)
  <2>1. Len(received[e]) = 0
    BY <1>1
  <2>2. Follows(got[e] \o InFlight(e), sent[Other(e)], Len(received[e]), up)
    BY <1>1, <1>2, <1>4, <2>1
  <2>3. Len(sent[Other(e)]) = 0
    BY <1>1
  <2>4. QED BY <2>1, <2>2, <2>3 DEF Delivery
<1>6. QED BY <1>1, <1>5 DEF NothingToWrite

(* A step that moves no bytes and no messages.                              *)
LEMMA QuietDelivery ==
    ASSUME FlowInv, UNCHANGED <<got, stream, out, up, sent, received>>,
           \A f \in End : pc[f] \in Failed => pc'[f] \in Failed
    PROVE  \A f \in End : Delivery(f)'
<1> SUFFICES ASSUME NEW f \in End PROVE Delivery(f)'
  OBVIOUS
<1>1. Delivery(f)
  BY DEF FlowInv
<1>2. InFlight(f)' = InFlight(f)
  BY DEF InFlight
<1>3. QED BY <1>1, <1>2, DeliveryKept

LEMMA QuietFlow ==
    ASSUME FlowInv, NEW e \in End,
           \/ Enter(e) \/ StartLoop(e) \/ DropGuard(e) \/ FilterPeers(e) \/ Grow(e)
           \/ \E who \in Readers \cup Writers : TableWanted(e, who) \/ TableUsed(e, who)
    PROVE  \A f \in End : Delivery(f)' /\ NothingToWrite(f)'
<1>1. PlainOK
  BY TypeParts DEF FlowInv, TypeInv
<1>2. UNCHANGED <<got, stream, out, up, sent, received>>
  BY DEF Enter, StartLoop, DropGuard, FilterPeers, Grow, TableWanted, TableUsed,
         handler, wire, history
<1>3. \/ UNCHANGED pc
      \/ pc[e] = "enter" /\ pc' = [ pc EXCEPT ![e] = "greet" ]
      \/ pc[e] \in { "greeted", "shared", "filter" } /\ pc' = [ pc EXCEPT ![e] = "loop" ]
  BY DEF Enter, StartLoop, DropGuard, FilterPeers, Grow, TableWanted, TableUsed, Goto, handler
<1>4. \A f \in End : pc[f] \in Failed => pc'[f] \in Failed
  BY <1>1, <1>3 DEF PlainOK, Failed
<1>5. \A f \in End : NothingToWrite(f)'
  BY <1>1, <1>2, <1>3 DEF PlainOK, NothingToWrite, FlowInv
<1>6. QED BY <1>2, <1>4, <1>5, QuietDelivery

LEMMA SocketFlow ==
    ASSUME FlowInv, NEW e \in End,
           Write(e) \/ Read(e) \/ Cut \/ GreetingFails(e) \/ LoopFails(e) \/ Leave(e)
    PROVE  \A f \in End : Delivery(f)' /\ NothingToWrite(f)'
<1>1. PlainOK /\ BytesOK /\ TypeOK /\ \A f \in End : Delivery(f) /\ NothingToWrite(f)
  BY TypeParts DEF FlowInv, TypeInv
<1>2. CASE Write(e)
  <2>1. /\ up /\ Push(e, out[e]) /\ UNCHANGED <<pc, got, up, sent, received>> /\ out[e] # << >>
    BY <1>2 DEF Write, history
  <2> DEFINE d == Other(e)
             a == Accepted(e, out[e])
             b == Rest(e, out[e])
  <2>2. out[e] \in Seq(Bytes) /\ stream[d] \in Seq(Bytes) /\ d \in End /\ d # e /\ Other(d) = e
    BY <1>1, Ends DEF BytesOK
  <2>3. a \in Seq(Bytes) /\ b \in Seq(Bytes) /\ a \o b = out[e]
    BY <1>1, <2>2, AcceptedFacts
  <2>4. stream' = [ stream EXCEPT ![d] = stream[d] \o a ] /\ out' = [ out EXCEPT ![e] = b ]
    BY <2>1 DEF Push
  <2> HIDE DEF a, b, d
  <2>5. /\ stream'[d] = stream[d] \o a /\ stream'[e] = stream[e]
        /\ out'[e] = b /\ out'[d] = out[d]
    BY <1>1, <2>2, <2>4 DEF BytesOK
  <2>6. InFlight(d)' = InFlight(d)
    <3>1. (stream[d] \o a) \o b = stream[d] \o (a \o b)
      BY <2>2, <2>3, Regroup, Zenon
    <3>2. InFlight(d) = stream[d] \o out[e] /\ InFlight(d)' = stream'[d] \o out'[e]
      BY <2>1, <2>2 DEF InFlight
    <3>3. QED BY <2>3, <2>5, <3>1, <3>2
  <2>7. InFlight(e)' = InFlight(e)
    BY <2>1, <2>5 DEF InFlight, d
  <2>8. \A f \in End : f = e \/ f = d
    BY Ends DEF d
  <2>9. \A f \in End : InFlight(f)' = InFlight(f)
    BY <2>6, <2>7, <2>8
  <2>10. \A f \in End : Delivery(f)'
    BY <1>1, <2>1, <2>9, DeliveryKept
  <2>11. \A f \in End : NothingToWrite(f)'
    BY <1>1, <2>1, <2>5, <2>8 DEF NothingToWrite
  <2>12. QED BY <2>10, <2>11
<1>3. CASE Read(e)
  <2>1. PICK a, b \in Seq(Bytes) :
            /\ stream[e] = a \o b
            /\ got' = [ got EXCEPT ![e] = got[e] \o a ]
            /\ stream' = [ stream EXCEPT ![e] = b ]
    BY <1>1, <1>3, ReadFacts
  <2>2. UNCHANGED <<pc, out, up, sent, received>> /\ pc[e] = "loop"
    BY <1>3 DEF Read, history
  <2> DEFINE o == IF up THEN out[Other(e)] ELSE << >>
  <2>3. o \in Seq(Bytes) /\ got[e] \in Seq(Bytes)
    BY <1>1, InFlightTypes
  <2>4. InFlight(e) = stream[e] \o o /\ InFlight(e)' = stream'[e] \o o
    BY <2>2 DEF InFlight
  <2> HIDE DEF o
  <2>5. /\ got'[e] = got[e] \o a /\ stream'[e] = b
        /\ \A f \in End : f # e => got'[f] = got[f] /\ stream'[f] = stream[f]
    BY <1>1, <2>1 DEF BytesOK
  <2>6. got'[e] \o InFlight(e)' = got[e] \o InFlight(e)
    <3>1. (got[e] \o a) \o (b \o o) = got[e] \o (a \o (b \o o))
      <4>1. b \o o \in Seq(Bytes)
        BY <2>3, ConcatProperties
      <4>2. QED BY <2>3, <4>1, Regroup, Zenon
    <3>2. a \o (b \o o) = (a \o b) \o o
      BY <2>3, Regroup, Zenon
    <3>3. QED BY <2>1, <2>4, <2>5, <3>1, <3>2
  <2>7. \A f \in End : got'[f] \o InFlight(f)' = got[f] \o InFlight(f)
    <3>1. \A f \in End : f # e => InFlight(f)' = InFlight(f) /\ got'[f] = got[f]
      BY <2>2, <2>5 DEF InFlight
    <3>2. QED BY <2>6, <3>1
  <2>8. \A f \in End : Delivery(f)'
    BY <1>1, <2>2, <2>7, DeliveryKept
  <2>9. \A f \in End : NothingToWrite(f)'
    BY <1>1, <2>2 DEF NothingToWrite
  <2>10. QED BY <2>8, <2>9
<1>4. CASE Cut
  <2>1. Down /\ UNCHANGED <<pc, out, got, sent, received>>
    BY <1>4 DEF Cut, handler, history
  <2>2. \A f \in End : Delivery(f)'
    BY <1>1, <2>1, DeliveryDown
  <2>3. \A f \in End : NothingToWrite(f)'
    BY <1>1, <2>1 DEF NothingToWrite
  <2>4. QED BY <2>2, <2>3
<1>5. CASE GreetingFails(e)
  <2>1. /\ ~ up /\ UNCHANGED <<up, stream, got, sent, received>>
        /\ pc' = [ pc EXCEPT ![e] = "done" ] /\ out' = [ out EXCEPT ![e] = << >> ]
    BY <1>5 DEF GreetingFails, WriteBroken, Return, Goto, history
  <2>2. \A f \in End : pc'[f] = pc[f] \/ pc'[f] = "done"
    BY <1>1, <2>1 DEF PlainOK
  <2>3. \A f \in End : InFlight(f)' = InFlight(f)
    BY <2>1 DEF InFlight
  <2>4. \A f \in End : Delivery(f)'
    BY <1>1, <2>1, <2>2, <2>3, DeliveryKept DEF Failed
  <2>5. \A f \in End : out'[f] = out[f] \/ out'[f] = << >>
    BY <1>1, <2>1 DEF BytesOK
  <2>6. \A f \in End : NothingToWrite(f)'
    BY <1>1, <2>2, <2>5 DEF NothingToWrite
  <2>7. QED BY <2>4, <2>6
<1>6. CASE LoopFails(e)
  <2>1. /\ ~ up \/ out[e] = << >>
        /\ UNCHANGED <<up, stream, sent, received>>
        /\ pc' = [ pc EXCEPT ![e] = "leave" ]
        /\ out' = [ out EXCEPT ![e] = << >> ] /\ got' = [ got EXCEPT ![e] = << >> ]
    BY <1>6 DEF LoopFails, WriteBroken, ReadBroken, Goto, wire, history
  <2>2. pc'[e] = "leave" /\ out'[e] = << >>
        /\ \A f \in End : f # e => pc'[f] = pc[f] /\ got'[f] = got[f] /\ out'[f] = out[f]
    BY <1>1, <2>1 DEF PlainOK, BytesOK
  <2>3. \A f \in End : InFlight(f)' = InFlight(f)
    <3> SUFFICES ASSUME NEW f \in End PROVE InFlight(f)' = InFlight(f)
      OBVIOUS
    <3>1. Other(f) \in End
      BY Ends
    <3>2. up => out'[Other(f)] = out[Other(f)]
      BY <2>1, <2>2, <3>1
    <3>3. QED BY <2>1, <3>2 DEF InFlight
  <2>4. ASSUME NEW f \in End PROVE Delivery(f)'
    <3>1. Delivery(f) /\ received'[f] = received[f] /\ sent'[Other(f)] = sent[Other(f)]
      BY <1>1, <2>1
    <3>2. CASE f = e
      BY <2>2, <3>1, <3>2, DeliveryKept DEF Failed
    <3>3. CASE f # e
      BY <2>1, <2>2, <2>3, <3>1, <3>3, DeliveryKept
    <3>4. QED BY <3>2, <3>3
  <2>5. \A f \in End : NothingToWrite(f)'
    BY <1>1, <2>2 DEF NothingToWrite
  <2>6. QED BY <2>4, <2>5
<1>7. CASE Leave(e)
  <2>1. UNCHANGED <<out, got, sent, received>> /\ pc' = [ pc EXCEPT ![e] = "done" ]
    BY <1>7 DEF Leave, Return, Goto, history
  <2>2. \A f \in End : pc'[f] = pc[f] \/ pc'[f] = "done"
    BY <1>1, <2>1 DEF PlainOK
  <2>3. \A f \in End : Delivery(f)'
    <3>1. CASE up
      <4>1. Down
        BY <1>7, <3>1 DEF Leave, Return
      <4>2. QED BY <1>1, <2>1, <2>2, <4>1, DeliveryDown DEF Failed
    <3>2. CASE ~ up
      <4>1. UNCHANGED <<up, stream>>
        BY <1>7, <3>2 DEF Leave, Return
      <4>2. \A f \in End : InFlight(f)' = InFlight(f)
        BY <2>1, <4>1 DEF InFlight
      <4>3. QED BY <1>1, <2>1, <2>2, <4>1, <4>2, DeliveryKept DEF Failed
    <3>3. QED BY <3>1, <3>2
  <2>4. \A f \in End : NothingToWrite(f)'
    BY <1>1, <2>1, <2>2 DEF NothingToWrite
  <2>5. QED BY <2>3, <2>4
<1>8. QED BY <1>2, <1>3, <1>4, <1>5, <1>6, <1>7

\* A direction of the connection, to e, takes a step of Channel or none.
Transfers(e) ==
    \/ sent'[Other(e)] = sent[Other(e)] /\ received'[e] = received[e]
    \/ /\ \E m \in Message : sent'[Other(e)] = Append(sent[Other(e)], m)
       /\ received'[e] = received[e]
    \/ /\ Len(received[e]) < Len(sent[Other(e)])
       /\ received'[e] = Append(received[e], sent[Other(e)][Len(received[e]) + 1])
       /\ sent'[Other(e)] = sent[Other(e)]

Fares(e) == Delivery(e)' /\ NothingToWrite(e)' /\ Transfers(e)

(* What a send leaves alone: the other direction.                           *)
LEMMA SendFacts ==
    ASSUME TypeOK, NEW e \in End, NEW m \in Message, NEW label, Send(e, m, label)
    PROVE  /\ stream'[e] = stream[e] /\ out'[Other(e)] = out[Other(e)]
           /\ sent'[e] = Append(sent[e], m) /\ sent'[Other(e)] = sent[Other(e)]
           /\ pc'[e] = label /\ pc'[Other(e)] = pc[Other(e)]
<1>1. /\ out \in [ End -> Seq(Bytes) ] /\ stream \in [ End -> Seq(Bytes) ]
      /\ sent \in [ End -> Seq(Message) ] /\ pc \in [ End -> Label ]
      /\ Other(e) \in End /\ Other(e) # e
  BY Ends DEF TypeOK
<1>2. stream'[e] = stream[e] /\ out'[Other(e)] = out[Other(e)]
  BY <1>1 DEF Send, Push
<1>3. QED BY <1>1, <1>2 DEF Send, Goto

LEMMA SendOnly ==
    ASSUME FlowInv, NEW e \in End, NEW m \in Message, NEW label, Send(e, m, label),
           label \in { "introduce", "greeted", "loop", "shared" },
           out[e] = << >>, pc[e] \notin Failed, UNCHANGED <<got, received, up>>
    PROVE  \A f \in End : Fares(f)
<1> DEFINE d == Other(e)
<1>1. TypeOK /\ Delivery(e) /\ Delivery(d) /\ d \in End /\ d # e /\ Other(d) = e
      /\ NothingToWrite(e) /\ NothingToWrite(d)
  BY Ends DEF FlowInv, TypeInv
<1>2. /\ stream'[e] = stream[e] /\ out'[d] = out[d]
      /\ sent'[e] = Append(sent[e], m) /\ sent'[d] = sent[d]
      /\ pc'[e] = label /\ pc'[d] = pc[d]
  BY <1>1, SendFacts
<1>3. InFlight(e)' = InFlight(e)
  BY <1>2 DEF InFlight
<1>4. Delivery(e)'
  BY <1>1, <1>2, <1>3, DeliveryKept
<1>5. Delivery(d)'
  BY <1>1, <1>2, DeliverySent
<1> HIDE DEF d
<1>6. NothingToWrite(e)' /\ NothingToWrite(d)'
  BY <1>1, <1>2 DEF NothingToWrite
<1>7. Transfers(e) /\ Transfers(d)
  BY <1>1, <1>2 DEF Transfers, d
<1>8. \A f \in End : f = e \/ f = d
  BY Ends DEF d
<1>9. QED BY <1>4, <1>5, <1>6, <1>7, <1>8 DEF Fares

LEMMA ReceiveFacts ==
    ASSUME TypeOK, NEW e \in End, NEW type, Receives(e, type)
    PROVE  /\ pc[e] = "loop" /\ out[e] = << >> /\ Incoming(e).type = type
           /\ got'[Other(e)] = got[Other(e)] /\ received'[Other(e)] = received[Other(e)]
BY Ends DEF Receives, TypeOK

LEMMA ReceiveOnly ==
    ASSUME FlowInv, NEW e \in End, NEW type, type # "length", Receives(e, type),
           UNCHANGED <<stream, out, up, sent>>, \A f \in End : f # e => pc'[f] = pc[f]
    PROVE  \A f \in End : Fares(f)
<1> DEFINE d == Other(e)
<1>1. TypeOK /\ Delivery(e) /\ Delivery(d) /\ d \in End /\ d # e /\ Other(d) = e
      /\ NothingToWrite(d)
  BY Ends DEF FlowInv, TypeInv
<1>2. /\ Delivery(e)'
      /\ Len(received[e]) < Len(sent[d])
      /\ received'[e] = Append(received[e], sent[d][Len(received[e]) + 1])
  BY <1>1, DeliveryReceived
<1>3. /\ pc[e] = "loop" /\ out[e] = << >>
      /\ got'[d] = got[d] /\ received'[d] = received[d]
  BY <1>1, ReceiveFacts
<1>4. InFlight(d)' = InFlight(d)
  BY DEF InFlight
<1>5. Delivery(d)'
  BY <1>1, <1>3, <1>4, DeliveryKept
<1> HIDE DEF d
<1>6. NothingToWrite(e)' /\ NothingToWrite(d)'
  BY <1>1, <1>3 DEF NothingToWrite
<1>7. Transfers(e) /\ Transfers(d)
  BY <1>1, <1>2, <1>3 DEF Transfers, d
<1>8. \A f \in End : f = e \/ f = d
  BY Ends DEF d
<1>9. QED BY <1>2, <1>5, <1>6, <1>7, <1>8 DEF Fares

LEMMA ReceiveAndSend ==
    ASSUME FlowInv, NEW e \in End, NEW type, type # "length", Receives(e, type),
           NEW m \in Message, NEW label, Send(e, m, label),
           label \in { "loop", "compare" }, UNCHANGED up
    PROVE  \A f \in End : Fares(f)
<1> DEFINE d == Other(e)
<1>1. TypeOK /\ Delivery(e) /\ Delivery(d) /\ d \in End /\ d # e /\ Other(d) = e
      /\ NothingToWrite(d)
  BY Ends DEF FlowInv, TypeInv
<1>2. /\ stream'[e] = stream[e] /\ out'[d] = out[d]
      /\ sent'[e] = Append(sent[e], m) /\ sent'[d] = sent[d]
      /\ pc'[e] = label /\ pc'[d] = pc[d]
  BY <1>1, SendFacts
<1>3. /\ Delivery(e)'
      /\ Len(received[e]) < Len(sent[d])
      /\ received'[e] = Append(received[e], sent[d][Len(received[e]) + 1])
  BY <1>1, <1>2, DeliveryReceived
<1>4. /\ pc[e] = "loop" /\ out[e] = << >>
      /\ got'[d] = got[d] /\ received'[d] = received[d]
  BY <1>1, ReceiveFacts
<1>5. Delivery(d)'
  BY <1>1, <1>2, <1>4, DeliverySent
<1> HIDE DEF d
<1>6. NothingToWrite(e)' /\ NothingToWrite(d)'
  BY <1>1, <1>2 DEF NothingToWrite
<1>7. Transfers(e) /\ Transfers(d)
  BY <1>1, <1>2, <1>3, <1>4 DEF Transfers, d
<1>8. \A f \in End : f = e \/ f = d
  BY Ends DEF d
<1>9. QED BY <1>3, <1>5, <1>6, <1>7, <1>8 DEF Fares

LEMMA MessageFlow ==
    ASSUME FlowInv, NEW e \in End,
           \/ SendVersion(e) \/ SendGetPeers(e) \/ OnVersion(e) \/ Compare(e) \/ OnVerAck(e)
           \/ OnGetBlocks(e) \/ OnBlocks(e) \/ OnGetPeers(e) \/ SharePeers(e) \/ OnPeers(e)
    PROVE  \A f \in End : Fares(f)
<1>1. PlainOK /\ TypeOK /\ NothingToWrite(e) /\ height[e] \in 0 .. MaxHeight
  BY TypeParts DEF FlowInv, TypeInv, PlainOK
<1>2. CASE SendVersion(e)
  <2> DEFINE m == Version(height[e])
  <2>1. m \in Message
    BY <1>1, SmallMessages
  <2>2. Send(e, m, "introduce") /\ UNCHANGED <<got, received, up>> /\ pc[e] = "greet"
    BY <1>2 DEF SendVersion
  <2>3. out[e] = << >>
    BY <1>1, <2>2 DEF NothingToWrite
  <2> HIDE DEF m
  <2>4. QED BY <2>1, <2>2, <2>3, SendOnly DEF Failed
<1>3. CASE SendGetPeers(e)
  <2>1. GetPeers \in Message
    BY SmallMessages
  <2>2. /\ Send(e, GetPeers, "greeted") /\ UNCHANGED <<got, received, up>>
        /\ pc[e] = "introduce" /\ out[e] = << >>
    BY <1>3 DEF SendGetPeers
  <2>3. QED BY <2>1, <2>2, SendOnly DEF Failed
<1>4. CASE OnVersion(e)
  <2>1. VerAck \in Message
    BY SmallMessages
  <2>2. Receives(e, "Version") /\ Send(e, VerAck, "compare") /\ UNCHANGED up
    BY <1>4 DEF OnVersion
  <2>3. QED BY <2>1, <2>2, ReceiveAndSend
<1>5. CASE Compare(e)
  <2>1. UNCHANGED <<got, received, up>> /\ pc[e] = "compare" /\ out[e] = << >>
    BY <1>5 DEF Compare
  <2>2. CASE offer[e] > height[e]
    <3> DEFINE m == GetBlocks(height[e])
    <3>1. m \in Message
      BY <1>1, SmallMessages
    <3>2. Send(e, m, "loop")
      BY <1>5, <2>2 DEF Compare
    <3> HIDE DEF m
    <3>3. QED BY <2>1, <3>1, <3>2, SendOnly DEF Failed
  <2>3. CASE ~ (offer[e] > height[e])
    <3>1. UNCHANGED <<out, stream, sent>> /\ pc' = [ pc EXCEPT ![e] = "loop" ]
      BY <1>5, <2>3 DEF Compare, Goto
    <3>2. \A f \in End : pc[f] \in Failed => pc'[f] \in Failed
      BY <1>1, <2>1, <3>1 DEF PlainOK, Failed
    <3>3. \A f \in End : Delivery(f)'
      BY <2>1, <3>1, <3>2, QuietDelivery
    <3>4. \A f \in End : NothingToWrite(f)'
      BY <1>1, <2>1, <3>1 DEF PlainOK, NothingToWrite, FlowInv
    <3>5. QED BY <2>1, <3>1, <3>3, <3>4 DEF Fares, Transfers
  <2>4. QED BY <2>2, <2>3
<1>6. CASE OnVerAck(e)
  <2>1. Receives(e, "VerAck") /\ UNCHANGED <<stream, out, up, sent, pc>>
    BY <1>6 DEF OnVerAck, wire
  <2>2. QED BY <2>1, ReceiveOnly
<1>7. CASE OnGetBlocks(e)
  <2>1. PICK size \in AnswerSizes \cup {SmallSize} : Send(e, Blocks(height[e], size), "loop")
    BY <1>7 DEF OnGetBlocks
  <2> DEFINE m == Blocks(height[e], size)
  <2>2. m \in Message
    BY <1>1, SmallMessages
  <2>3. Receives(e, "GetBlocks") /\ Send(e, m, "loop") /\ UNCHANGED up
    BY <1>7, <2>1 DEF OnGetBlocks
  <2> HIDE DEF m
  <2>4. QED BY <2>2, <2>3, ReceiveAndSend
<1>8. CASE OnBlocks(e)
  <2>1. Receives(e, "Blocks") /\ UNCHANGED <<stream, out, up, sent, pc>>
    BY <1>8 DEF OnBlocks, wire
  <2>2. QED BY <2>1, ReceiveOnly
<1>9. CASE OnGetPeers(e)
  <2>1. /\ Receives(e, "GetPeers") /\ UNCHANGED <<stream, out, up, sent>>
        /\ pc' = [ pc EXCEPT ![e] = "share" ]
    BY <1>9 DEF OnGetPeers, wire, Goto
  <2>2. \A f \in End : f # e => pc'[f] = pc[f]
    BY <1>1, <2>1 DEF PlainOK
  <2>3. QED BY <2>1, <2>2, ReceiveOnly
<1>10. CASE OnPeers(e)
  <2>1. /\ Receives(e, "Peers") /\ UNCHANGED <<stream, out, up, sent>>
        /\ pc' = [ pc EXCEPT ![e] = "filter" ]
    BY <1>10 DEF OnPeers, wire, Goto
  <2>2. \A f \in End : f # e => pc'[f] = pc[f]
    BY <1>1, <2>1 DEF PlainOK
  <2>3. QED BY <2>1, <2>2, ReceiveOnly
<1>11. CASE SharePeers(e)
  <2>1. PeerList \in Message
    BY SmallMessages
  <2>2. Send(e, PeerList, "shared") /\ UNCHANGED <<got, received, up>> /\ pc[e] = "share"
    BY <1>11 DEF SharePeers
  <2>3. out[e] = << >>
    BY <1>1, <2>2 DEF NothingToWrite
  <2>4. QED BY <2>1, <2>2, <2>3, SendOnly DEF Failed
<1>12. QED BY <1>2, <1>3, <1>4, <1>5, <1>6, <1>7, <1>8, <1>9, <1>10, <1>11

(* Every step keeps both directions in order.                               *)
LEMMA FlowStep ==
    FlowInv /\ [Next]_vars => FlowInv' /\ \A e \in End : Transfers(e)
<1> SUFFICES ASSUME FlowInv, [Next]_vars
             PROVE  \A e \in End : Fares(e)
  BY TypeStep DEF FlowInv, Fares
<1>1. ASSUME UNCHANGED <<sent, received>>, \A e \in End : Delivery(e)' /\ NothingToWrite(e)'
      PROVE  \A e \in End : Fares(e)
  BY <1>1 DEF Fares, Transfers
<1>2. CASE UNCHANGED vars
  <2>1. UNCHANGED <<got, stream, out, up, sent, received, pc>>
    BY <1>2 DEF vars, handler, wire, history
  <2>2. \A e \in End : Delivery(e)'
    BY <2>1, QuietDelivery
  <2>3. \A e \in End : NothingToWrite(e)'
    BY <2>1 DEF FlowInv, NothingToWrite
  <2>4. QED BY <1>1, <2>1, <2>2, <2>3
<1>3. ASSUME NEW e \in End,
             \/ Enter(e) \/ StartLoop(e) \/ DropGuard(e) \/ FilterPeers(e) \/ Grow(e)
             \/ \E who \in Readers \cup Writers : TableWanted(e, who) \/ TableUsed(e, who)
      PROVE  \A f \in End : Fares(f)
  <2>1. UNCHANGED <<sent, received>>
    BY <1>3 DEF Enter, StartLoop, DropGuard, FilterPeers, Grow, TableWanted, TableUsed, history
  <2>2. QED BY <1>1, <1>3, <2>1, QuietFlow
<1>4. ASSUME NEW e \in End,
             Write(e) \/ Read(e) \/ Cut \/ GreetingFails(e) \/ LoopFails(e) \/ Leave(e)
      PROVE  \A f \in End : Fares(f)
  <2>1. UNCHANGED <<sent, received>>
    BY <1>4 DEF Write, Read, Cut, GreetingFails, LoopFails, Leave, history
  <2>2. QED BY <1>1, <1>4, <2>1, SocketFlow
<1>5. ASSUME NEW e \in End, Handle(e) PROVE \A f \in End : Fares(f)
  BY <1>3, <1>4, <1>5, MessageFlow DEF Handle
<1>6. CASE Cut
  <2>1. "dialer" \in End
    BY DEF End
  <2>2. QED BY <1>4, <1>6, <2>1
<1>7. QED BY <1>2, <1>3, <1>5, <1>6 DEF Next

(* Each direction of a connection is a channel: messages arrive whole, once *)
(* and in the order in which they were sent, whatever parts of them a read  *)
(* or a write moves and wherever the connection breaks.                     *)
THEOREM ChannelsImplemented == Spec => ImplementsChannels
<1>1. "dialer" \in End /\ "acceptor" \in End /\ Other("acceptor") = "dialer" /\ Other("dialer") = "acceptor"
  BY DEF End, Other
<1>2. Init => Forth!Init /\ Back!Init
  BY <1>1 DEF Init, Forth!Init, Back!Init
<1>3. FlowInv /\ [Next]_vars
        => [Forth!Next]_<<sent["dialer"], received["acceptor"]>>
           /\ [Back!Next]_<<sent["acceptor"], received["dialer"]>>
  <2> SUFFICES ASSUME FlowInv, [Next]_vars
               PROVE  /\ [Forth!Next]_<<sent["dialer"], received["acceptor"]>>
                      /\ [Back!Next]_<<sent["acceptor"], received["dialer"]>>
    OBVIOUS
  <2>1. Transfers("acceptor") /\ Transfers("dialer")
    BY <1>1, FlowStep
  <2>2. [Forth!Next]_<<sent["dialer"], received["acceptor"]>>
    BY <1>1, <2>1 DEF Transfers, Forth!Next, Forth!Send, Forth!Deliver
  <2>3. [Back!Next]_<<sent["acceptor"], received["dialer"]>>
    BY <1>1, <2>1 DEF Transfers, Back!Next, Back!Send, Back!Deliver
  <2>4. QED BY <2>2, <2>3
<1>4. Spec => []FlowInv
  <2>1. FlowInv /\ [Next]_vars => FlowInv'
    BY FlowStep
  <2>2. QED BY <2>1, FlowInit, PTL DEF Spec
<1>5. QED BY <1>2, <1>3, <1>4, PTL DEF Spec, ImplementsChannels, Forth!Spec, Back!Spec

-----------------------------------------------------------------------------
(* The room of whoever holds the lock *)

SmallOnly(e) == \A i \in 1 .. Len(sent[e]) : sent[e][i].size = SmallSize

SmallFrame == LenBytes + SmallSize

\* As long as an end has only sent small messages, no more than those are on
\* their way.
Load(e) ==
    up /\ SmallOnly(e) =>
        Len(stream[Other(e)]) + Len(out[e]) <= Len(sent[e]) * SmallFrame

\* The greeting: Version comes first, GetPeers second, and neither again.
Order(e) ==
    /\ \A i \in 1 .. Len(sent[e]) : /\ sent[e][i].type = "Version" <=> i = 1
                                    /\ sent[e][i].type = "GetPeers" <=> i = 2
    /\ pc[e] \in { "enter", "greet" } => Len(sent[e]) = 0
    /\ pc[e] = "introduce" => Len(sent[e]) = 1
    /\ pc[e] = "greeted" => Len(sent[e]) = 2
    /\ pc[e] \in { "loop", "compare", "share", "shared", "filter" } => Len(sent[e]) >= 2

\* Where a handler stands after its first messages, and how many it has sent.
Progress(e) ==
    LET r == Len(received[e])
        s == Len(sent[e])
    IN  /\ pc[e] \in { "enter", "greet", "introduce", "greeted" } => r = 0
        /\ pc[e] = "loop" /\ r = 0 => s = 2
        /\ pc[e] = "compare" => r = 1 /\ s = 3
        /\ pc[e] = "loop" /\ r = 1 => s <= 4
        /\ pc[e] = "share" => r = 2 /\ s <= 4
        /\ pc[e] = "shared" => r = 2 /\ s <= 5
        /\ pc[e] = "filter" => r >= 3
        /\ pc[e] \notin Failed /\ (r <= 1 \/ pc[e] \in { "share", "shared" }) => SmallOnly(e)
        /\ guard[e] => pc[e] = "shared"

RoomInv == FlowInv /\ \A e \in End : Load(e) /\ Order(e) /\ Progress(e)

LEMMA RoomInit == Init => RoomInv
<1> SUFFICES ASSUME Init, NEW e \in End PROVE Load(e) /\ Order(e) /\ Progress(e)
  BY FlowInit DEF RoomInv
<1>1. /\ pc[e] = "enter" /\ guard[e] = FALSE /\ sent[e] = << >> /\ received[e] = << >>
      /\ stream[Other(e)] = << >> /\ out[e] = << >>
  BY Ends DEF Init
<1>2. Len(sent[e]) = 0 /\ Len(received[e]) = 0 /\ Len(stream[Other(e)]) = 0 /\ Len(out[e]) = 0
  BY <1>1
<1>3. SmallFrame \in Nat
  BY Sizes DEF SmallFrame
<1>4. Load(e)
  BY <1>2, <1>3 DEF Load
<1>5. Order(e) /\ Progress(e)
  BY <1>1, <1>2 DEF Order, Progress, SmallOnly
<1>6. QED BY <1>4, <1>5

(* One frame more adds its size.                                           *)
LEMMA OneMoreFrame ==
    \A x, y \in Nat : x * y \in Nat /\ (x + 1) * y = x * y + y
OBVIOUS

(* The load of a direction never grows but by what is sent on it.           *)
LEMMA LoadKept ==
    ASSUME TypeOK, TypeOK', NEW e \in End, Load(e), sent'[e] = sent[e], up' => up,
           up' => Len(stream'[Other(e)]) + Len(out'[e]) <= Len(stream[Other(e)]) + Len(out[e])
    PROVE  Load(e)'
<1> SUFFICES ASSUME up', SmallOnly(e)'
             PROVE  Len(stream'[Other(e)]) + Len(out'[e]) <= Len(sent'[e]) * SmallFrame
  BY DEF Load
<1> DEFINE before == Len(stream[Other(e)]) + Len(out[e])
           after == Len(stream'[Other(e)]) + Len(out'[e])
           n == Len(sent[e])
           limit == n * SmallFrame
<1>1. Other(e) \in End /\ BytesOK /\ BytesOK' /\ LogsOK
  BY Ends, TypeParts
<1>2. before \in Nat /\ n \in Nat
  <2>1. /\ stream[Other(e)] \in Seq(Bytes) /\ out[e] \in Seq(Bytes)
        /\ sent[e] \in Seq(Message)
    BY <1>1 DEF BytesOK, LogsOK
  <2>2. \A s, t \in Seq(Bytes) : Len(s) + Len(t) \in Nat
    OBVIOUS
  <2>3. before \in Nat
    BY <2>1, <2>2, Zenon
  <2>4. n \in Nat
    BY <2>1
  <2>5. QED BY <2>3, <2>4
<1>3. after \in Nat
  <2>1. stream'[Other(e)] \in Seq(Bytes) /\ out'[e] \in Seq(Bytes)
    BY <1>1 DEF BytesOK
  <2>2. \A s, t \in Seq(Bytes) : Len(s) + Len(t) \in Nat
    OBVIOUS
  <2>3. QED BY <2>1, <2>2, Zenon
<1>4. up /\ SmallOnly(e)
  BY DEF SmallOnly
<1>5. before <= limit /\ after <= before
  BY <1>4 DEF Load
<1>6. limit = Len(sent'[e]) * SmallFrame
  OBVIOUS
<1>7. limit \in Nat
  <2>1. SmallFrame \in Nat
    BY Sizes DEF SmallFrame
  <2> HIDE DEF n
  <2>2. QED BY <1>2, <2>1, OneMoreFrame
<1> HIDE DEF limit, before, after
<1>8. after <= limit
  BY <1>2, <1>3, <1>5, <1>7
<1>9. QED BY <1>6, <1>8 DEF after

LEMMA LoadSent ==
    ASSUME TypeOK, NEW e \in End, Load(e), NEW m \in Message, NEW label, Send(e, m, label),
           out[e] = << >>, up' = up
    PROVE  Load(e)'
<1> SUFFICES ASSUME up, SmallOnly(e)'
             PROVE  Len(stream'[Other(e)]) + Len(out'[e]) <= Len(sent'[e]) * SmallFrame
  BY DEF Load
<1> DEFINE d == Other(e)
           S == sent[e]
           a == Accepted(e, ToBytes(m))
           b == Rest(e, ToBytes(m))
<1>1. /\ S \in Seq(Message) /\ stream[d] \in Seq(Bytes) /\ d \in End
      /\ out \in [ End -> Seq(Bytes) ] /\ stream \in [ End -> Seq(Bytes) ]
  BY Ends DEF TypeOK
<1>2. /\ Len(Append(S, m)) = Len(S) + 1 /\ Append(S, m)[Len(S) + 1] = m
      /\ \A i \in 1 .. Len(S) : Append(S, m)[i] = S[i]
  BY <1>1, AppendProperties
<1>3. sent'[e] = Append(S, m)
  BY SendFacts
<1>4. SmallOnly(e) /\ m.size = SmallSize
  <2>1. \A i \in 1 .. Len(S) + 1 : Append(S, m)[i].size = SmallSize
    BY <1>2, <1>3 DEF SmallOnly
  <2>2. Len(S) \in Nat
    BY <1>1
  <2>3. \A i \in 1 .. Len(S) : S[i].size = SmallSize
    BY <1>2, <2>1, <2>2
  <2>4. QED BY <1>2, <2>1, <2>2, <2>3 DEF SmallOnly
<1>5. /\ ToBytes(m) \in Seq(Bytes) /\ Len(ToBytes(m)) = SmallFrame
  BY <1>4, FrameFacts DEF FrameLen, SmallFrame
<1>6. a \in Seq(Bytes) /\ b \in Seq(Bytes) /\ Len(a) + Len(b) = SmallFrame
  BY <1>5, AcceptedFacts
<1>7. stream'[d] = stream[d] \o a /\ out'[e] = b
  BY <1>1 DEF Send, Push
<1> HIDE DEF a, b, S, d
<1>8. Len(stream[d] \o a) = Len(stream[d]) + Len(a)
  BY <1>1, <1>6, ConcatProperties
<1>9. Len(stream[d]) <= Len(S) * SmallFrame
  <2>1. Len(stream[d]) + Len(out[e]) <= Len(S) * SmallFrame
    BY <1>4 DEF Load, d, S
  <2>2. Len(out[e]) = 0
    OBVIOUS
  <2>3. Len(stream[d]) \in Nat
    BY <1>1
  <2>4. QED BY <2>1, <2>2, <2>3
<1>10. Len(S) \in Nat /\ SmallFrame \in Nat /\ Len(a) \in Nat /\ Len(b) \in Nat /\ Len(stream[d]) \in Nat
  BY <1>1, <1>6, Sizes DEF SmallFrame
<1> DEFINE n == Len(S)
           was == Len(stream[d])
           limit == n * SmallFrame
<1>11. (n + 1) * SmallFrame = limit + SmallFrame /\ limit \in Nat
  <2> HIDE DEF n
  <2>1. n \in Nat
    BY <1>10 DEF n
  <2>2. QED BY <1>10, <2>1, OneMoreFrame
<1>12. Len(stream'[d]) = was + Len(a) /\ Len(out'[e]) = Len(b)
  BY <1>7, <1>8
<1>13. was <= limit /\ was \in Nat
  BY <1>9, <1>10
<1> HIDE DEF n, was, limit
<1>14. Len(stream'[d]) + Len(out'[e]) <= limit + SmallFrame
  BY <1>6, <1>10, <1>11, <1>12, <1>13
<1>15. Len(stream'[d]) + Len(out'[e]) <= (n + 1) * SmallFrame
  BY <1>11, <1>14
<1>16. QED BY <1>2, <1>3, <1>15 DEF d, n

(* The other direction, when e sends or nobody does.                        *)
LEMMA LoadSame ==
    ASSUME TypeOK, TypeOK', NEW e \in End, Load(e), sent'[e] = sent[e], up' = up,
           stream'[Other(e)] = stream[Other(e)], out'[e] = out[e]
    PROVE  Load(e)'
<1> DEFINE before == Len(stream[Other(e)]) + Len(out[e])
           after == Len(stream'[Other(e)]) + Len(out'[e])
<1>1. after = before
  OBVIOUS
<1>2. before \in Nat
  <2>1. stream[Other(e)] \in Seq(Bytes) /\ out[e] \in Seq(Bytes)
    BY Ends DEF TypeOK
  <2>2. \A s, t \in Seq(Bytes) : Len(s) + Len(t) \in Nat
    OBVIOUS
  <2>3. QED BY <2>1, <2>2, Zenon
<1> HIDE DEF before, after
<1>3. after <= before
  BY <1>1, <1>2
<1>4. QED BY <1>3, LoadKept DEF before, after

LEMMA LoadSend ==
    ASSUME TypeOK, TypeOK', NEW e \in End, \A f \in End : Load(f),
           NEW m \in Message, NEW label, Send(e, m, label), out[e] = << >>, up' = up
    PROVE  \A f \in End : Load(f)'
<1> DEFINE d == Other(e)
<1>1. d \in End /\ Other(d) = e
  BY Ends
<1>2. stream'[e] = stream[e] /\ out'[d] = out[d] /\ sent'[d] = sent[d]
  BY SendFacts
<1> HIDE DEF d
<1>3. Load(d)'
  BY <1>1, <1>2, LoadSame
<1>4. Load(e)'
  BY LoadSent
<1>5. \A f \in End : f = e \/ f = d
  BY Ends DEF d
<1>6. QED BY <1>3, <1>4, <1>5

LEMMA LoadSocket ==
    ASSUME FlowInv, TypeOK', NEW e \in End, \A f \in End : Load(f),
           Write(e) \/ Read(e) \/ Cut \/ GreetingFails(e) \/ LoopFails(e) \/ Leave(e)
    PROVE  \A f \in End : Load(f)'
<1>1. TypeOK /\ BytesOK /\ BytesOK'
  BY TypeParts DEF FlowInv, TypeInv
<1>2. UNCHANGED sent
  BY DEF Write, Read, Cut, GreetingFails, LoopFails, Leave, history
<1>3. \A s, t \in Seq(Bytes) : Len(s) \in Nat /\ Len(s) + Len(t) \in Nat
  OBVIOUS
<1>4. \A f \in End : /\ stream[f] \in Seq(Bytes) /\ out[f] \in Seq(Bytes)
                     /\ stream'[f] \in Seq(Bytes) /\ out'[f] \in Seq(Bytes)
                     /\ Other(f) \in End
  BY <1>1, Ends DEF BytesOK
<1>5. CASE ~ up'
  BY <1>5 DEF Load
<1>6. CASE up'
  <2>1. up
    BY <1>6, DownFacts, <1>1 DEF Write, Read, Cut, GreetingFails, LoopFails, Leave, Return, wire
  <2>2. UNCHANGED up
    <3>1. up \in BOOLEAN /\ up' \in BOOLEAN
      BY <1>1 DEF TypeOK
    <3>2. QED BY <1>6, <2>1, <3>1
  <2>3. CASE Write(e)
    <3> DEFINE d == Other(e)
               a == Accepted(e, out[e])
               b == Rest(e, out[e])
    <3>1. a \in Seq(Bytes) /\ b \in Seq(Bytes) /\ Len(a) + Len(b) = Len(out[e])
      BY <1>1, <1>4, AcceptedFacts
    <3>2. stream' = [ stream EXCEPT ![d] = stream[d] \o a ] /\ out' = [ out EXCEPT ![e] = b ]
      BY <2>1, <2>3 DEF Write, Push
    <3>3. d \in End /\ d # e /\ Other(d) = e /\ stream[d] \in Seq(Bytes)
      BY <1>4, Ends
    <3> HIDE DEF a, b, d
    <3>4. /\ stream'[d] = stream[d] \o a /\ stream'[e] = stream[e]
          /\ out'[e] = b /\ out'[d] = out[d]
      BY <1>1, <3>2, <3>3 DEF BytesOK
    <3>5. Len(stream[d] \o a) = Len(stream[d]) + Len(a)
      BY <3>1, <3>3, ConcatProperties
    <3>6. Len(stream'[d]) = Len(stream[d]) + Len(a) /\ Len(out'[e]) = Len(b)
      BY <3>4, <3>5
    <3>7. Len(stream'[d]) + Len(out'[e]) <= Len(stream[d]) + Len(out[e])
      <4> DEFINE was == Len(stream[d])
                 taken == Len(a)
                 left == Len(b)
      <4>1. was \in Nat /\ taken \in Nat /\ left \in Nat
        BY <1>3, <3>1, <3>3
      <4>2. /\ Len(out[e]) = taken + left
            /\ Len(stream'[d]) = was + taken /\ Len(out'[e]) = left
        BY <3>1, <3>6
      <4> HIDE DEF was, taken, left
      <4>3. (was + taken) + left <= was + (taken + left)
        BY <4>1
      <4>4. QED BY <4>2, <4>3 DEF was
    <3>8. Load(e)'
      BY <1>1, <1>2, <2>2, <3>7, LoadKept DEF d
    <3>9. Load(d)'
      BY <1>1, <1>2, <2>2, <3>3, <3>4, LoadSame
    <3>10. \A f \in End : f = e \/ f = d
      BY Ends DEF d
    <3>11. QED BY <3>8, <3>9, <3>10
  <2>4. CASE Read(e)
    <3> DEFINE d == Other(e)
    <3>1. PICK a, b \in Seq(Bytes) :
              Len(b) <= Len(stream[e]) /\ stream' = [ stream EXCEPT ![e] = b ]
      BY <1>1, <2>4, ReadFacts
    <3>2. d \in End /\ d # e /\ Other(d) = e
      BY Ends
    <3> HIDE DEF d
    <3>3. UNCHANGED out /\ stream'[e] = b /\ stream'[d] = stream[d]
      BY <1>1, <2>4, <3>1, <3>2 DEF Read, BytesOK
    <3>4. Len(stream'[e]) + Len(out'[d]) <= Len(stream[e]) + Len(out[d])
      <4>1. Len(stream'[e]) <= Len(stream[e]) /\ out'[d] = out[d]
        BY <3>1, <3>3
      <4>2. Len(stream[e]) \in Nat /\ Len(stream'[e]) \in Nat /\ Len(out[d]) \in Nat
        BY <1>3, <1>4, <3>2
      <4>3. QED BY <4>1, <4>2
    <3>5. Load(d)'
      BY <1>1, <1>2, <2>2, <3>2, <3>4, LoadKept
    <3>6. Load(e)'
      BY <1>1, <1>2, <2>2, <3>3, LoadSame DEF d
    <3>7. \A f \in End : f = e \/ f = d
      BY Ends DEF d
    <3>8. QED BY <3>5, <3>6, <3>7
  <2>5. CASE Cut
    BY <1>1, <1>6, <2>5, DownFacts DEF Cut
  <2>6. CASE GreetingFails(e)
    BY <2>1, <2>6 DEF GreetingFails, WriteBroken
  <2>7. CASE LoopFails(e)
    <3>1. UNCHANGED stream /\ out' = [ out EXCEPT ![e] = << >> ] /\ out[e] = << >>
      BY <2>1, <2>7 DEF LoopFails, WriteBroken, ReadBroken, wire
    <3>2. UNCHANGED out
      BY <1>1, <3>1 DEF BytesOK
    <3>3. QED BY <1>1, <1>2, <2>2, <3>1, <3>2, LoadSame
  <2>8. CASE Leave(e)
    BY <1>1, <1>6, <2>1, <2>8, DownFacts DEF Leave, Return
  <2>9. QED BY <2>3, <2>4, <2>5, <2>6, <2>7, <2>8
<1>7. QED BY <1>5, <1>6

(* A step of a handler that neither sends nor touches the socket.           *)
LEMMA LoadQuiet ==
    ASSUME TypeOK, TypeOK', \A f \in End : Load(f), UNCHANGED <<sent, up, stream, out>>
    PROVE  \A f \in End : Load(f)'
BY LoadSame

LEMMA LoadMessage ==
    ASSUME FlowInv, TypeOK', NEW e \in End, \A f \in End : Load(f),
           \/ SendVersion(e) \/ SendGetPeers(e) \/ OnVersion(e) \/ Compare(e) \/ OnVerAck(e)
           \/ OnGetBlocks(e) \/ OnBlocks(e) \/ OnGetPeers(e) \/ SharePeers(e) \/ OnPeers(e)
    PROVE  \A f \in End : Load(f)'
<1>1. TypeOK /\ NothingToWrite(e) /\ height[e] \in 0 .. MaxHeight
  BY TypeParts DEF FlowInv, TypeInv, PlainOK
<1>2. CASE UNCHANGED <<sent, up, stream, out>>
  BY <1>1, <1>2, LoadQuiet
<1>3. OnVerAck(e) \/ OnBlocks(e) \/ OnGetPeers(e) \/ OnPeers(e) => UNCHANGED <<sent, up, stream, out>>
  BY DEF OnVerAck, OnBlocks, OnGetPeers, OnPeers, wire
<1>4. Compare(e) /\ ~ (offer[e] > height[e]) => UNCHANGED <<sent, up, stream, out>>
  BY DEF Compare
<1>5. ASSUME ~ UNCHANGED <<sent, up, stream, out>>
      PROVE  \E m \in Message, label \in Label : Send(e, m, label) /\ out[e] = << >> /\ up' = up
  <2>1. CASE SendVersion(e)
    <3>1. Send(e, Version(height[e]), "introduce") /\ up' = up /\ out[e] = << >>
      BY <1>1, <2>1 DEF SendVersion, NothingToWrite
    <3>2. QED BY <1>1, <3>1, SmallMessages DEF Label
  <2>2. CASE SendGetPeers(e)
    <3>1. Send(e, GetPeers, "greeted") /\ up' = up /\ out[e] = << >>
      BY <2>2 DEF SendGetPeers
    <3>2. QED BY <3>1, SmallMessages DEF Label
  <2>3. CASE OnVersion(e)
    <3>1. Send(e, VerAck, "compare") /\ up' = up /\ out[e] = << >>
      BY <2>3 DEF OnVersion, Receives
    <3>2. QED BY <3>1, SmallMessages DEF Label
  <2>4. CASE Compare(e)
    <3>1. Send(e, GetBlocks(height[e]), "loop") /\ up' = up /\ out[e] = << >>
      BY <1>4, <1>5, <2>4 DEF Compare
    <3>2. QED BY <1>1, <3>1, SmallMessages DEF Label
  <2>5. CASE OnGetBlocks(e)
    <3>1. PICK size \in AnswerSizes \cup {SmallSize} : Send(e, Blocks(height[e], size), "loop")
      BY <2>5 DEF OnGetBlocks
    <3>2. up' = up /\ out[e] = << >>
      BY <2>5 DEF OnGetBlocks, Receives
    <3>3. QED BY <1>1, <3>1, <3>2, SmallMessages DEF Label
  <2>6. CASE SharePeers(e)
    <3>1. Send(e, PeerList, "shared") /\ up' = up /\ out[e] = << >>
      BY <1>1, <2>6 DEF SharePeers, NothingToWrite
    <3>2. QED BY <3>1, SmallMessages DEF Label
  <2>7. QED BY <1>3, <1>5, <2>1, <2>2, <2>3, <2>4, <2>5, <2>6
<1>6. QED BY <1>1, <1>2, <1>5, LoadSend

\* What an end has received and sent, and where it stands.
Manners(e) == Order(e) /\ Progress(e)

(* An end that does nothing, or gives up, keeps its manners.                *)
LEMMA MannersKept ==
    ASSUME NEW e \in End, Manners(e), sent'[e] = sent[e], received'[e] = received[e],
           \/ pc'[e] = pc[e] /\ (guard'[e] => guard[e])
           \/ pc'[e] \in Failed /\ ~ guard'[e]
    PROVE  Manners(e)'
<1>1. CASE pc'[e] = pc[e] /\ (guard'[e] => guard[e])
  BY <1>1 DEF Manners, Order, Progress, SmallOnly
<1>2. CASE pc'[e] \in Failed /\ ~ guard'[e]
  BY <1>2 DEF Manners, Order, Progress, SmallOnly, Failed
<1>3. QED BY <1>1, <1>2

(* What a send adds to the order: who stands where may send what.           *)
LEMMA OrderSent ==
    ASSUME TypeOK, NEW e \in End, Order(e), NEW m \in Message, NEW label, Send(e, m, label),
           m.type = "Version" <=> Len(sent[e]) = 0,
           m.type = "GetPeers" <=> Len(sent[e]) = 1,
           \/ label = "introduce" /\ Len(sent[e]) = 0
           \/ label = "greeted" /\ Len(sent[e]) = 1
           \/ label \in { "loop", "compare", "shared" } /\ Len(sent[e]) >= 2
    PROVE  /\ Order(e)' /\ Len(sent'[e]) = Len(sent[e]) + 1 /\ pc'[e] = label
           /\ SmallOnly(e) /\ m.size = SmallSize => SmallOnly(e)'
<1> DEFINE S == sent[e]
           n == Len(S)
<1>1. S \in Seq(Message) /\ n \in Nat
  BY DEF TypeOK
<1>2. /\ Len(Append(S, m)) = n + 1 /\ Append(S, m)[n + 1] = m
      /\ \A i \in 1 .. n : Append(S, m)[i] = S[i]
  BY <1>1, AppendProperties
<1>3. sent'[e] = Append(S, m) /\ pc'[e] = label
  BY SendFacts
<1>4. \A i \in 1 .. n : (S[i].type = "Version" <=> i = 1) /\ (S[i].type = "GetPeers" <=> i = 2)
  BY DEF Order
<1> DEFINE T == Append(S, m)
<1>5. m.type = "Version" <=> n + 1 = 1
  BY <1>1
<1>6. m.type = "GetPeers" <=> n + 1 = 2
  <2>1. m.type = "GetPeers" <=> n = 1
    OBVIOUS
  <2> HIDE DEF n
  <2>2. n + 1 = 2 <=> n = 1
    BY <1>1
  <2>3. QED BY <2>1, <2>2
<1> HIDE DEF T, n, S
<1>7. \A i \in 1 .. n + 1 : i \in 1 .. n \/ i = n + 1
  BY <1>1
<1>8. \A i \in 1 .. n + 1 : (T[i].type = "Version" <=> i = 1) /\ (T[i].type = "GetPeers" <=> i = 2)
  BY <1>2, <1>4, <1>5, <1>6, <1>7 DEF T
<1>9. Len(T) = n + 1
  BY <1>2 DEF T
<1>10. Order(e)'
  BY <1>1, <1>3, <1>8, <1>9 DEF Order, T, n, S
<1>11. SmallOnly(e) /\ m.size = SmallSize => SmallOnly(e)'
  <2> SUFFICES ASSUME SmallOnly(e), m.size = SmallSize PROVE SmallOnly(e)'
    OBVIOUS
  <2>1. \A i \in 1 .. n : S[i].size = SmallSize
    BY DEF SmallOnly, n, S
  <2>2. \A i \in 1 .. n + 1 : T[i].size = SmallSize
    BY <1>2, <1>7, <2>1 DEF T
  <2>3. QED BY <1>3, <1>9, <2>2 DEF SmallOnly, T
<1>12. QED BY <1>3, <1>9, <1>10, <1>11 DEF T, n, S

(* What is received next is told by how much came before.                   *)
LEMMA NextReceived ==
    ASSUME FlowInv, NEW e \in End, Order(Other(e)), NEW type, type # "length", Receives(e, type)
    PROVE  /\ Len(received'[e]) = Len(received[e]) + 1
           /\ type = "Version" <=> Len(received[e]) = 0
           /\ type = "GetPeers" <=> Len(received[e]) = 1
<1> DEFINE d == Other(e)
           r == Len(received[e])
           m == sent[d][r + 1]
<1>1. TypeOK /\ Delivery(e)
  BY DEF FlowInv, TypeInv
<1>2. /\ sent[d] \in Seq(Message) /\ received[e] \in Seq(Message) /\ r \in Nat
      /\ received \in [ End -> Seq(Message) ]
  BY <1>1, Ends DEF TypeOK
<1>3. r < Len(sent[d]) /\ Incoming(e) = m
  BY <1>1, ReceivesNext
<1>4. m \in Message
  BY <1>2, <1>3
<1>5. received'[e] = Append(received[e], m)
  BY <1>2, <1>3 DEF Receives
<1>6. Len(received'[e]) = r + 1
  BY <1>2, <1>4, <1>5, AppendProperties
<1>7. m.type = type
  BY <1>3 DEF Receives
<1> DEFINE k == r + 1
<1>8. k \in 1 .. Len(sent[d])
  <2>1. Len(sent[d]) \in Nat
    BY <1>2
  <2> HIDE DEF r, d
  <2>2. QED BY <1>2, <1>3, <2>1
<1>9. /\ sent[d][k].type = "Version" <=> k = 1
      /\ sent[d][k].type = "GetPeers" <=> k = 2
  BY <1>8 DEF Order
<1>10. (k = 1 <=> r = 0) /\ (k = 2 <=> r = 1)
  <2> HIDE DEF r
  <2>1. QED BY <1>2
<1>11. QED BY <1>6, <1>7, <1>9, <1>10

(* Where a receive leads without a send.                                    *)
LEMMA MannersReceived ==
    ASSUME TypeOK, NEW e \in End, Manners(e), sent'[e] = sent[e], guard'[e] = guard[e],
           pc[e] = "loop", Len(received'[e]) = Len(received[e]) + 1,
           \/ pc'[e] = "loop" /\ Len(received[e]) # 0 /\ Len(received[e]) # 1
           \/ pc'[e] = "share" /\ Len(received[e]) = 1
           \/ pc'[e] = "filter" /\ Len(received[e]) # 0 /\ Len(received[e]) # 1
    PROVE  Manners(e)'
<1> DEFINE r == Len(received[e])
           s == Len(sent[e])
           q == Len(received'[e])
<1>1. r \in Nat /\ s \in Nat
  BY DEF TypeOK
<1>2. ~ guard[e] /\ (r = 1 => s <= 4 /\ SmallOnly(e)) /\ s >= 2
  <2>1. ~ guard[e]
    BY DEF Manners, Progress
  <2>2. r = 1 => s <= 4
    BY DEF Manners, Progress
  <2>3. r = 1 => SmallOnly(e)
    <3>1. r = 1 => r <= 1
      BY <1>1
    <3>2. "loop" \notin Failed
      BY DEF Failed
    <3>3. QED BY <3>1, <3>2 DEF Manners, Progress
  <2>4. s >= 2
    BY DEF Manners, Order
  <2>5. QED BY <2>1, <2>2, <2>3, <2>4
<1>3. SmallOnly(e) => SmallOnly(e)'
  BY DEF SmallOnly
<1>4. q = r + 1 /\ Len(sent'[e]) = s
  OBVIOUS
<1>5. Order(e)'
  BY <1>2 DEF Manners, Order
<1>6. \/ pc'[e] = "loop" /\ r # 0 /\ r # 1
      \/ pc'[e] = "share" /\ r = 1
      \/ pc'[e] = "filter" /\ r # 0 /\ r # 1
  OBVIOUS
<1> HIDE DEF r, s, q
<1>7. (r = 1 => q = 2) /\ (r # 0 /\ r # 1 => q >= 3)
  BY <1>1, <1>4
<1>8. Progress(e)'
  BY <1>1, <1>2, <1>3, <1>4, <1>6, <1>7 DEF Progress, r, s, q
<1>9. QED BY <1>5, <1>8 DEF Manners

(* Where a send leads.                                                      *)
LEMMA MannersSent ==
    ASSUME TypeOK, NEW e \in End, Manners(e), NEW m \in Message, NEW label, Send(e, m, label),
           m.type = "Version" <=> Len(sent[e]) = 0,
           m.type = "GetPeers" <=> Len(sent[e]) = 1,
           guard'[e] => label = "shared",
           Len(received'[e]) \in Nat,
           Len(received'[e]) <= 2 => SmallOnly(e) /\ m.size = SmallSize,
           \/ label = "introduce" /\ Len(sent[e]) = 0 /\ Len(received'[e]) = 0
           \/ label = "greeted" /\ Len(sent[e]) = 1 /\ Len(received'[e]) = 0
           \/ label = "compare" /\ Len(sent[e]) = 2 /\ Len(received'[e]) = 1
           \/ label = "loop" /\ Len(sent[e]) = 3 /\ Len(received'[e]) = 1
           \/ label = "shared" /\ Len(sent[e]) \in 2 .. 4 /\ Len(received'[e]) = 2
           \/ label = "loop" /\ Len(sent[e]) >= 2 /\ Len(received'[e]) >= 3
    PROVE  Manners(e)'
<1> DEFINE s == Len(sent[e])
           q == Len(received'[e])
           t == Len(sent'[e])
<1>1. s \in Nat /\ q \in Nat
  BY DEF TypeOK
<1>2. \/ label = "introduce" /\ s = 0 /\ q = 0
      \/ label = "greeted" /\ s = 1 /\ q = 0
      \/ label = "compare" /\ s = 2 /\ q = 1
      \/ label = "loop" /\ s = 3 /\ q = 1
      \/ label = "shared" /\ s \in 2 .. 4 /\ q = 2
      \/ label = "loop" /\ s >= 2 /\ q >= 3
  OBVIOUS
<1>3. \/ label = "introduce" /\ s = 0
      \/ label = "greeted" /\ s = 1
      \/ label \in { "loop", "compare", "shared" } /\ s >= 2
  <2> HIDE DEF s, q
  <2>1. QED BY <1>1, <1>2
<1>4. /\ Order(e)' /\ t = s + 1 /\ pc'[e] = label
      /\ SmallOnly(e) /\ m.size = SmallSize => SmallOnly(e)'
  BY <1>3, OrderSent DEF Manners
<1>5. q <= 2 => SmallOnly(e)'
  BY <1>4
<1>6. guard'[e] => label = "shared"
  OBVIOUS
<1> HIDE DEF s, q, t
<1>7. \/ label = "introduce" /\ t = 1 /\ q = 0
      \/ label = "greeted" /\ t = 2 /\ q = 0
      \/ label = "compare" /\ t = 3 /\ q = 1
      \/ label = "loop" /\ t = 4 /\ q = 1
      \/ label = "shared" /\ t <= 5 /\ q = 2
      \/ label = "loop" /\ q >= 3
  BY <1>1, <1>2, <1>4
<1>8. /\ label \in { "enter", "greet", "introduce", "greeted" } => q = 0
      /\ label = "loop" /\ q = 0 => t = 2
      /\ label = "compare" => q = 1 /\ t = 3
      /\ label = "loop" /\ q = 1 => t <= 4
      /\ label = "share" => q = 2 /\ t <= 4
      /\ label = "shared" => q = 2 /\ t <= 5
      /\ label = "filter" => q >= 3
      /\ q <= 1 \/ label \in { "share", "shared" } => q <= 2
  BY <1>1, <1>7
<1>9. Progress(e)'
  BY <1>4, <1>5, <1>6, <1>8 DEF Progress, q, t
<1>10. QED BY <1>4, <1>9 DEF Manners

(* A step at one end is nothing to the manners of the other.                *)
LEMMA OtherEnd ==
    ASSUME TypeOK, NEW e \in End, Handle(e) \/ Grow(e), NEW f \in End, f # e
    PROVE  /\ sent'[f] = sent[f] /\ received'[f] = received[f]
           /\ pc'[f] = pc[f] /\ guard'[f] = guard[f]
<1>1. /\ pc \in [ End -> Label ] /\ guard \in [ End -> BOOLEAN ]
      /\ sent \in [ End -> Seq(Message) ] /\ received \in [ End -> Seq(Message) ]
  BY DEF TypeOK
<1>2. CASE Enter(e) \/ StartLoop(e) \/ Write(e) \/ Read(e) \/ Grow(e) \/ DropGuard(e) \/ FilterPeers(e)
  BY <1>1, <1>2 DEF Enter, StartLoop, Write, Read, Grow, DropGuard, FilterPeers, Goto,
                    handler, lock, history
<1>3. CASE GreetingFails(e) \/ LoopFails(e) \/ Leave(e)
  BY <1>1, <1>3 DEF GreetingFails, LoopFails, Leave, Return, Goto, lock, history
<1>4. CASE SendVersion(e) \/ SendGetPeers(e) \/ Compare(e) \/ SharePeers(e)
  BY <1>1, <1>4 DEF SendVersion, SendGetPeers, Compare, SharePeers, Send, Goto, lock
<1>5. CASE OnVersion(e) \/ OnGetBlocks(e)
  BY <1>1, <1>5 DEF OnVersion, OnGetBlocks, Receives, Send, Goto, lock
<1>6. CASE OnVerAck(e) \/ OnBlocks(e) \/ OnGetPeers(e) \/ OnPeers(e)
  BY <1>1, <1>6 DEF OnVerAck, OnBlocks, OnGetPeers, OnPeers, Receives, Goto, lock
<1>7. QED BY <1>2, <1>3, <1>4, <1>5, <1>6 DEF Handle

LEMMA MannersQuiet ==
    ASSUME TypeOK, NEW e \in End, Manners(e),
           \/ Enter(e) \/ StartLoop(e) \/ Write(e) \/ Read(e) \/ Grow(e) \/ DropGuard(e)
           \/ FilterPeers(e) \/ GreetingFails(e) \/ LoopFails(e) \/ Leave(e)
    PROVE  Manners(e)'
<1>1. /\ pc \in [ End -> Label ] /\ guard \in [ End -> BOOLEAN ]
      /\ Len(sent[e]) \in Nat /\ Len(received[e]) \in Nat
  BY DEF TypeOK
<1>2. Order(e) /\ Progress(e)
  BY DEF Manners
<1>3. UNCHANGED <<sent, received>>
  BY DEF Enter, StartLoop, Write, Read, Grow, DropGuard, FilterPeers, GreetingFails,
         LoopFails, Leave, history
<1>4. CASE Write(e) \/ Read(e) \/ Grow(e)
  BY <1>3, <1>4, MannersKept DEF Write, Read, Grow, handler, lock
<1>5. CASE GreetingFails(e) \/ Leave(e)
  <2>1. pc[e] # "shared" /\ pc'[e] = "done" /\ guard' = guard
    BY <1>1, <1>5 DEF GreetingFails, Leave, Return, Goto, lock
  <2>2. ~ guard'[e]
    BY <1>2, <2>1 DEF Progress
  <2>3. QED BY <1>3, <2>1, <2>2, MannersKept DEF Failed
<1>6. CASE LoopFails(e)
  <2>1. pc'[e] = "leave" /\ ~ guard'[e]
    BY <1>1, <1>6 DEF LoopFails, Goto
  <2>2. QED BY <1>3, <2>1, MannersKept DEF Failed
<1>7. CASE Enter(e)
  <2>1. pc[e] = "enter" /\ pc'[e] = "greet" /\ guard' = guard
    BY <1>1, <1>7 DEF Enter, Goto
  <2>2. Order(e)'
    BY <1>2, <1>3, <2>1 DEF Order
  <2>3. Progress(e)'
    BY <1>2, <1>3, <2>1 DEF Progress, SmallOnly, Failed
  <2>4. QED BY <2>2, <2>3 DEF Manners
<1>8. CASE StartLoop(e)
  <2>1. pc[e] = "greeted" /\ pc'[e] = "loop" /\ guard' = guard
    BY <1>1, <1>8 DEF StartLoop, Goto, lock
  <2>2. Order(e)'
    BY <1>2, <1>3, <2>1 DEF Order
  <2>3. Len(sent[e]) = 2 /\ Len(received[e]) = 0 /\ ~ guard[e] /\ SmallOnly(e)
    BY <1>2, <2>1 DEF Order, Progress, Failed
  <2>4. Progress(e)'
    BY <1>3, <2>1, <2>3 DEF Progress, SmallOnly, Failed
  <2>5. QED BY <2>2, <2>4 DEF Manners
<1>9. CASE DropGuard(e)
  <2>1. pc[e] = "shared" /\ pc'[e] = "loop" /\ ~ guard'[e]
    BY <1>1, <1>9 DEF DropGuard, Goto
  <2>2. Order(e)'
    BY <1>2, <1>3, <2>1 DEF Order
  <2>3. Len(received[e]) = 2
    BY <1>2, <2>1 DEF Progress
  <2>4. Progress(e)'
    BY <1>3, <2>1, <2>3 DEF Progress
  <2>5. QED BY <2>2, <2>4 DEF Manners
<1>10. CASE FilterPeers(e)
  <2>1. pc[e] = "filter" /\ pc'[e] = "loop" /\ guard' = guard
    BY <1>1, <1>10 DEF FilterPeers, Goto
  <2>2. Order(e)'
    BY <1>2, <1>3, <2>1 DEF Order
  <2>3. Len(received[e]) >= 3 /\ ~ guard[e]
    BY <1>2, <2>1 DEF Progress
  <2> DEFINE r == Len(received[e])
  <2>4. r # 0 /\ r # 1 /\ ~ (r <= 1)
    <3>1. r \in Nat /\ r >= 3
      BY <1>1, <2>3
    <3> HIDE DEF r
    <3>2. QED BY <3>1
  <2>5. Len(received'[e]) = r
    BY <1>3
  <2> HIDE DEF r
  <2>6. Progress(e)'
    BY <2>1, <2>3, <2>4, <2>5 DEF Progress
  <2>7. QED BY <2>2, <2>6 DEF Manners
<1>11. QED BY <1>4, <1>5, <1>6, <1>7, <1>8, <1>9, <1>10

(* Where an end stands that may send, and what it has received and sent.    *)
LEMMA Standing ==
    ASSUME TypeOK, NEW e \in End, Manners(e)
    PROVE  LET r == Len(received[e])
               s == Len(sent[e])
               light == ~ guard[e] /\ SmallOnly(e)
           IN  /\ pc[e] = "greet" => r = 0 /\ s = 0 /\ light
               /\ pc[e] = "introduce" => r = 0 /\ s = 1 /\ light
               /\ pc[e] = "loop" /\ r = 0 => s = 2 /\ light
               /\ pc[e] = "compare" => r = 1 /\ s = 3 /\ light
               /\ pc[e] = "share" => r = 2 /\ s \in 2 .. 4 /\ light
<1> DEFINE r == Len(received[e])
           s == Len(sent[e])
<1>1. r \in Nat /\ s \in Nat
  BY DEF TypeOK
<1>2. /\ pc[e] \notin Failed /\ (r <= 1 \/ pc[e] \in { "share", "shared" }) => SmallOnly(e)
      /\ guard[e] => pc[e] = "shared"
  BY DEF Manners, Progress
<1>3. /\ pc[e] \in { "greet", "introduce" } => r = 0
      /\ pc[e] = "loop" /\ r = 0 => s = 2
      /\ pc[e] = "compare" => r = 1 /\ s = 3
      /\ pc[e] = "share" => r = 2 /\ s <= 4
  BY DEF Manners, Progress
<1>4. /\ pc[e] = "greet" => s = 0
      /\ pc[e] = "introduce" => s = 1
      /\ pc[e] = "share" => s >= 2
  BY DEF Manners, Order
<1> HIDE DEF r, s
<1>5. /\ r = 0 => r <= 1
      /\ r = 1 => r <= 1
      /\ s >= 2 /\ s <= 4 => s \in 2 .. 4
  BY <1>1
<1>6. \A label \in { "greet", "introduce", "loop", "compare", "share" } :
          label \notin Failed /\ label # "shared"
  BY DEF Failed
<1>7. /\ pc[e] = "greet" => r = 0 /\ s = 0 /\ ~ guard[e] /\ SmallOnly(e)
      /\ pc[e] = "introduce" => r = 0 /\ s = 1 /\ ~ guard[e] /\ SmallOnly(e)
      /\ pc[e] = "loop" /\ r = 0 => s = 2 /\ ~ guard[e] /\ SmallOnly(e)
      /\ pc[e] = "compare" => r = 1 /\ s = 3 /\ ~ guard[e] /\ SmallOnly(e)
      /\ pc[e] = "share" => r = 2 /\ s \in 2 .. 4 /\ ~ guard[e] /\ SmallOnly(e)
  BY <1>2, <1>3, <1>4, <1>5, <1>6
<1>8. QED BY <1>7 DEF r, s

LEMMA MannersMessage ==
    ASSUME FlowInv, FlowInv', NEW e \in End, Manners(e), Order(Other(e)),
           \/ SendVersion(e) \/ SendGetPeers(e) \/ OnVersion(e) \/ Compare(e) \/ OnVerAck(e)
           \/ OnGetBlocks(e) \/ OnBlocks(e) \/ OnGetPeers(e) \/ SharePeers(e) \/ OnPeers(e)
    PROVE  Manners(e)'
<1> DEFINE r == Len(received[e])
           s == Len(sent[e])
           q == Len(received'[e])
<1>1. /\ TypeOK /\ pc \in [ End -> Label ] /\ guard \in [ End -> BOOLEAN ]
      /\ r \in Nat /\ s \in Nat /\ q \in Nat /\ height[e] \in 0 .. MaxHeight
  <2>1. TypeOK /\ TypeOK'
    BY DEF FlowInv, TypeInv
  <2>2. received[e] \in Seq(Message) /\ sent[e] \in Seq(Message) /\ received'[e] \in Seq(Message)
    BY <2>1 DEF TypeOK
  <2>3. r \in Nat /\ s \in Nat /\ q \in Nat
    BY <2>2
  <2>4. height[e] \in 0 .. MaxHeight /\ pc \in [ End -> Label ] /\ guard \in [ End -> BOOLEAN ]
    BY <2>1 DEF TypeOK
  <2>5. QED BY <2>1, <2>3, <2>4
<1>2. Order(e) /\ Progress(e)
  BY DEF Manners
<1>3. ASSUME NEW type, type # "length", Receives(e, type)
      PROVE  /\ pc[e] = "loop" /\ q = r + 1 /\ s >= 2 /\ ~ guard[e]
             /\ (type = "Version" <=> r = 0) /\ (type = "GetPeers" <=> r = 1)
  <2>1. pc[e] = "loop"
    BY <1>3 DEF Receives
  <2>2. q = r + 1 /\ (type = "Version" <=> r = 0) /\ (type = "GetPeers" <=> r = 1)
    BY <1>3, NextReceived
  <2>3. s >= 2 /\ ~ guard[e]
    BY <1>2, <2>1 DEF Order, Progress
  <2>4. QED BY <2>1, <2>2, <2>3
<1>4. CASE SendVersion(e)
  <2> DEFINE m == Version(height[e])
  <2>1. /\ pc[e] = "greet" /\ Send(e, m, "introduce") /\ guard' = guard /\ received' = received
    BY <1>4 DEF SendVersion, lock
  <2>2. m \in Message /\ m.type = "Version" /\ m.size = SmallSize
    BY <1>1, SmallMessages
  <2> HIDE DEF m
  <2>3. s = 0 /\ s # 1 /\ q = 0 /\ ~ guard[e] /\ SmallOnly(e)
    <3>1. q = r
      BY <2>1
    <3>2. r = 0 /\ s = 0 /\ ~ guard[e] /\ SmallOnly(e)
      BY <1>1, <2>1, Standing
    <3> HIDE DEF q, r, s
    <3>3. QED BY <3>1, <3>2
  <2>4. QED BY <1>1, <2>1, <2>2, <2>3, MannersSent
<1>5. CASE SendGetPeers(e)
  <2>1. /\ pc[e] = "introduce" /\ Send(e, GetPeers, "greeted") /\ guard' = guard
        /\ received' = received
    BY <1>5 DEF SendGetPeers, lock
  <2>2. GetPeers \in Message /\ GetPeers.type = "GetPeers" /\ GetPeers.size = SmallSize
    BY SmallMessages
  <2>3. s = 1 /\ s # 0 /\ q = 0 /\ ~ guard[e] /\ SmallOnly(e)
    <3>1. q = r
      BY <2>1
    <3>2. r = 0 /\ s = 1 /\ ~ guard[e] /\ SmallOnly(e)
      BY <1>1, <2>1, Standing
    <3> HIDE DEF q, r, s
    <3>3. QED BY <3>1, <3>2
  <2>4. QED BY <1>1, <2>1, <2>2, <2>3, MannersSent
<1>6. CASE OnVersion(e)
  <2>1. Receives(e, "Version") /\ Send(e, VerAck, "compare") /\ guard' = guard
    BY <1>6 DEF OnVersion, lock
  <2>2. VerAck \in Message /\ VerAck.type = "VerAck" /\ VerAck.size = SmallSize
    BY SmallMessages
  <2>3. pc[e] = "loop" /\ r = 0 /\ q = 0 + 1 /\ ~ guard[e]
    <3>1. "Version" # "length" /\ r \in Nat
      BY <1>1
    <3>2. pc[e] = "loop" /\ q = r + 1 /\ r = 0 /\ ~ guard[e]
      BY <1>3, <2>1, <3>1
    <3>3. QED BY <3>2
  <2>4. s = 2 /\ s # 0 /\ s # 1 /\ q = 1 /\ SmallOnly(e)
    <3>1. s = 2 /\ SmallOnly(e)
      BY <1>1, <2>3, Standing
    <3>2. q = 0 + 1
      BY <2>3
    <3> HIDE DEF q, r, s
    <3>3. QED BY <3>1, <3>2
  <2>5. QED BY <1>1, <2>1, <2>2, <2>3, <2>4, MannersSent
<1>7. CASE Compare(e)
  <2>1. /\ pc[e] = "compare" /\ guard' = guard /\ received' = received
    BY <1>7 DEF Compare, lock
  <2>2. r = 1 /\ s = 3 /\ s # 0 /\ s # 1 /\ q = 1 /\ ~ guard[e] /\ SmallOnly(e)
    <3>1. q = r
      BY <2>1
    <3>2. r = 1 /\ s = 3 /\ ~ guard[e] /\ SmallOnly(e)
      BY <1>1, <2>1, Standing
    <3> HIDE DEF q, r, s
    <3>3. QED BY <3>1, <3>2
  <2>3. CASE offer[e] > height[e]
    <3> DEFINE m == GetBlocks(height[e])
    <3>1. m \in Message /\ m.type = "GetBlocks" /\ m.size = SmallSize
      BY <1>1, SmallMessages
    <3>2. Send(e, m, "loop")
      BY <1>7, <2>3 DEF Compare
    <3> HIDE DEF m
    <3>3. QED BY <1>1, <2>1, <2>2, <3>1, <3>2, MannersSent
  <2>4. CASE ~ (offer[e] > height[e])
    <3>1. pc'[e] = "loop" /\ sent' = sent
      BY <1>1, <1>7, <2>4 DEF Compare, Goto
    <3>2. Order(e)'
      BY <1>2, <2>1, <3>1 DEF Order
    <3>3. Progress(e)'
      <4>1. SmallOnly(e)'
        BY <2>2, <3>1 DEF SmallOnly
      <4>2. Len(received'[e]) = 1 /\ Len(sent'[e]) = 3 /\ ~ guard'[e]
        BY <2>1, <2>2, <3>1
      <4>3. QED BY <3>1, <4>1, <4>2 DEF Progress
    <3>4. QED BY <3>2, <3>3 DEF Manners
  <2>5. QED BY <2>3, <2>4
<1>8. CASE OnVerAck(e) \/ OnBlocks(e)
  <2>1. PICK type \in { "VerAck", "Blocks" } : Receives(e, type)
    BY <1>8 DEF OnVerAck, OnBlocks
  <2>2. pc' = pc /\ sent' = sent /\ guard' = guard
    BY <1>8 DEF OnVerAck, OnBlocks, lock
  <2>3. pc[e] = "loop" /\ q = r + 1 /\ r # 0 /\ r # 1
    BY <1>3, <2>1
  <2>4. QED BY <1>1, <2>2, <2>3, MannersReceived
<1>9. CASE OnPeers(e)
  <2>1. Receives(e, "Peers") /\ pc'[e] = "filter" /\ sent' = sent /\ guard' = guard
    BY <1>1, <1>9 DEF OnPeers, Goto
  <2>2. pc[e] = "loop" /\ q = r + 1 /\ r # 0 /\ r # 1
    BY <1>3, <2>1
  <2>3. QED BY <1>1, <2>1, <2>2, MannersReceived
<1>10. CASE OnGetPeers(e)
  <2>1. Receives(e, "GetPeers") /\ pc'[e] = "share" /\ sent' = sent /\ guard' = guard
    BY <1>1, <1>10 DEF OnGetPeers, Goto
  <2>2. pc[e] = "loop" /\ q = r + 1 /\ r = 1
    BY <1>3, <2>1
  <2>3. QED BY <1>1, <2>1, <2>2, MannersReceived
<1>11. CASE OnGetBlocks(e)
  <2>1. PICK size \in AnswerSizes \cup {SmallSize} : Send(e, Blocks(height[e], size), "loop")
    BY <1>11 DEF OnGetBlocks
  <2> DEFINE m == Blocks(height[e], size)
  <2>2. m \in Message /\ m.type = "Blocks"
    BY <1>1, SmallMessages
  <2>3. Receives(e, "GetBlocks") /\ Send(e, m, "loop") /\ guard' = guard
    BY <1>11, <2>1 DEF OnGetBlocks, lock
  <2> HIDE DEF m
  <2>4. q = r + 1 /\ r # 0 /\ r # 1 /\ s >= 2 /\ ~ guard[e]
    BY <1>3, <2>3
  <2>5. q >= 3 /\ ~ (q <= 2) /\ s # 0 /\ s # 1
    <3> HIDE DEF q, r, s
    <3>1. QED BY <1>1, <2>4
  <2>6. QED BY <1>1, <2>2, <2>3, <2>4, <2>5, MannersSent
<1>12. CASE SharePeers(e)
  <2>1. /\ pc[e] = "share" /\ Send(e, PeerList, "shared") /\ received' = received
    BY <1>12 DEF SharePeers
  <2>2. PeerList \in Message /\ PeerList.type = "Peers" /\ PeerList.size = SmallSize
    BY SmallMessages
  <2>3. q = 2 /\ s \in 2 .. 4 /\ SmallOnly(e)
    BY <1>1, <2>1, Standing
  <2>4. s # 0 /\ s # 1
    <3> HIDE DEF s
    <3>1. QED BY <1>1, <2>3
  <2>5. QED BY <1>1, <2>1, <2>2, <2>3, <2>4, MannersSent
<1>13. QED BY <1>4, <1>5, <1>6, <1>7, <1>8, <1>9, <1>10, <1>11, <1>12

LEMMA RoomStep == RoomInv /\ [Next]_vars => RoomInv'
<1> SUFFICES ASSUME RoomInv, [Next]_vars
             PROVE  \A f \in End : Load(f)' /\ Manners(f)'
  BY FlowStep DEF RoomInv, Manners
<1>1. /\ FlowInv /\ FlowInv' /\ TypeOK /\ TypeOK'
      /\ \A f \in End : Load(f) /\ Manners(f) /\ Order(f)
  BY FlowStep DEF RoomInv, Manners, FlowInv, TypeInv
<1>2. ASSUME UNCHANGED <<sent, up, stream, out, pc, received, guard>>
      PROVE  \A f \in End : Load(f)' /\ Manners(f)'
  BY <1>1, <1>2, LoadQuiet, MannersKept
<1>3. CASE UNCHANGED vars
  BY <1>2, <1>3 DEF vars, handler, wire, lock, history
<1>4. ASSUME NEW e \in End, NEW who, TableWanted(e, who) \/ TableUsed(e, who)
      PROVE  \A f \in End : Load(f)' /\ Manners(f)'
  BY <1>2, <1>4 DEF TableWanted, TableUsed, handler, wire, history
<1>5. CASE Cut
  <2>1. UNCHANGED <<sent, received, pc, guard>>
    BY <1>5 DEF Cut, handler, lock, history
  <2>2. "dialer" \in End
    BY DEF End
  <2>3. QED BY <1>1, <1>5, <2>1, <2>2, LoadSocket, MannersKept
<1>6. ASSUME NEW e \in End, Handle(e) \/ Grow(e)
      PROVE  \A f \in End : Load(f)' /\ Manners(f)'
  <2>1. \A f \in End : f # e => Manners(f)'
    <3>1. ASSUME NEW f \in End, f # e PROVE Manners(f)'
      <4>1. /\ sent'[f] = sent[f] /\ received'[f] = received[f]
            /\ pc'[f] = pc[f] /\ guard'[f] = guard[f]
        BY <1>1, <1>6, <3>1, OtherEnd
      <4>2. QED BY <1>1, <4>1, MannersKept
    <3>2. QED BY <3>1
  <2>2. Manners(e)'
    BY <1>1, <1>6, Ends, MannersQuiet, MannersMessage DEF Handle
  <2>3. CASE Enter(e) \/ StartLoop(e) \/ DropGuard(e) \/ FilterPeers(e) \/ Grow(e)
    <3>1. UNCHANGED <<sent, up, stream, out>>
      BY <2>3 DEF Enter, StartLoop, DropGuard, FilterPeers, Grow, handler, wire, history
    <3>2. QED BY <1>1, <2>1, <2>2, <3>1, LoadQuiet
  <2>4. \A f \in End : Load(f)'
    BY <1>1, <1>6, <2>3, LoadSocket, LoadMessage DEF Handle
  <2>5. QED BY <2>1, <2>2, <2>4
<1>7. QED BY <1>3, <1>4, <1>5, <1>6 DEF Next

(* Whoever sends while it holds the lock of the peer table has room for all *)
(* it has left to write, for every size of a buffer that takes five small   *)
(* messages and whatever the other end does: when an end answers GetPeers   *)
(* it has sent Version, GetPeers, VerAck and perhaps GetBlocks, and nothing *)
(* large.                                                                   *)
THEOREM LockHolderHasRoom == Spec => []LockHolderCanSend
<1>1. Spec => []RoomInv
  BY RoomInit, RoomStep, PTL DEF Spec
<1>2. RoomInv => LockHolderCanSend
  <2> SUFFICES ASSUME RoomInv, NEW e \in End, guard[e], up
               PROVE  Len(out[e]) <= Room(e)
    BY DEF LockHolderCanSend
  <2> DEFINE n == Len(sent[e])
             a == Len(stream[Other(e)])
             b == Len(out[e])
  <2>1. pc[e] = "shared" /\ n <= 5 /\ SmallOnly(e)
    BY DEF RoomInv, Progress, Failed
  <2>2. a + b <= n * SmallFrame
    BY <2>1 DEF RoomInv, Load
  <2>3. n \in Nat /\ a \in Nat /\ b \in Nat
    BY Ends DEF RoomInv, FlowInv, TypeInv, TypeOK
  <2>4. SmallFrame \in Nat /\ Capacity \in Nat /\ 5 * SmallFrame <= Capacity
    BY Sizes, ConnectionAssumption DEF SmallFrame
  <2>5. Room(e) = Capacity - a
    BY DEF Room
  <2> HIDE DEF n, a, b
  <2>6. n * SmallFrame <= 5 * SmallFrame
    <3>1. n \in { 0, 1, 2, 3, 4, 5 }
      BY <2>1, <2>3
    <3>2. QED BY <2>4, <3>1
  <2> DEFINE load == n * SmallFrame
  <2>7. load \in Nat
    BY <2>3, <2>4, OneMoreFrame
  <2> HIDE DEF load
  <2>8. load <= Capacity
    BY <2>4, <2>6, <2>7 DEF load
  <2>9. a + b <= load
    BY <2>2 DEF load
  <2>10. b <= Capacity - a
    BY <2>3, <2>4, <2>7, <2>8, <2>9
  <2>11. QED BY <2>5, <2>10 DEF b
<1>3. QED BY <1>1, <1>2, PTL
=============================================================================
