----------------------------- MODULE SyncProofs -----------------------------
(***************************************************************************)
(* Proofs about Sync for every set of nodes, every way they dial each      *)
(* other, every initial chain and every batch size: types, chains that     *)
(* only grow, one fetching end per connection, answers that follow on.     *)
(***************************************************************************)
EXTENDS Sync, SequenceTheorems, TLAPS

(* The two ends of a connection name each other.                            *)
LEMMA PeerEnds ==
    ASSUME NEW h \in Handler
    PROVE  /\ Peer(h) \in Handler /\ Peer(Peer(h)) = h /\ Peer(h) # h
           /\ h[1] \in Node /\ h[2] \in Node
           /\ Peer(h)[1] = h[2] /\ Peer(h)[2] = h[1]
<1> DEFINE diallers == UNION { { Dialler(d, k) : k \in Number(d) } : d \in Dials }
<1>1. \A d \in Dials : d[1] \in Node /\ d[2] \in Node /\ d[1] # d[2]
  BY SyncAssumption
<1>2. CASE h \in diallers
  <2>p. PICK d \in Dials : \E k \in Number(d) : h = <<d[1], d[2], k>>
    BY <1>2 DEF Dialler
  <2>1. PICK k \in Number(d) : h = <<d[1], d[2], k>>
    BY <2>p
  <2>2. Peer(h) = <<d[2], d[1], k>> /\ Peer(Peer(h)) = h
    BY <2>1 DEF Peer
  <2>3. Peer(h) \in Handler
    BY <1>2 DEF Handler
  <2>4. QED BY <1>1, <2>1, <2>2, <2>3
<1>3. CASE h \in { Peer(g) : g \in diallers }
  <2>1. PICK g \in diallers : h = Peer(g)
    BY <1>3
  <2>p. PICK d \in Dials : \E k \in Number(d) : g = <<d[1], d[2], k>>
    BY <2>1 DEF Dialler
  <2>2. PICK k \in Number(d) : g = <<d[1], d[2], k>>
    BY <2>p
  <2>3. h = <<d[2], d[1], k>> /\ Peer(h) = g
    BY <2>1, <2>2 DEF Peer
  <2>4. Peer(h) \in Handler
    BY <2>1, <2>3 DEF Handler
  <2>5. QED BY <1>1, <2>1, <2>2, <2>3, <2>4
<1>4. QED BY <1>2, <1>3 DEF Handler

(* What a queue holds after an append, and after its head is taken.         *)
LEMMA Elements ==
    ASSUME NEW S, NEW s \in Seq(S)
    PROVE  ToSet(s) = { s[i] : i \in 1 .. Len(s) }
  BY DEF ToSet

LEMMA FewElements ==
    /\ ToSet(<< >>) = {}
    /\ \A m : ToSet(<< m >>) = {m}
  BY DEF ToSet

LEMMA QueueElements ==
    ASSUME NEW S, NEW s \in Seq(S), NEW t \in Seq(S)
    PROVE  /\ s \o t \in Seq(S)
           /\ ToSet(s \o t) = ToSet(s) \cup ToSet(t)
<1>1. /\ s \o t \in Seq(S) /\ Len(s \o t) = Len(s) + Len(t)
      /\ \A i \in 1 .. Len(s) + Len(t) :
            (s \o t)[i] = IF i <= Len(s) THEN s[i] ELSE t[i - Len(s)]
  BY ConcatProperties
<1>2. ASSUME NEW k \in 1 .. Len(s) + Len(t) PROVE (s \o t)[k] \in ToSet(s) \cup ToSet(t)
  <2>1. k > Len(s) => k - Len(s) \in 1 .. Len(t)
    OBVIOUS
  <2>2. QED BY <1>1, <2>1, Elements
<1>3. ASSUME NEW k \in 1 .. Len(s) + Len(t) PROVE (s \o t)[k] \in ToSet(s \o t)
  BY <1>1, Elements
<1>4. ASSUME NEW j \in 1 .. Len(s) PROVE s[j] \in ToSet(s \o t)
  BY <1>1, <1>3
<1>5. ASSUME NEW j \in 1 .. Len(t) PROVE t[j] \in ToSet(s \o t)
  <2>1. j + Len(s) \in 1 .. Len(s) + Len(t) /\ (s \o t)[j + Len(s)] = t[j]
    BY <1>1
  <2>2. QED BY <1>3, <2>1
<1>6. ToSet(s \o t) \subseteq ToSet(s) \cup ToSet(t)
  <2>1. ToSet(s \o t) = { (s \o t)[k] : k \in 1 .. Len(s) + Len(t) }
    BY <1>1, Elements
  <2>2. QED BY <1>2, <2>1
<1>7. ToSet(s) \cup ToSet(t) \subseteq ToSet(s \o t)
  BY <1>4, <1>5, Elements
<1>8. QED BY <1>1, <1>6, <1>7

LEMMA QueueHead ==
    ASSUME NEW S, NEW s \in Seq(S), s # << >>
    PROVE  /\ s[1] \in S /\ Tail(s) \in Seq(S)
           /\ ToSet(s) = {s[1]} \cup ToSet(Tail(s))
<1>1. /\ s[1] \in S /\ Tail(s) \in Seq(S) /\ Len(Tail(s)) = Len(s) - 1 /\ Len(s) \in Nat \ {0}
      /\ \A i \in 1 .. Len(Tail(s)) : Tail(s)[i] = s[i + 1]
  BY HeadTailProperties, EmptySeq
<1>2. ASSUME NEW i \in 1 .. Len(Tail(s)) PROVE Tail(s)[i] \in ToSet(s)
  <2>1. i + 1 \in 1 .. Len(s) /\ Tail(s)[i] = s[i + 1]
    BY <1>1
  <2>2. QED BY <2>1, Elements
<1>3. ASSUME NEW j \in 1 .. Len(s), j # 1 PROVE s[j] \in ToSet(Tail(s))
  <2>1. j - 1 \in 1 .. Len(Tail(s)) /\ Tail(s)[j - 1] = s[j]
    BY <1>1, <1>3
  <2>2. Tail(s)[j - 1] \in ToSet(Tail(s))
    BY <1>1, <2>1, Elements
  <2>3. QED BY <2>1, <2>2
<1>4. ToSet(Tail(s)) \subseteq ToSet(s)
  <2>1. ToSet(Tail(s)) = { Tail(s)[k] : k \in 1 .. Len(Tail(s)) }
    BY <1>1, Elements
  <2>2. QED BY <1>2, <2>1
<1>5. s[1] \in ToSet(s)
  BY <1>1, Elements
<1>6. ToSet(s) \subseteq {s[1]} \cup ToSet(Tail(s))
  BY <1>3, Elements
<1>7. QED BY <1>1, <1>4, <1>5, <1>6

(* A chain is a prefix of another when it is no longer and agrees with it.  *)
LEMMA PrefixElements ==
    ASSUME NEW S, NEW s \in Seq(S), NEW t \in Seq(S)
    PROVE  IsPrefix(s, t) <=> (Len(s) <= Len(t) /\ \A i \in 1 .. Len(s) : s[i] = t[i])
<1> SUFFICES ASSUME Len(s) <= Len(t)
             PROVE  SubSeq(s, 1, Len(s)) = SubSeq(t, 1, Len(s))
                        <=> \A i \in 1 .. Len(s) : s[i] = t[i]
  BY DEF IsPrefix
<1>1. \A i \in 1 .. Len(s) : SubSeq(s, 1, Len(s))[i] = s[i] /\ SubSeq(t, 1, Len(s))[i] = t[i]
  OBVIOUS
<1>2. /\ SubSeq(s, 1, Len(s)) \in Seq(S) /\ Len(SubSeq(s, 1, Len(s))) = Len(s)
      /\ SubSeq(t, 1, Len(s)) \in Seq(S) /\ Len(SubSeq(t, 1, Len(s))) = Len(s)
  OBVIOUS
<1>3. QED BY <1>1, <1>2, SeqEqual

LEMMA PrefixTransitive ==
    ASSUME NEW S, NEW s \in Seq(S), NEW t \in Seq(S), NEW u \in Seq(S),
           IsPrefix(s, t), IsPrefix(t, u)
    PROVE  IsPrefix(s, u)
  BY PrefixElements

(* The parent's path is the path of a block without its last step.          *)
LEMMA FrontPrefix ==
    ASSUME NEW S, NEW s \in Seq(S), s # << >>
    PROVE  /\ Front(s) \in Seq(S) /\ Len(Front(s)) = Len(s) - 1
           /\ \A i \in 1 .. Len(s) - 1 : Front(s)[i] = s[i]
           /\ IsPrefix(Front(s), s)
<1> DEFINE n == Len(s) - 1
<1>1. n \in Nat /\ n <= Len(s) /\ Front(s) = SubSeq(s, 1, n)
  BY EmptySeq DEF Front
<1> HIDE DEF n
<1>2. Front(s) \in Seq(S) /\ Len(Front(s)) = n /\ \A i \in 1 .. n : Front(s)[i] = s[i]
  BY <1>1
<1>3. IsPrefix(Front(s), s)
  BY <1>1, <1>2, PrefixElements
<1>4. QED BY <1>2, <1>3 DEF n

-----------------------------------------------------------------------------
(* Types *)

(* An answer holds the prefixes of the sender's chain that are longer than  *)
(* `from'.                                                                  *)
LEMMA BlocksAfterElements ==
    ASSUME NEW chain \in Seq(Node), NEW from \in Seq(Node), NEW count \in Nat
    PROVE  /\ BlocksAfter(chain, from, count) \in Seq(Seq(Node))
           /\ \A i \in 1 .. Len(BlocksAfter(chain, from, count)) :
                 /\ IsPrefix(from, chain) /\ Len(from) + i <= Len(chain)
                 /\ BlocksAfter(chain, from, count)[i] = SubSeq(chain, 1, Len(from) + i)
<1>1. CASE IsPrefix(from, chain)
  <2> DEFINE last == IF Len(from) + 1 + count < Len(chain)
                     THEN Len(from) + 1 + count ELSE Len(chain)
             blocks == [ i \in 1 .. last - Len(from) |-> SubSeq(chain, 1, Len(from) + i) ]
  <2>1. last \in Nat /\ last - Len(from) \in Nat /\ last <= Len(chain)
    BY <1>1 DEF IsPrefix
  <2>2. \A i \in 1 .. last - Len(from) :
           Len(from) + i <= Len(chain) /\ SubSeq(chain, 1, Len(from) + i) \in Seq(Node)
    BY <2>1
  <2> HIDE DEF last
  <2>3. blocks \in Seq(Seq(Node)) /\ Len(blocks) = last - Len(from)
    BY <2>1, <2>2
  <2>4. QED BY <1>1, <2>2, <2>3 DEF BlocksAfter, last
<1>2. CASE ~ IsPrefix(from, chain)
  BY <1>2 DEF BlocksAfter
<1>3. QED BY <1>1, <1>2

(* add_block leaves a chain or extends it by one block.                     *)
LEMMA AddBlockGrows ==
    ASSUME TypeOK, NEW n \in Node, NEW b \in Seq(Node), AddBlock(n, b)
    PROVE  tip' \in [ Node -> Seq(Node) ] /\ \A k \in Node : IsPrefix(tip[k], tip'[k])
<1>0. tip \in [ Node -> Seq(Node) ]
  BY DEF TypeOK
<1>1. tip' \in [ Node -> Seq(Node) ]
  BY <1>0 DEF AddBlock
<1>2. \A k \in Node : IsPrefix(tip[k], tip[k])
  BY <1>0, PrefixElements
<1>3. CASE Front(b) = tip[n]
  <2>1. CASE b = << >>
    <3>1. Front(b) = b
      BY <2>1, EmptySeq, SubSeqEmpty DEF Front
    <3>2. QED BY <1>0, <1>2, <1>3, <3>1 DEF AddBlock
  <2>2. CASE b # << >>
    BY <1>0, <1>2, <1>3, <2>2, FrontPrefix DEF AddBlock
  <2>3. QED BY <2>1, <2>2
<1>4. CASE Front(b) # tip[n]
  BY <1>1, <1>2, <1>4 DEF AddBlock
<1>5. QED BY <1>1, <1>3, <1>4

(* What is sent arrives whole, or not at all when the connection is broken. *)
LEMMA ArrivingType ==
    ASSUME NEW h \in Handler, NEW msgs \in Seq(Message),
           NEW s \in Seq(Message)
    PROVE  /\ s \o Arriving(h, msgs) \in Seq(Message)
           /\ s \o Arriving(h, msgs) \in { s, s \o msgs }
           /\ h \notin up => s \o Arriving(h, msgs) = s
           /\ ToSet(s) \subseteq ToSet(s \o Arriving(h, msgs))
           /\ ToSet(s \o Arriving(h, msgs)) \subseteq ToSet(s) \cup ToSet(msgs)
<1>1. CASE h \in up
  BY <1>1, QueueElements DEF Arriving
<1>2. CASE h \notin up
  BY <1>2, ConcatEmptySeq DEF Arriving
<1>3. QED BY <1>1, <1>2

(* What a handler sends or takes changes the two inboxes of its connection. *)
LEMMA SendType ==
    ASSUME TypeOK, NEW h \in Handler, NEW msgs \in Seq(Message), Send(h, msgs)
    PROVE  /\ inbox' \in [ Handler -> Seq(Message) ]
           /\ inbox'[Peer(h)] \in { inbox[Peer(h)], inbox[Peer(h)] \o msgs }
           /\ h \notin up => inbox'[Peer(h)] = inbox[Peer(h)]
           /\ Coming(Peer(h)) \subseteq Coming(Peer(h))'
           /\ Coming(Peer(h))' \subseteq Coming(Peer(h)) \cup ToSet(msgs)
           /\ \A g \in Handler : g # Peer(h) => inbox'[g] = inbox[g]
<1>1. Peer(h) \in Handler /\ inbox[Peer(h)] \in Seq(Message)
  BY PeerEnds DEF TypeOK
<1>2. inbox'[Peer(h)] = inbox[Peer(h)] \o Arriving(h, msgs)
  BY <1>1 DEF Send, TypeOK
<1>3. inbox' \in [ Handler -> Seq(Message) ]
  BY <1>1, ArrivingType DEF Send, TypeOK
<1>4. \A g \in Handler : g # Peer(h) => inbox'[g] = inbox[g]
  BY DEF Send, TypeOK
<1>5. /\ inbox'[Peer(h)] \in { inbox[Peer(h)], inbox[Peer(h)] \o msgs }
      /\ h \notin up => inbox'[Peer(h)] = inbox[Peer(h)]
      /\ Coming(Peer(h)) \subseteq Coming(Peer(h))'
      /\ Coming(Peer(h))' \subseteq Coming(Peer(h)) \cup ToSet(msgs)
  <2>1. inbox'[Peer(h)] \in { inbox[Peer(h)], inbox[Peer(h)] \o msgs }
    BY <1>1, <1>2, ArrivingType
  <2>2. h \notin up => inbox'[Peer(h)] = inbox[Peer(h)]
    BY <1>1, <1>2, ArrivingType
  <2>3. /\ Coming(Peer(h))' = ToSet(inbox[Peer(h)] \o Arriving(h, msgs))
        /\ Coming(Peer(h)) = ToSet(inbox[Peer(h)])
    BY <1>1, <1>2 DEF Coming
  <2>4. QED BY <1>1, <2>1, <2>2, <2>3, ArrivingType
<1>6. QED BY <1>3, <1>4, <1>5

LEMMA ReplyType ==
    ASSUME TypeOK, NEW h \in Handler, NEW msgs \in Seq(Message), Reply(h, msgs),
           inbox[h] # << >>
    PROVE  /\ inbox' \in [ Handler -> Seq(Message) ]
           /\ inbox[h][1] \in Message
           /\ inbox'[h] = Tail(inbox[h])
           /\ Coming(h) = {inbox[h][1]} \cup Coming(h)'
           /\ inbox'[Peer(h)] \in { inbox[Peer(h)], inbox[Peer(h)] \o msgs }
           /\ h \notin up => inbox'[Peer(h)] = inbox[Peer(h)]
           /\ Coming(Peer(h)) \subseteq Coming(Peer(h))'
           /\ Coming(Peer(h))' \subseteq Coming(Peer(h)) \cup ToSet(msgs)
           /\ \A g \in Handler : g # h /\ g # Peer(h) => inbox'[g] = inbox[g]
<1>1. /\ Peer(h) \in Handler /\ Peer(h) # h
      /\ inbox[Peer(h)] \in Seq(Message) /\ inbox[h] \in Seq(Message)
  BY PeerEnds DEF TypeOK
<1>2. /\ inbox[h][1] \in Message /\ Tail(inbox[h]) \in Seq(Message)
      /\ Coming(h) = {inbox[h][1]} \cup ToSet(Tail(inbox[h]))
  BY <1>1, QueueHead DEF Coming
<1>3. /\ inbox'[Peer(h)] = inbox[Peer(h)] \o Arriving(h, msgs)
      /\ inbox'[h] = Tail(inbox[h])
  BY <1>1 DEF Reply, TypeOK
<1>4. inbox' \in [ Handler -> Seq(Message) ]
  BY <1>1, <1>2, ArrivingType DEF Reply, TypeOK
<1>5. \A g \in Handler : g # h /\ g # Peer(h) => inbox'[g] = inbox[g]
  BY DEF Reply, TypeOK
<1>6. /\ inbox'[Peer(h)] \in { inbox[Peer(h)], inbox[Peer(h)] \o msgs }
      /\ h \notin up => inbox'[Peer(h)] = inbox[Peer(h)]
      /\ Coming(Peer(h)) \subseteq Coming(Peer(h))'
      /\ Coming(Peer(h))' \subseteq Coming(Peer(h)) \cup ToSet(msgs)
  <2>1. inbox'[Peer(h)] \in { inbox[Peer(h)], inbox[Peer(h)] \o msgs }
    BY <1>1, <1>3, ArrivingType
  <2>2. h \notin up => inbox'[Peer(h)] = inbox[Peer(h)]
    BY <1>1, <1>3, ArrivingType
  <2>3. /\ Coming(Peer(h))' = ToSet(inbox[Peer(h)] \o Arriving(h, msgs))
        /\ Coming(Peer(h)) = ToSet(inbox[Peer(h)])
    BY <1>1, <1>3 DEF Coming
  <2>4. QED BY <1>1, <2>1, <2>2, <2>3, ArrivingType
<1>7. Coming(h)' = ToSet(Tail(inbox[h]))
  BY <1>3 DEF Coming
<1>8. QED BY <1>2, <1>3, <1>4, <1>5, <1>6, <1>7

(* What each kind of message carries.                                       *)
LEMMA MessageParts ==
    ASSUME NEW m \in Message
    PROVE  /\ m.type = "Version" => m.height \in Nat
           /\ m.type = "GetBlocks" => m.from \in Seq(Node) /\ m.count = Count
           /\ m.type = "Blocks" => m.blocks \in Seq(Seq(Node))
  BY DEF Message

LEMMA MessageTypes ==
    /\ \A k \in Nat : Version(k) \in Message
    /\ VerAck \in Message
    /\ \A from \in Seq(Node) : GetBlocks(from, Count) \in Message
    /\ \A blocks \in Seq(Seq(Node)) : Blocks(blocks) \in Message
  BY DEF Message, Version, VerAck, GetBlocks, Blocks

LEMMA NextTypeOK == TypeOK /\ [Next]_vars => TypeOK'
<1> SUFFICES ASSUME TypeOK, [Next]_vars PROVE TypeOK'
  OBVIOUS
<1>0. /\ tip \in [ Node -> Seq(Node) ] /\ dialed \subseteq Dials
      /\ inbox \in [ Handler -> Seq(Message) ] /\ offer \in [ Handler -> Nat ]
      /\ batch \in [ Handler -> Seq(Seq(Node)) ] /\ breaks \in 0 .. MaxBreaks
      /\ MaxBreaks \in Nat /\ \A n \in Node : Height(n) \in Nat
  BY SyncAssumption DEF TypeOK, Height
<1>1. ASSUME NEW d \in Dials, Connect(d) PROVE TypeOK'
  <2>1. \A k \in Number(d) : Dialler(d, k) \in Handler /\ Peer(Dialler(d, k)) \in Handler
    BY DEF Handler
  <2>2. /\ up' \subseteq Handler
        /\ pc' \in [ Handler -> { "closed", "greet", "loop", "compare", "ask", "import" } ]
    BY <1>1, <2>1 DEF Connect, TypeOK
  <2>3. QED BY <1>1, <2>2 DEF Connect, TypeOK
<1>2. ASSUME NEW H, Close(H)
      PROVE  /\ pc' \in [ Handler -> { "closed", "greet", "loop", "compare", "ask", "import" } ]
             /\ inbox' \in [ Handler -> Seq(Message) ]
             /\ offer' \in [ Handler -> Nat ]
             /\ batch' \in [ Handler -> Seq(Seq(Node)) ]
  BY <1>0, <1>2 DEF Close, TypeOK
<1>3. ASSUME NEW h \in Handler, Cut(h) PROVE TypeOK'
  BY <1>0, <1>3 DEF Cut, TypeOK
<1>3e. ASSUME NEW h \in Handler, End(h) PROVE TypeOK'
  BY <1>0, <1>2, <1>3e DEF End, TypeOK
<1>4. ASSUME NEW n \in Node, Restart(n) PROVE TypeOK'
  BY <1>0, <1>2, <1>4 DEF Restart, TypeOK
<1>5. ASSUME NEW n \in Node, Mine(n) PROVE TypeOK'
  <2>1. tip' \in [ Node -> Seq(Node) ]
    BY <1>0, <1>5, AppendProperties DEF Mine
  <2>2. QED BY <1>5, <2>1 DEF Mine, connection, TypeOK
<1>6. ASSUME NEW h \in Handler, Greet(h) PROVE TypeOK'
  <2>1. << Version(Height(h[1])) >> \in Seq(Message)
    BY <1>0, PeerEnds, MessageTypes
  <2>2. inbox' \in [ Handler -> Seq(Message) ]
    BY <1>6, <2>1, SendType DEF Greet
  <2>3. QED BY <1>6, <2>2 DEF Greet, TypeOK
<1>7. ASSUME NEW h \in Handler, OnVersion(h) PROVE TypeOK'
  <2>1. << VerAck >> \in Seq(Message)
    BY MessageTypes
  <2>2. inbox' \in [ Handler -> Seq(Message) ] /\ inbox[h][1] \in Message
    BY <1>7, <2>1, ReplyType DEF OnVersion, Receives
  <2>3. inbox[h][1].height \in Nat
    BY <1>7, <2>2, MessageParts DEF OnVersion, Receives
  <2>4. QED BY <1>7, <2>2, <2>3 DEF OnVersion, TypeOK
<1>8. ASSUME NEW h \in Handler, Compare(h) \/ ImportDone(h) PROVE TypeOK'
  BY <1>8 DEF Compare, ImportDone, TypeOK
<1>9. ASSUME NEW h \in Handler, Ask(h) PROVE TypeOK'
  <2>1. << GetBlocks(tip[h[1]], Count) >> \in Seq(Message)
    BY <1>0, PeerEnds, MessageTypes
  <2>2. inbox' \in [ Handler -> Seq(Message) ]
    BY <1>9, <2>1, SendType DEF Ask
  <2>3. QED BY <1>9, <2>2 DEF Ask, TypeOK
<1>10. ASSUME NEW h \in Handler, OnVerAck(h) PROVE TypeOK'
  <2>1. inbox' \in [ Handler -> Seq(Message) ]
    BY <1>10, EmptySeq, ReplyType DEF OnVerAck, Receives
  <2>2. QED BY <1>10, <2>1 DEF OnVerAck, TypeOK
<1>11. ASSUME NEW h \in Handler, OnGetBlocks(h) PROVE TypeOK'
  <2> DEFINE blocks == BlocksAfter(tip[h[1]], inbox[h][1].from, inbox[h][1].count)
  <2>1. inbox[h][1] \in Message
    BY <1>0, <1>11, QueueHead DEF OnGetBlocks, Receives
  <2>2. blocks \in Seq(Seq(Node))
    BY <1>0, <1>11, <2>1, PeerEnds, MessageParts, BlocksAfterElements, SyncAssumption
       DEF OnGetBlocks, Receives
  <2>3. << Blocks(blocks) >> \in Seq(Message)
    BY <2>2, MessageTypes
  <2>4. inbox' \in [ Handler -> Seq(Message) ]
    BY <1>11, <2>3, ReplyType DEF OnGetBlocks, Receives
  <2>5. QED BY <1>11, <2>4 DEF OnGetBlocks, TypeOK
<1>12. ASSUME NEW h \in Handler, OnBlocks(h) PROVE TypeOK'
  <2>1. inbox' \in [ Handler -> Seq(Message) ] /\ inbox[h][1] \in Message
    BY <1>12, EmptySeq, ReplyType DEF OnBlocks, Receives
  <2>2. inbox[h][1].blocks \in Seq(Seq(Node))
    BY <1>12, <2>1, MessageParts DEF OnBlocks, Receives
  <2>3. QED BY <1>12, <2>1, <2>2 DEF OnBlocks, TypeOK
<1>13. ASSUME NEW h \in Handler, Import(h) PROVE TypeOK'
  <2>1. batch[h][1] \in Seq(Node) /\ Tail(batch[h]) \in Seq(Seq(Node))
    BY <1>0, <1>13, QueueHead DEF Import
  <2>2. tip' \in [ Node -> Seq(Node) ]
    BY <1>13, <2>1, PeerEnds, AddBlockGrows DEF Import
  <2>3. QED BY <1>13, <2>1, <2>2 DEF Import, TypeOK
<1>14. CASE UNCHANGED vars
  BY <1>14 DEF vars, connection, TypeOK
<1>15. QED
  BY <1>1, <1>3, <1>3e, <1>4, <1>5, <1>6, <1>7, <1>8, <1>9, <1>10, <1>11, <1>12, <1>13, <1>14
     DEF Next, Handle

LEMMA InitTypeOK == Init => TypeOK
  BY SyncAssumption DEF Init, TypeOK

(* Every message on its way, every batch and every chain is well formed.    *)
THEOREM SyncTypeCorrect == Spec => []TypeOK
  BY InitTypeOK, NextTypeOK, PTL DEF Spec

-----------------------------------------------------------------------------
(* Whatever blocks arrive in whatever order, a chain is extended or left    *)
(* alone: no step of any node replaces a block.                             *)
LEMMA TipsGrow ==
    ASSUME TypeOK, [Next]_vars
    PROVE  \A n \in Node : IsPrefix(tip[n], tip'[n])
<1>0. tip \in [ Node -> Seq(Node) ] /\ batch \in [ Handler -> Seq(Seq(Node)) ]
  BY DEF TypeOK
<1>1. CASE tip' = tip
  BY <1>0, <1>1, PrefixElements
<1>2. ASSUME NEW n \in Node, Mine(n) PROVE \A k \in Node : IsPrefix(tip[k], tip'[k])
  <2>1. \A k \in Node : k # n => tip'[k] = tip[k]
    BY <1>0, <1>2 DEF Mine
  <2>2. tip'[n] = Append(tip[n], n)
    BY <1>0, <1>2 DEF Mine
  <2>3. IsPrefix(tip[n], tip'[n])
    <3>1. /\ tip'[n] \in Seq(Node) /\ Len(tip'[n]) = Len(tip[n]) + 1
          /\ \A i \in 1 .. Len(tip[n]) : tip'[n][i] = tip[n][i]
      BY <1>0, <2>2, AppendProperties
    <3>2. QED BY <1>0, <3>1, PrefixElements
  <2>4. QED BY <1>0, <2>1, <2>3, PrefixElements
<1>3. ASSUME NEW h \in Handler, Import(h) PROVE \A k \in Node : IsPrefix(tip[k], tip'[k])
  <2>1. batch[h][1] \in Seq(Node) /\ AddBlock(h[1], batch[h][1])
    BY <1>0, <1>3, QueueHead DEF Import
  <2>2. QED BY <2>1, PeerEnds, AddBlockGrows
<1>4. QED
  BY <1>1, <1>2, <1>3
     DEF Next, Handle, Connect, Cut, End, Restart, Greet, OnVersion, Compare, Ask, OnVerAck,
         OnGetBlocks, OnBlocks, ImportDone, vars

(* Chains only grow, on every node, under mining and under synchronisation. *)
THEOREM ChainsOnlyGrow == Spec => [][\A n \in Node : IsPrefix(tip[n], tip'[n])]_vars
<1>1. TypeOK /\ [Next]_vars => [\A n \in Node : IsPrefix(tip[n], tip'[n])]_vars
  BY TipsGrow
<1>2. QED BY <1>1, InitTypeOK, NextTypeOK, PTL DEF Spec

-----------------------------------------------------------------------------
(* Why the two ends never fetch from each other.  The height an end is told *)
(* is its peer's height when it said hello; an end fetches only if that is  *)
(* above its own height, hence above the height it had itself announced.    *)
(* So a fetching end was told more than its peer was, and not both can be.  *)
(* An end that outlives its connection and its peer may still read what was *)
(* sent before, and import it.                                              *)

\* The handler has yet to be told the height of a peer that still can tell it.
Unannounced(h) == pc[Peer(h)] = "greet" \/ InTransit(h, "Version")

\* A Version can only be the first of the messages.
VersionFirst(msgs) == \A i \in 2 .. Len(msgs) : msgs[i].type # "Version"

\* A connection stands for both of its ends, which both run.
Standing(h) ==
    /\ h \in up => Peer(h) \in up /\ pc[h] # "closed"
    /\ pc[h] = "closed" => inbox[h] = << >>

EndInv(h) ==
    /\ offer[h] <= Height(h[2])
    /\ \A m \in Coming(h) : m.type = "Version" => m.height <= Height(h[2])
    /\ VersionFirst(inbox[h])
    /\ Standing(h)
    /\ pc[h] = "greet" => inbox[Peer(h)] = << >> /\ ~ Fetching(h)
    /\ Unannounced(h) => pc[h] \in { "closed", "greet", "loop" } /\ ~ Fetching(h)
    /\ Fetching(h) =>
          /\ offer[Peer(h)] < offer[h]
          /\ \A m \in Coming(Peer(h)) : m.type = "Version" => m.height < offer[h]

FetchInv == TypeOK /\ \A h \in Handler : EndInv(h)

LEMMA VersionStaysFirst ==
    ASSUME NEW s \in Seq(Message), VersionFirst(s)
    PROVE  /\ \A m \in Message : m.type # "Version" => VersionFirst(s \o << m >>)
           /\ s # << >> => /\ VersionFirst(Tail(s))
                           /\ \A m \in ToSet(Tail(s)) : m.type # "Version"
<1>1. ASSUME NEW m \in Message, m.type # "Version" PROVE VersionFirst(s \o << m >>)
  BY <1>1, ConcatProperties DEF VersionFirst
<1>2. ASSUME s # << >>
      PROVE  VersionFirst(Tail(s)) /\ \A m \in ToSet(Tail(s)) : m.type # "Version"
  <2>1. /\ Tail(s) \in Seq(Message) /\ Len(s) \in Nat /\ Len(Tail(s)) = Len(s) - 1
        /\ \A i \in 1 .. Len(Tail(s)) : Tail(s)[i] = s[i + 1]
    BY <1>2, HeadTailProperties, EmptySeq
  <2>2. \A i \in 1 .. Len(Tail(s)) : Tail(s)[i].type # "Version"
    BY <2>1 DEF VersionFirst
  <2>3. ToSet(Tail(s)) = { Tail(s)[i] : i \in 1 .. Len(Tail(s)) }
    BY <2>1, Elements
  <2>4. QED BY <2>1, <2>2, <2>3 DEF VersionFirst
<1>3. QED BY <1>1, <1>2

(* Heights are numbers, and no step lowers one.                             *)
LEMMA HeightsGrow ==
    ASSUME TypeOK, [Next]_vars
    PROVE  \A n \in Node : Height(n) \in Nat /\ Height(n)' \in Nat /\ Height(n) <= Height(n)'
  BY TipsGrow, NextTypeOK DEF IsPrefix, Height, TypeOK

(* A connection that a step leaves alone, whatever its chains do.           *)
LEMMA Elsewhere ==
    ASSUME FetchInv, [Next]_vars, NEW g \in Handler,
           pc'[g] = pc[g], pc'[Peer(g)] = pc[Peer(g)],
           inbox'[g] = inbox[g], inbox'[Peer(g)] = inbox[Peer(g)],
           offer'[g] = offer[g], offer'[Peer(g)] = offer[Peer(g)],
           g \in up' => g \in up, Peer(g) \in up' <=> g \in up'
    PROVE  EndInv(g)'
<1>1. TypeOK /\ EndInv(g) /\ offer[g] \in Nat /\ g[2] \in Node
  BY PeerEnds DEF FetchInv, TypeOK
<1>2. Coming(g)' = Coming(g) /\ Coming(Peer(g))' = Coming(Peer(g))
  BY DEF Coming
<1>3. Fetching(g)' = Fetching(g) /\ Unannounced(g)' = Unannounced(g)
  BY <1>2 DEF Fetching, Unannounced, InTransit
<1>4. \A m \in Coming(g) : m \in Message
  <2>1. inbox[g] \in Seq(Message)
    BY <1>1 DEF TypeOK
  <2>2. QED BY <2>1, Elements DEF Coming
<1>5. /\ Height(g[2]) \in Nat /\ Height(g[2])' \in Nat /\ Height(g[2]) <= Height(g[2])'
  BY <1>1, HeightsGrow
<1>6. \A m \in Coming(g) : m.type = "Version" => m.height <= Height(g[2])'
  BY <1>1, <1>4, <1>5, MessageParts DEF EndInv
<1>7. offer[g] <= Height(g[2])'
  BY <1>1, <1>5 DEF EndInv
<1>8. QED BY <1>1, <1>2, <1>3, <1>6, <1>7 DEF EndInv, Standing

(* A step of one handler touches the two ends of its connection.            *)
LEMMA TwoEnds ==
    ASSUME FetchInv, [Next]_vars, NEW h \in Handler,
           \A g \in Handler \ { h, Peer(h) } :
              pc'[g] = pc[g] /\ inbox'[g] = inbox[g] /\ offer'[g] = offer[g],
           up' \ { h, Peer(h) } = up \ { h, Peer(h) },
           EndInv(h)', EndInv(Peer(h))'
    PROVE  FetchInv'
<1>1. TypeOK'
  BY NextTypeOK DEF FetchInv
<1>2. ASSUME NEW g \in Handler \ { h, Peer(h) } PROVE EndInv(g)'
  <2>1. Peer(g) \in Handler \ { h, Peer(h) } /\ Peer(Peer(g)) = g
    BY <1>2, PeerEnds
  <2>2. Peer(g) \in up <=> g \in up
    BY <2>1 DEF FetchInv, EndInv, Standing
  <2>3. QED BY <1>2, <2>1, <2>2, Elsewhere
<1>3. QED BY <1>1, <1>2 DEF FetchInv

LEMMA NextFetchInv == FetchInv /\ [Next]_vars => FetchInv'
<1> SUFFICES ASSUME FetchInv, [Next]_vars PROVE FetchInv'
  OBVIOUS
<1>0. /\ TypeOK /\ TypeOK' /\ \A h \in Handler : EndInv(h)
      /\ inbox \in [ Handler -> Seq(Message) ] /\ offer \in [ Handler -> Nat ]
      /\ pc \in [ Handler -> { "closed", "greet", "loop", "compare", "ask", "import" } ]
  BY NextTypeOK DEF FetchInv, TypeOK
<1>t. \A n \in Node : tip[n] \in Seq(Node) /\ Height(n) \in Nat /\ Height(n)' \in Nat
                       /\ Height(n) <= Height(n)'
  BY <1>0, HeightsGrow DEF TypeOK
<1>m. \A h \in Handler : \A m \in Coming(h) : m \in Message
  BY <1>0, Elements DEF Coming
<1>u. \A h \in Handler : Peer(h) \in up <=> h \in up
  BY <1>0, PeerEnds DEF EndInv, Standing
<1>1. ASSUME NEW d \in Dials, Connect(d) PROVE FetchInv'
  <2>1. PICK k \in Number(d) :
           /\ Unused(d, k)
           /\ up' = up \cup { Dialler(d, k), Peer(Dialler(d, k)) }
           /\ pc' = [ h \in Handler |-> IF h \in { Dialler(d, k), Peer(Dialler(d, k)) }
                                        THEN "greet" ELSE pc[h] ]
    BY <1>1 DEF Connect
  <2> DEFINE e == Dialler(d, k)
             ends == { e, Peer(e) }
  <2>2. e \in Handler
    BY DEF Handler
  <2>3. /\ Peer(e) \in Handler /\ Peer(Peer(e)) = e
        /\ pc[e] = "closed" /\ pc[Peer(e)] = "closed"
        /\ UNCHANGED <<tip, inbox, offer>>
    BY <1>1, <2>1, <2>2, PeerEnds DEF Connect, Unused
  <2> HIDE DEF e
  <2>4. /\ \A g \in ends : pc'[g] = "greet" /\ g \in up'
        /\ \A g \in Handler \ ends : pc'[g] = pc[g]
        /\ up' \ ends = up \ ends
    BY <1>0, <2>1, <2>2, <2>3 DEF e
  <2>5. \A g \in ends : g \in Handler /\ Peer(g) \in ends /\ inbox[g] = << >> /\ Coming(g)' = {}
    BY <1>0, <2>2, <2>3, FewElements DEF EndInv, Standing, Coming
  <2>6. \A g \in ends : ~ Fetching(g)'
    BY <2>4, <2>5 DEF Fetching, InTransit
  <2>7. ASSUME NEW g \in ends PROVE EndInv(g)'
    <3>1. EndInv(g) /\ Height(g[2])' = Height(g[2])
      BY <1>0, <2>3, <2>5 DEF Height
    <3>2. QED BY <2>3, <2>4, <2>5, <2>6, <3>1 DEF EndInv, Standing
  <2>8. QED BY <2>2, <2>3, <2>4, <2>7, TwoEnds
<1>2. ASSUME NEW H, Close(H), \A g \in Handler : g \in up' => g \in up \ H /\ Peer(g) \in up'
      PROVE  FetchInv'
  <2>1. \A g \in Handler :
           /\ g \in H => pc'[g] = "closed" /\ inbox'[g] = << >> /\ offer'[g] = 0
           /\ g \notin H => pc'[g] = pc[g] /\ inbox'[g] = inbox[g] /\ offer'[g] = offer[g]
    BY <1>2 DEF Close
  <2>2. \A g \in Handler : Coming(g)' \subseteq Coming(g)
    BY <2>1, FewElements DEF Coming
  <2>3. ASSUME NEW g \in Handler, g \in H PROVE EndInv(g)'
    <3>1. pc'[g] = "closed" /\ offer'[g] = 0 /\ inbox'[g] = << >> /\ Coming(g)' = {}
      BY <2>1, <2>3, FewElements DEF Coming
    <3>2. ~ Fetching(g)' /\ VersionFirst(inbox[g])'
      BY <3>1 DEF Fetching, VersionFirst
    <3>3. 0 <= Height(g[2])' /\ g \notin up'
      BY <1>2, <1>t, <2>3, PeerEnds
    <3>4. QED BY <3>1, <3>2, <3>3 DEF EndInv, Standing
  <2>4. ASSUME NEW g \in Handler, g \notin H PROVE EndInv(g)'
    <3> DEFINE p == Peer(g)
    <3>1. /\ p \in Handler /\ Peer(p) = g /\ g[2] \in Node /\ EndInv(g)
          /\ offer[g] \in Nat /\ offer[p] \in Nat
      BY <1>0, PeerEnds
    <3>2. pc'[g] = pc[g] /\ inbox'[g] = inbox[g] /\ offer'[g] = offer[g]
      BY <2>1, <2>4
    <3>3. Coming(g)' = Coming(g) /\ Coming(p)' \subseteq Coming(p)
      BY <2>2, <3>1, <3>2 DEF Coming
    <3>4. (pc'[p] = "greet" => pc[p] = "greet") /\ (inbox[p] = << >> => inbox'[p] = << >>)
      BY <2>1, <3>1
    <3>5. (Fetching(g)' => Fetching(g)) /\ (Unannounced(g)' => Unannounced(g))
      BY <3>2, <3>3, <3>4 DEF Fetching, Unannounced, InTransit
    <3>6. /\ Height(g[2]) \in Nat /\ Height(g[2])' \in Nat /\ Height(g[2]) <= Height(g[2])'
          /\ \A m \in Coming(g) : m.type = "Version" => m.height \in Nat
      BY <1>t, <1>m, <3>1, MessageParts
    <3>7. offer'[p] \in { 0, offer[p] }
      BY <2>1, <3>1
    <3>8. Fetching(g)' => offer'[p] < offer'[g]
      BY <3>1, <3>2, <3>5, <3>7 DEF EndInv
    <3>9. /\ offer'[g] <= Height(g[2])'
          /\ \A m \in Coming(g)' : m.type = "Version" => m.height <= Height(g[2])'
      BY <3>1, <3>2, <3>3, <3>6 DEF EndInv
    <3>10. (g \in up' => p \in up' /\ pc'[g] # "closed") /\ VersionFirst(inbox[g])'
      BY <1>2, <3>1, <3>2 DEF EndInv, Standing
    <3>11. Fetching(g)' => \A m \in Coming(p)' : m.type = "Version" => m.height < offer'[g]
      BY <3>1, <3>2, <3>3, <3>5 DEF EndInv
    <3>12. QED BY <3>1, <3>2, <3>4, <3>5, <3>8, <3>9, <3>10, <3>11 DEF EndInv, Standing
  <2>5. QED BY <1>0, <2>3, <2>4 DEF FetchInv
<1>3. ASSUME NEW h \in Handler, Cut(h) PROVE FetchInv'
  <2>1. UNCHANGED <<tip, pc, inbox, offer>> /\ up' = up \ { h, Peer(h) }
    BY <1>3 DEF Cut
  <2>2. \A g \in Handler : Peer(g) \in up' <=> g \in up'
    BY <1>u, <1>3, <2>1, PeerEnds
  <2>3. QED BY <1>0, <2>1, <2>2, Elsewhere DEF FetchInv
<1>3e. ASSUME NEW h \in Handler, End(h) PROVE FetchInv'
  BY <1>2, <1>3e, <1>u DEF End
<1>4. ASSUME NEW n \in Node, Restart(n) PROVE FetchInv'
  <2>1. \A g \in Handler : g \in up' => g \in up \ { f \in Handler : f[1] = n } /\ Peer(g) \in up'
    BY <1>4, <1>u, PeerEnds DEF Restart
  <2>2. QED BY <1>2, <1>4, <2>1 DEF Restart
<1>5. CASE UNCHANGED <<pc, inbox, offer, up>>
  BY <1>0, <1>5, <1>u, Elsewhere DEF FetchInv
<1>6. ASSUME NEW n \in Node, Mine(n) PROVE FetchInv'
  BY <1>5, <1>6 DEF Mine, connection
<1>7. ASSUME NEW h \in Handler, Handle(h) PROVE FetchInv'
  <2> DEFINE p == Peer(h)
  <2>1. /\ p \in Handler /\ Peer(h) = p /\ Peer(p) = h /\ p # h
        /\ h[1] \in Node /\ h[2] \in Node /\ p[1] = h[2] /\ p[2] = h[1]
    BY PeerEnds
  <2>2. EndInv(h) /\ EndInv(p) /\ inbox[h] \in Seq(Message) /\ inbox[p] \in Seq(Message)
    BY <1>0, <2>1
  <2>u. up' = up /\ (h \in up <=> p \in up) /\ (h \in up => pc[h] # "closed" /\ pc[p] # "closed")
    <3>1. up' = up
      BY <1>7 DEF Handle, Greet, OnVersion, Compare, Ask, OnVerAck, OnGetBlocks, OnBlocks,
                  Import, ImportDone
    <3>2. QED BY <2>1, <2>2, <3>1 DEF EndInv, Standing
  <2>3. /\ Fetching(h) <=>
              /\ pc[h] # "closed"
              /\ \/ pc[h] \in { "ask", "import" }
                 \/ \E m \in Coming(p) : m.type = "GetBlocks"
                 \/ \E m \in Coming(h) : m.type = "Blocks"
        /\ Fetching(p) <=>
              /\ pc[p] # "closed"
              /\ \/ pc[p] \in { "ask", "import" }
                 \/ \E m \in Coming(h) : m.type = "GetBlocks"
                 \/ \E m \in Coming(p) : m.type = "Blocks"
        /\ Fetching(h)' <=>
              /\ pc'[h] # "closed"
              /\ \/ pc'[h] \in { "ask", "import" }
                 \/ \E m \in Coming(p)' : m.type = "GetBlocks"
                 \/ \E m \in Coming(h)' : m.type = "Blocks"
        /\ Fetching(p)' <=>
              /\ pc'[p] # "closed"
              /\ \/ pc'[p] \in { "ask", "import" }
                 \/ \E m \in Coming(h)' : m.type = "GetBlocks"
                 \/ \E m \in Coming(p)' : m.type = "Blocks"
    BY <2>1 DEF Fetching, InTransit
  <2>4. /\ Unannounced(h) <=> \/ pc[p] = "greet"
                              \/ \E m \in Coming(h) : m.type = "Version"
        /\ Unannounced(p) <=> \/ pc[h] = "greet"
                              \/ \E m \in Coming(p) : m.type = "Version"
        /\ Unannounced(h)' <=> \/ pc'[p] = "greet"
                               \/ \E m \in Coming(h)' : m.type = "Version"
        /\ Unannounced(p)' <=> \/ pc'[h] = "greet"
                               \/ \E m \in Coming(p)' : m.type = "Version"
    BY <2>1 DEF Unannounced, InTransit
  <2>s. ASSUME pc'[h] # "closed", pc'[p] = pc[p],
               h \notin up => inbox'[p] = inbox[p]
        PROVE  Standing(h)' /\ Standing(p)'
    BY <2>1, <2>2, <2>u, <2>s DEF EndInv, Standing
  <2>g. pc[h] \notin { "closed", "greet", "loop" } => pc[p] # "greet" /\ ~ Unannounced(h)
    BY <2>1, <2>2 DEF EndInv, Unannounced
  <2> HIDE DEF p
  <2>5. CASE Greet(h)
    <3> DEFINE v == Version(Height(h[1]))
    <3>1. v \in Message /\ v.type = "Version" /\ v.height = Height(h[1]) /\ << v >> \in Seq(Message)
      BY <1>t, <2>1, MessageTypes DEF Version
    <3> HIDE DEF v
    <3>2. /\ pc[h] = "greet" /\ pc'[h] = "loop" /\ \A g \in Handler : g # h => pc'[g] = pc[g]
          /\ UNCHANGED <<tip, offer>> /\ Send(h, << v >>)
      BY <1>0, <2>5 DEF Greet, v
    <3>3. inbox[p] = << >> /\ ~ Fetching(h) /\ ~ Fetching(p) /\ Coming(p) = {}
      BY <2>1, <2>2, <2>4, <3>2, FewElements DEF EndInv, Coming, p
    <3>4. /\ inbox'[p] \in { inbox[p], inbox[p] \o << v >> } /\ Coming(p)' \subseteq {v}
          /\ h \notin up => inbox'[p] = inbox[p]
          /\ \A g \in Handler : g # p => inbox'[g] = inbox[g]
      BY <1>0, <3>1, <3>2, <3>3, SendType, FewElements DEF p
    <3>5. VersionFirst(inbox[p])'
      <4>1. inbox'[p] \in { << >>, << v >> }
        BY <3>3, <3>4
      <4>2. QED BY <4>1 DEF VersionFirst
    <3>6. Coming(h)' = Coming(h) /\ inbox'[h] = inbox[h]
      BY <2>1, <3>4 DEF Coming
    <3>7. ~ Fetching(h)' /\ ~ Fetching(p)'
      BY <2>1, <2>3, <3>1, <3>2, <3>3, <3>4, <3>6
    <3>8. Standing(h)' /\ Standing(p)'
      BY <2>1, <2>s, <3>2, <3>4
    <3>9. EndInv(h)'
      BY <1>t, <2>1, <2>2, <2>4, <3>2, <3>3, <3>4, <3>6, <3>7, <3>8 DEF EndInv, Height
    <3>10. EndInv(p)'
      BY <1>t, <2>1, <2>2, <2>4, <3>1, <3>2, <3>4, <3>5, <3>6, <3>7, <3>8 DEF EndInv, Height
    <3>11. QED BY <2>1, <2>u, <3>2, <3>4, <3>9, <3>10, TwoEnds DEF p
  <2>6. ASSUME NEW type, Receives(h, type), NEW msgs \in Seq(Message), Reply(h, msgs)
        PROVE  /\ pc[h] = "loop" /\ pc[p] # "greet"
               /\ inbox[h][1] \in Coming(h) /\ inbox[h][1].type = type
               /\ Coming(h) = {inbox[h][1]} \cup Coming(h)'
               /\ VersionFirst(inbox[h])' /\ \A m \in Coming(h)' : m.type # "Version"
               /\ inbox'[p] \in { inbox[p], inbox[p] \o msgs }
               /\ h \notin up => inbox'[p] = inbox[p]
               /\ Coming(p) \subseteq Coming(p)' /\ Coming(p)' \subseteq Coming(p) \cup ToSet(msgs)
               /\ \A g \in Handler \ { h, p } : inbox'[g] = inbox[g]
    <3>1. /\ pc[h] = "loop" /\ inbox[h] # << >> /\ inbox[h][1].type = type
      BY <2>6 DEF Receives
    <3>2. pc[p] # "greet"
      BY <2>1, <2>2, <3>1 DEF EndInv
    <3>3. /\ inbox'[h] = Tail(inbox[h]) /\ Coming(h) = {inbox[h][1]} \cup Coming(h)'
          /\ inbox'[p] \in { inbox[p], inbox[p] \o msgs }
          /\ h \notin up => inbox'[p] = inbox[p]
          /\ Coming(p) \subseteq Coming(p)' /\ Coming(p)' \subseteq Coming(p) \cup ToSet(msgs)
          /\ \A g \in Handler \ { h, p } : inbox'[g] = inbox[g]
      BY <1>0, <2>6, <3>1, ReplyType DEF p
    <3>4. VersionFirst(Tail(inbox[h])) /\ \A m \in ToSet(Tail(inbox[h])) : m.type # "Version"
      BY <2>2, <3>1, VersionStaysFirst DEF EndInv
    <3>5. QED BY <3>1, <3>2, <3>3, <3>4 DEF Coming
  <2>f. ASSUME NEW m \in Message, m.type # "Version", inbox'[p] \in { inbox[p], inbox[p] \o << m >> }
        PROVE  VersionFirst(inbox[p])'
    BY <2>2, <2>f, VersionStaysFirst DEF EndInv
  <2>7. CASE OnVersion(h)
    <3> DEFINE told == inbox[h][1]
    <3>1. /\ Receives(h, "Version") /\ offer'[h] = told.height
          /\ pc'[h] = "compare" /\ \A g \in Handler : g # h => pc'[g] = pc[g] /\ offer'[g] = offer[g]
          /\ tip' = tip /\ Reply(h, << VerAck >>)
      BY <1>0, <2>7 DEF OnVersion
    <3>2. VerAck \in Message /\ VerAck.type = "VerAck" /\ << VerAck >> \in Seq(Message)
      BY MessageTypes DEF VerAck
    <3>3. /\ pc[p] # "greet" /\ told \in Coming(h) /\ told.type = "Version"
          /\ pc[h] = "loop" /\ Coming(h)' \subseteq Coming(h) /\ VersionFirst(inbox[h])'
          /\ \A m \in Coming(h)' : m.type # "Version"
          /\ inbox'[p] \in { inbox[p], inbox[p] \o << VerAck >> }
          /\ h \notin up => inbox'[p] = inbox[p]
          /\ Coming(p)' \subseteq Coming(p) \cup {VerAck}
          /\ \A g \in Handler \ { h, p } : inbox'[g] = inbox[g]
      BY <2>6, <3>1, <3>2, FewElements
    <3> HIDE DEF told
    <3>4. VersionFirst(inbox[p])' /\ Standing(h)' /\ Standing(p)'
      BY <2>1, <2>f, <2>s, <3>1, <3>2, <3>3
    <3>5. ~ Fetching(h) /\ told.height <= Height(h[2]) /\ told.height \in Nat
      BY <1>m, <2>2, <2>4, <3>3, MessageParts DEF EndInv
    <3>6. ~ Fetching(h)' /\ (Fetching(p)' => Fetching(p))
      BY <2>1, <2>3, <3>1, <3>2, <3>3, <3>5
    <3>7. EndInv(h)'
      BY <2>1, <2>2, <2>4, <3>1, <3>3, <3>4, <3>5, <3>6 DEF EndInv, Height
    <3>8. EndInv(p)'
      <4>1. Unannounced(p)' => Unannounced(p)
        BY <2>4, <3>1, <3>2, <3>3
      <4>2. Fetching(p)' => offer'[h] < offer'[p] /\ \A m \in Coming(h)' : m.type # "Version"
        BY <2>1, <2>2, <3>1, <3>3, <3>6 DEF EndInv
      <4>3. /\ offer'[p] <= Height(p[2])'
            /\ \A m \in Coming(p)' : m.type = "Version" => m.height <= Height(p[2])'
        BY <2>1, <2>2, <3>1, <3>2, <3>3 DEF EndInv, Height
      <4>4. pc'[p] = pc[p] /\ pc'[p] # "greet"
        BY <2>1, <3>1, <3>3
      <4>5. QED BY <2>1, <2>2, <3>4, <3>6, <4>1, <4>2, <4>3, <4>4 DEF EndInv
    <3>9. QED BY <2>1, <2>u, <3>1, <3>3, <3>7, <3>8, TwoEnds DEF p
  <2>8. CASE Compare(h)
    <3>1. /\ pc[h] = "compare" /\ pc'[h] = IF offer[h] > Height(h[1]) THEN "ask" ELSE "loop"
          /\ \A g \in Handler : g # h => pc'[g] = pc[g]
          /\ UNCHANGED <<tip, inbox, offer>>
      BY <1>0, <2>8 DEF Compare
    <3>2. Coming(h)' = Coming(h) /\ Coming(p)' = Coming(p) /\ Height(h[2])' = Height(h[2])
          /\ Height(h[1])' = Height(h[1])
      BY <3>1 DEF Coming, Height
    <3>3. pc[p] # "greet" /\ pc'[p] = pc[p] /\ ~ Unannounced(h) /\ Standing(h)' /\ Standing(p)'
      BY <2>1, <2>g, <2>s, <3>1
    <3>4. /\ (Fetching(p)' <=> Fetching(p)) /\ (Fetching(h)' => Fetching(h) \/ offer[h] > Height(h[1]))
          /\ (Unannounced(p)' => Unannounced(p)) /\ ~ Unannounced(h)'
      BY <2>1, <2>3, <2>4, <3>1, <3>2, <3>3
    <3>5. ASSUME offer[h] > Height(h[1])
          PROVE  offer[p] < offer[h] /\ \A m \in Coming(p) : m.type = "Version" => m.height < offer[h]
      <4>1. offer[h] \in Nat /\ offer[p] \in Nat /\ Height(h[1]) \in Nat
        BY <1>0, <1>t, <2>1
      <4>2. \A m \in Coming(p) : m.type = "Version" => m.height \in Nat
        BY <1>m, <2>1, MessageParts
      <4>3. QED BY <2>1, <2>2, <3>5, <4>1, <4>2 DEF EndInv
    <3>6. EndInv(h)'
      <4>1. offer'[p] = offer[p] /\ offer'[h] = offer[h] /\ inbox'[h] = inbox[h]
            /\ pc'[h] \notin { "closed", "greet" }
        BY <3>1
      <4>2. Fetching(h)' => /\ offer'[p] < offer'[h]
                            /\ \A m \in Coming(p)' : m.type = "Version" => m.height < offer'[h]
        BY <2>1, <2>2, <3>2, <3>4, <3>5, <4>1 DEF EndInv
      <4>3. offer'[h] <= Height(h[2])' /\ VersionFirst(inbox[h])'
            /\ \A m \in Coming(h)' : m.type = "Version" => m.height <= Height(h[2])'
        BY <2>2, <3>2, <4>1 DEF EndInv
      <4>4. QED BY <2>1, <3>3, <3>4, <4>1, <4>2, <4>3 DEF EndInv
    <3>7. EndInv(p)'
      BY <2>1, <2>2, <3>1, <3>2, <3>3, <3>4 DEF EndInv
    <3>8. QED BY <2>1, <2>u, <3>1, <3>6, <3>7, TwoEnds DEF p
  <2>9. CASE Ask(h)
    <3> DEFINE request == GetBlocks(tip[h[1]], Count)
    <3>1. request \in Message /\ request.type = "GetBlocks" /\ << request >> \in Seq(Message)
      BY <1>t, <2>1, MessageTypes DEF GetBlocks
    <3> HIDE DEF request
    <3>2. /\ pc[h] = "ask" /\ pc'[h] = "loop" /\ \A g \in Handler : g # h => pc'[g] = pc[g]
          /\ UNCHANGED <<tip, offer>> /\ Send(h, << request >>)
      BY <1>0, <2>9 DEF Ask, request
    <3>3. /\ inbox'[p] \in { inbox[p], inbox[p] \o << request >> }
          /\ h \notin up => inbox'[p] = inbox[p]
          /\ Coming(p) \subseteq Coming(p)' /\ Coming(p)' \subseteq Coming(p) \cup {request}
          /\ \A g \in Handler : g # p => inbox'[g] = inbox[g]
      BY <1>0, <3>1, <3>2, SendType, FewElements DEF p
    <3>4. /\ Coming(h)' = Coming(h) /\ VersionFirst(inbox[p])'
          /\ pc[p] # "greet" /\ pc'[p] = pc[p] /\ ~ Unannounced(h) /\ Standing(h)' /\ Standing(p)'
      BY <2>1, <2>f, <2>g, <2>s, <3>1, <3>2, <3>3 DEF Coming
    <3>5. /\ Fetching(h) /\ (Fetching(p)' <=> Fetching(p))
          /\ (Unannounced(p)' => Unannounced(p)) /\ ~ Unannounced(h)'
      BY <2>1, <2>3, <2>4, <3>1, <3>2, <3>3, <3>4
    <3>6. EndInv(h)'
      <4>1. offer'[p] = offer[p] /\ offer'[h] = offer[h] /\ inbox'[h] = inbox[h]
            /\ pc'[h] \notin { "closed", "greet" } /\ Height(h[2])' = Height(h[2])
        BY <2>1, <3>2, <3>3 DEF Height
      <4>2. /\ offer'[p] < offer'[h]
            /\ \A m \in Coming(p)' : m.type = "Version" => m.height < offer'[h]
        BY <2>1, <2>2, <3>1, <3>3, <3>5, <4>1 DEF EndInv
      <4>3. offer'[h] <= Height(h[2])' /\ VersionFirst(inbox[h])'
            /\ \A m \in Coming(h)' : m.type = "Version" => m.height <= Height(h[2])'
        BY <2>2, <3>4, <4>1 DEF EndInv
      <4>4. QED BY <2>1, <3>4, <3>5, <4>1, <4>2, <4>3 DEF EndInv
    <3>7. EndInv(p)'
      BY <2>1, <2>2, <3>1, <3>2, <3>3, <3>4, <3>5 DEF EndInv, Height
    <3>8. QED BY <2>1, <2>u, <3>2, <3>3, <3>6, <3>7, TwoEnds DEF p
  <2>10. CASE OnVerAck(h)
    <3>1. /\ Receives(h, "VerAck") /\ Reply(h, << >>) /\ UNCHANGED <<tip, pc, offer>>
      BY <2>10 DEF OnVerAck
    <3>2. /\ pc[h] = "loop" /\ pc[p] # "greet"
          /\ Coming(h)' \subseteq Coming(h) /\ VersionFirst(inbox[h])'
          /\ inbox'[p] \in { inbox[p], inbox[p] \o << >> } /\ Coming(p)' = Coming(p)
          /\ \A g \in Handler \ { h, p } : inbox'[g] = inbox[g]
      BY <2>6, <3>1, EmptySeq, FewElements
    <3>3. inbox'[p] = inbox[p] /\ Standing(h)' /\ Standing(p)'
      BY <2>1, <2>2, <2>s, <3>1, <3>2, ConcatEmptySeq
    <3>4. /\ (Fetching(h)' => Fetching(h)) /\ (Fetching(p)' => Fetching(p))
          /\ (Unannounced(h)' => Unannounced(h)) /\ (Unannounced(p)' => Unannounced(p))
      BY <2>3, <2>4, <3>1, <3>2
    <3>5. EndInv(h)'
      BY <2>1, <2>2, <3>1, <3>2, <3>3, <3>4 DEF EndInv, Height
    <3>6. EndInv(p)'
      BY <2>1, <2>2, <3>1, <3>2, <3>3, <3>4 DEF EndInv, Height
    <3>7. QED BY <2>1, <2>u, <3>1, <3>2, <3>5, <3>6, TwoEnds
  <2>11. CASE OnGetBlocks(h)
    <3> DEFINE answer == Blocks(BlocksAfter(tip[h[1]], inbox[h][1].from, inbox[h][1].count))
    <3>1. /\ Receives(h, "GetBlocks") /\ Reply(h, << answer >>) /\ UNCHANGED <<tip, pc, offer>>
      BY <2>11 DEF OnGetBlocks
    <3>2. answer \in Message /\ answer.type = "Blocks" /\ << answer >> \in Seq(Message)
      <4>1. inbox[h][1] \in Message /\ inbox[h][1].type = "GetBlocks"
        BY <2>2, <3>1, QueueHead DEF Receives
      <4>2. BlocksAfter(tip[h[1]], inbox[h][1].from, inbox[h][1].count) \in Seq(Seq(Node))
        BY <1>t, <2>1, <4>1, MessageParts, BlocksAfterElements, SyncAssumption
      <4>3. QED BY <4>2, MessageTypes DEF Blocks
    <3> HIDE DEF answer
    <3>3. /\ pc[h] = "loop" /\ pc[p] # "greet"
          /\ \E m \in Coming(h) : m.type = "GetBlocks"
          /\ Coming(h)' \subseteq Coming(h) /\ VersionFirst(inbox[h])'
          /\ inbox'[p] \in { inbox[p], inbox[p] \o << answer >> }
          /\ h \notin up => inbox'[p] = inbox[p]
          /\ Coming(p)' \subseteq Coming(p) \cup {answer}
          /\ \A g \in Handler \ { h, p } : inbox'[g] = inbox[g]
      BY <2>6, <3>1, <3>2, FewElements
    <3>4. VersionFirst(inbox[p])' /\ Standing(h)' /\ Standing(p)'
      BY <2>1, <2>f, <2>s, <3>1, <3>2, <3>3
    <3>5. /\ (Fetching(h)' => Fetching(h)) /\ (Fetching(p)' => Fetching(p))
          /\ (Unannounced(h)' => Unannounced(h)) /\ (Unannounced(p)' => Unannounced(p))
      BY <2>1, <2>3, <2>4, <3>1, <3>2, <3>3
    <3>6. EndInv(h)'
      BY <2>1, <2>2, <3>1, <3>2, <3>3, <3>4, <3>5 DEF EndInv, Height
    <3>7. EndInv(p)'
      BY <2>1, <2>2, <3>1, <3>2, <3>3, <3>4, <3>5 DEF EndInv, Height
    <3>8. QED BY <2>1, <2>u, <3>1, <3>3, <3>6, <3>7, TwoEnds
  <2>12. CASE OnBlocks(h)
    <3>1. /\ Receives(h, "Blocks") /\ Reply(h, << >>) /\ UNCHANGED <<tip, offer>>
          /\ pc'[h] = "import" /\ \A g \in Handler : g # h => pc'[g] = pc[g]
      BY <1>0, <2>12 DEF OnBlocks
    <3>2. /\ pc[h] = "loop" /\ pc[p] # "greet"
          /\ \E m \in Coming(h) : m.type = "Blocks"
          /\ Coming(h)' \subseteq Coming(h) /\ VersionFirst(inbox[h])'
          /\ inbox'[p] \in { inbox[p], inbox[p] \o << >> } /\ Coming(p)' = Coming(p)
          /\ \A g \in Handler \ { h, p } : inbox'[g] = inbox[g]
      BY <2>6, <3>1, EmptySeq, FewElements
    <3>3. inbox'[p] = inbox[p] /\ Standing(h)' /\ Standing(p)'
      BY <2>1, <2>2, <2>s, <3>1, <3>2, ConcatEmptySeq
    <3>4. Fetching(h) /\ ~ Unannounced(h)
      BY <2>2, <2>3, <3>2 DEF EndInv
    <3>5. /\ (Fetching(p)' => Fetching(p))
          /\ (Unannounced(h)' => Unannounced(h)) /\ (Unannounced(p)' => Unannounced(p))
      BY <2>1, <2>3, <2>4, <3>1, <3>2
    <3>6. EndInv(h)'
      BY <2>1, <2>2, <3>1, <3>2, <3>3, <3>4, <3>5 DEF EndInv, Height
    <3>7. EndInv(p)'
      BY <2>1, <2>2, <3>1, <3>2, <3>3, <3>5 DEF EndInv, Height
    <3>8. QED BY <2>1, <2>u, <3>1, <3>2, <3>6, <3>7, TwoEnds
  <2>13. CASE Import(h)
    BY <1>5, <2>u, <2>13 DEF Import
  <2>14. CASE ImportDone(h)
    <3>1. /\ pc[h] = "import" /\ pc'[h] = "loop" /\ \A g \in Handler : g # h => pc'[g] = pc[g]
          /\ UNCHANGED <<tip, inbox, offer>>
      BY <1>0, <2>14 DEF ImportDone
    <3>2. Coming(h)' = Coming(h) /\ Coming(p)' = Coming(p)
      BY <3>1 DEF Coming
    <3>3. pc[p] # "greet" /\ pc'[p] = pc[p] /\ ~ Unannounced(h) /\ Standing(h)' /\ Standing(p)'
      BY <2>1, <2>g, <2>s, <3>1
    <3>4. /\ (Fetching(h)' => Fetching(h)) /\ (Fetching(p)' => Fetching(p))
          /\ (Unannounced(h)' => Unannounced(h)) /\ (Unannounced(p)' => Unannounced(p))
      BY <2>1, <2>3, <2>4, <3>1, <3>2
    <3>5. EndInv(h)'
      BY <2>1, <2>2, <3>1, <3>2, <3>3, <3>4 DEF EndInv, Height
    <3>6. EndInv(p)'
      BY <2>1, <2>2, <3>1, <3>2, <3>3, <3>4 DEF EndInv, Height
    <3>7. QED BY <2>1, <2>u, <3>1, <3>5, <3>6, TwoEnds
  <2>15. QED
    BY <1>7, <2>5, <2>7, <2>8, <2>9, <2>10, <2>11, <2>12, <2>13, <2>14 DEF Handle
<1>8. CASE UNCHANGED vars
  BY <1>5, <1>8 DEF vars, connection
<1>9. QED
  BY <1>1, <1>3, <1>3e, <1>4, <1>6, <1>7, <1>8 DEF Next

LEMMA InitFetchInv == Init => FetchInv
<1> SUFFICES ASSUME Init PROVE FetchInv
  OBVIOUS
<1>1. ASSUME NEW h \in Handler PROVE EndInv(h)
  <2>1. /\ Peer(h) \in Handler /\ h[2] \in Node /\ InitialTip \in [ Node -> Seq(Node) ]
    BY PeerEnds, SyncAssumption
  <2>2. /\ inbox[h] = << >> /\ inbox[Peer(h)] = << >> /\ pc[h] = "closed" /\ offer[h] = 0
        /\ tip[h[2]] \in Seq(Node)
    BY <2>1 DEF Init
  <2>3. Coming(h) = {} /\ Coming(Peer(h)) = {} /\ 0 <= Height(h[2])
    BY <2>2, FewElements DEF Coming, Height
  <2>4. ~ Fetching(h) /\ VersionFirst(inbox[h])
    BY <2>2, <2>3 DEF Fetching, VersionFirst
  <2>5. h \notin up
    BY DEF Init
  <2>6. QED BY <2>2, <2>3, <2>4, <2>5 DEF EndInv, Standing
<1>2. QED BY <1>1, InitTypeOK DEF FetchInv

(* The two ends of a connection never fetch blocks from each other, for any *)
(* graph of connections and any mining while heights are compared.          *)
THEOREM OneSideFetchesAlways == Spec => []OneSideFetches
<1>1. FetchInv => OneSideFetches
  <2> SUFFICES ASSUME FetchInv, NEW h \in Handler, Fetching(h), Fetching(Peer(h)) PROVE FALSE
    BY DEF OneSideFetches
  <2>1. /\ Peer(h) \in Handler /\ Peer(Peer(h)) = h
        /\ offer[h] \in Nat /\ offer[Peer(h)] \in Nat
    BY PeerEnds DEF FetchInv, TypeOK
  <2>2. offer[Peer(h)] < offer[h] /\ offer[h] < offer[Peer(h)]
    BY <2>1 DEF FetchInv, EndInv
  <2>3. QED BY <2>1, <2>2
<1>2. QED BY <1>1, InitFetchInv, NextFetchInv, PTL DEF Spec

-----------------------------------------------------------------------------
(* Why an answer follows on.  A request names a tip of the asking node, so  *)
(* a block that stays on its chain; the answer is cut from the chain of the *)
(* sender, so from blocks that stay on that one.                            *)

Chained(blocks, chain) ==
    /\ \A i \in 2 .. Len(blocks) : Front(blocks[i]) = blocks[i - 1]
    /\ \A i \in DOMAIN blocks : IsPrefix(blocks[i], chain)

FollowsOn(blocks, own, theirs) ==
    /\ blocks # << >> => IsPrefix(Front(blocks[1]), own)
    /\ Chained(blocks, theirs)

FollowInv ==
    /\ TypeOK
    /\ \A h \in Handler :
          /\ \A m \in Coming(Peer(h)) : m.type = "GetBlocks" => IsPrefix(m.from, tip[h[1]])
          /\ \A m \in Coming(h) : m.type = "Blocks" => FollowsOn(m.blocks, tip[h[1]], tip[h[2]])
          /\ Chained(batch[h], tip[h[2]])

LEMMA FrontOfPrefix ==
    ASSUME NEW S, NEW chain \in Seq(S), NEW k \in 1 .. Len(chain)
    PROVE  /\ SubSeq(chain, 1, k) \in Seq(S) /\ IsPrefix(SubSeq(chain, 1, k), chain)
           /\ Front(SubSeq(chain, 1, k)) = SubSeq(chain, 1, k - 1)
<1> DEFINE s == SubSeq(chain, 1, k)
           t == SubSeq(chain, 1, k - 1)
<1>1. k \in Nat /\ k - 1 \in Nat /\ k <= Len(chain)
  OBVIOUS
<1>2. /\ s \in Seq(S) /\ Len(s) = k /\ \A i \in 1 .. k : s[i] = chain[i]
      /\ t \in Seq(S) /\ Len(t) = k - 1 /\ \A i \in 1 .. k - 1 : t[i] = chain[i]
  BY <1>1
<1> HIDE DEF s, t
<1>3. IsPrefix(s, chain)
  BY <1>1, <1>2, PrefixElements
<1>4. s # << >>
  BY <1>1, <1>2, EmptySeq
<1>5. Front(s) \in Seq(S) /\ Len(Front(s)) = k - 1 /\ \A i \in 1 .. k - 1 : Front(s)[i] = s[i]
  BY <1>2, <1>4, FrontPrefix
<1>6. Front(s) = t
  BY <1>2, <1>5, SeqEqual
<1>7. QED BY <1>2, <1>3, <1>6 DEF s, t

LEMMA FrontType ==
    ASSUME NEW S, NEW s \in Seq(S)
    PROVE  Front(s) \in Seq(S)
<1>1. CASE s = << >>
  BY <1>1, EmptySeq, SubSeqEmpty DEF Front
<1>2. CASE s # << >>
  BY <1>2, FrontPrefix
<1>3. QED BY <1>1, <1>2

LEMMA AnswerFollowsOn ==
    ASSUME NEW chain \in Seq(Node), NEW own \in Seq(Node), NEW from \in Seq(Node),
           NEW count \in Nat, IsPrefix(from, own)
    PROVE  FollowsOn(BlocksAfter(chain, from, count), own, chain)
<1> DEFINE blocks == BlocksAfter(chain, from, count)
<1>1. /\ blocks \in Seq(Seq(Node))
      /\ \A i \in 1 .. Len(blocks) : /\ IsPrefix(from, chain) /\ Len(from) + i <= Len(chain)
                                     /\ blocks[i] = SubSeq(chain, 1, Len(from) + i)
  BY BlocksAfterElements
<1> HIDE DEF blocks
<1>2. ASSUME NEW i \in 1 .. Len(blocks)
      PROVE  /\ IsPrefix(blocks[i], chain)
             /\ Front(blocks[i]) = SubSeq(chain, 1, Len(from) + i - 1)
  <2> DEFINE k == Len(from) + i
  <2>1. k \in 1 .. Len(chain)
    BY <1>1
  <2> HIDE DEF k
  <2>2. IsPrefix(SubSeq(chain, 1, k), chain) /\ Front(SubSeq(chain, 1, k)) = SubSeq(chain, 1, k - 1)
    BY <2>1, FrontOfPrefix
  <2>3. blocks[i] = SubSeq(chain, 1, k) /\ k - 1 = Len(from) + i - 1
    BY <1>1 DEF k
  <2>4. QED BY <2>2, <2>3
<1>3. ASSUME blocks # << >> PROVE IsPrefix(Front(blocks[1]), own)
  <2>1. 1 \in 1 .. Len(blocks)
    BY <1>1, <1>3, EmptySeq
  <2>2. IsPrefix(from, chain) /\ Front(blocks[1]) = SubSeq(chain, 1, Len(from))
    BY <1>1, <1>2, <2>1
  <2>3. SubSeq(from, 1, Len(from)) = SubSeq(chain, 1, Len(from))
    BY <2>2 DEF IsPrefix
  <2>4. Front(blocks[1]) = from
    BY <2>2, <2>3
  <2>5. QED BY <2>4
<1>4. ASSUME NEW i \in 2 .. Len(blocks) PROVE Front(blocks[i]) = blocks[i - 1]
  <2>1. i \in 1 .. Len(blocks) /\ i - 1 \in 1 .. Len(blocks) /\ Len(from) + i - 1 = Len(from) + (i - 1)
    BY <1>1
  <2>2. QED BY <1>1, <1>2, <2>1
<1>5. DOMAIN blocks = 1 .. Len(blocks)
  BY <1>1
<1>6. Chained(blocks, chain)
  BY <1>2, <1>4, <1>5 DEF Chained
<1>7. QED BY <1>3, <1>6 DEF FollowsOn, blocks

(* What follows on still does when the two chains have grown.               *)
LEMMA ChainedStays ==
    ASSUME NEW blocks \in Seq(Seq(Node)), NEW s \in Seq(Node), NEW t \in Seq(Node),
           IsPrefix(s, t), Chained(blocks, s)
    PROVE  Chained(blocks, t)
<1>1. \A i \in DOMAIN blocks : blocks[i] \in Seq(Node)
  OBVIOUS
<1>2. QED BY <1>1, PrefixTransitive DEF Chained

LEMMA FollowsOnStays ==
    ASSUME NEW blocks \in Seq(Seq(Node)),
           NEW own \in Seq(Node), NEW own2 \in Seq(Node), IsPrefix(own, own2),
           NEW theirs \in Seq(Node), NEW theirs2 \in Seq(Node), IsPrefix(theirs, theirs2),
           FollowsOn(blocks, own, theirs)
    PROVE  FollowsOn(blocks, own2, theirs2)
<1>1. Chained(blocks, theirs2)
  BY ChainedStays DEF FollowsOn
<1>2. ASSUME blocks # << >> PROVE IsPrefix(Front(blocks[1]), own2)
  <2>1. Front(blocks[1]) \in Seq(Node)
    BY <1>2, QueueHead, FrontType
  <2>2. QED BY <1>2, <2>1, PrefixTransitive DEF FollowsOn
<1>3. QED BY <1>1, <1>2 DEF FollowsOn

LEMMA ChainedTail ==
    ASSUME NEW blocks \in Seq(Seq(Node)), blocks # << >>, NEW chain, Chained(blocks, chain)
    PROVE  Chained(Tail(blocks), chain)
<1>1. /\ Tail(blocks) \in Seq(Seq(Node)) /\ Len(blocks) \in Nat /\ Len(Tail(blocks)) = Len(blocks) - 1
      /\ \A i \in 1 .. Len(Tail(blocks)) : Tail(blocks)[i] = blocks[i + 1]
  BY HeadTailProperties, EmptySeq
<1>2. ASSUME NEW i \in 2 .. Len(Tail(blocks)) PROVE Front(Tail(blocks)[i]) = Tail(blocks)[i - 1]
  <2>1. i + 1 \in 2 .. Len(blocks) /\ i - 1 \in 1 .. Len(Tail(blocks)) /\ (i - 1) + 1 = i /\ (i + 1) - 1 = i
    BY <1>1
  <2>2. Front(blocks[i + 1]) = blocks[i]
    BY <2>1 DEF Chained
  <2>3. QED BY <1>1, <2>1, <2>2
<1>3. ASSUME NEW i \in 1 .. Len(Tail(blocks)) PROVE IsPrefix(Tail(blocks)[i], chain)
  <2>1. i + 1 \in DOMAIN blocks
    BY <1>1
  <2>2. QED BY <1>1, <2>1 DEF Chained
<1>4. QED BY <1>1, <1>2, <1>3 DEF Chained

(* A step in which handler h sends msgs to its peer.                        *)
LEMMA SendsFollow ==
    ASSUME FollowInv, [Next]_vars, NEW h \in Handler, NEW msgs \in Seq(Message),
           \A g \in Handler : g # Peer(h) => Coming(g)' \subseteq Coming(g),
           Coming(Peer(h))' \subseteq Coming(Peer(h)) \cup ToSet(msgs),
           \A m \in ToSet(msgs) : m.type = "GetBlocks" => IsPrefix(m.from, tip[h[1]]),
           \A m \in ToSet(msgs) : m.type = "Blocks" => FollowsOn(m.blocks, tip[h[2]], tip[h[1]]),
           \A g \in Handler : Chained(batch'[g], tip[g[2]])
    PROVE  FollowInv'
<1>0. TypeOK /\ TypeOK' /\ batch' \in [ Handler -> Seq(Seq(Node)) ]
  BY NextTypeOK DEF FollowInv, TypeOK
<1>1. \A n \in Node : tip[n] \in Seq(Node) /\ tip'[n] \in Seq(Node) /\ IsPrefix(tip[n], tip'[n])
  BY <1>0, TipsGrow DEF TypeOK
<1>2. /\ \A m \in ToSet(msgs) : m \in Message
      /\ \A g \in Handler : \A m \in Coming(g) : m \in Message
  <2>1. \A g \in Handler : inbox[g] \in Seq(Message)
    BY <1>0 DEF TypeOK
  <2>2. ASSUME NEW s \in Seq(Message) PROVE \A m \in ToSet(s) : m \in Message
    BY Elements
  <2>3. QED BY <2>1, <2>2 DEF Coming
<1>3. ASSUME NEW g \in Handler
      PROVE  /\ \A m \in Coming(Peer(g))' : m.type = "GetBlocks" => IsPrefix(m.from, tip'[g[1]])
             /\ \A m \in Coming(g)' :
                   m.type = "Blocks" => FollowsOn(m.blocks, tip'[g[1]], tip'[g[2]])
             /\ Chained(batch'[g], tip'[g[2]])
  <2>1. /\ Peer(g) \in Handler /\ g[1] \in Node /\ g[2] \in Node /\ Peer(Peer(g)) = g
        /\ (Peer(g) = Peer(h) => g = h)
        /\ (g = Peer(h) => g[1] = h[2] /\ g[2] = h[1])
    BY PeerEnds
  <2>2. ASSUME NEW m \in Coming(Peer(g))', m.type = "GetBlocks" PROVE IsPrefix(m.from, tip'[g[1]])
    <3>1. IsPrefix(m.from, tip[g[1]])
      BY <2>1, <2>2 DEF FollowInv
    <3>2. m \in Message
      BY <1>2, <2>1, <2>2
    <3>3. QED BY <1>1, <2>1, <2>2, <3>1, <3>2, MessageParts, PrefixTransitive
  <2>3. ASSUME NEW m \in Coming(g)', m.type = "Blocks"
        PROVE  FollowsOn(m.blocks, tip'[g[1]], tip'[g[2]])
    <3>1. FollowsOn(m.blocks, tip[g[1]], tip[g[2]])
      BY <2>1, <2>3 DEF FollowInv
    <3>2. m \in Message
      BY <1>2, <2>1, <2>3
    <3>3. QED BY <1>1, <2>1, <2>3, <3>1, <3>2, MessageParts, FollowsOnStays
  <2>4. Chained(batch'[g], tip'[g[2]])
    BY <1>0, <1>1, <2>1, ChainedStays
  <2>5. QED BY <2>2, <2>3, <2>4
<1>4. QED BY <1>0, <1>3 DEF FollowInv

LEMMA NextFollowInv == FollowInv /\ [Next]_vars => FollowInv'
<1> SUFFICES ASSUME FollowInv, [Next]_vars PROVE FollowInv'
  OBVIOUS
<1>0. /\ TypeOK /\ inbox \in [ Handler -> Seq(Message) ] /\ tip \in [ Node -> Seq(Node) ]
      /\ batch \in [ Handler -> Seq(Seq(Node)) ]
      /\ \A h \in Handler : Chained(batch[h], tip[h[2]])
  BY DEF FollowInv, TypeOK
<1>e. << >> \in Seq(Message) /\ ToSet(<< >>) = {}
  BY FewElements, EmptySeq
<1>1. ASSUME \A g \in Handler : /\ Coming(g)' \subseteq Coming(g)
                               /\ Chained(batch'[g], tip[g[2]])
      PROVE  FollowInv'
  <2>1. CASE Handler = {}
    BY <2>1, NextTypeOK DEF FollowInv
  <2>2. CASE \E h : h \in Handler
    BY <1>e, <1>1, <2>2, PeerEnds, SendsFollow
  <2>3. QED BY <2>1, <2>2
<1>2. CASE UNCHANGED <<inbox, batch>>
  BY <1>0, <1>1, <1>2 DEF Coming
<1>3. ASSUME NEW H, Close(H) PROVE FollowInv'
  <2>1. ASSUME NEW g \in Handler
        PROVE  \/ inbox'[g] = << >> /\ batch'[g] = << >>
               \/ inbox'[g] = inbox[g] /\ batch'[g] = batch[g]
    BY <1>3 DEF Close
  <2>2. \A chain : Chained(<< >>, chain)
    BY DEF Chained
  <2>3. QED BY <1>0, <1>1, <1>e, <2>1, <2>2 DEF Coming
<1>4. ASSUME NEW d \in Dials, Connect(d) PROVE FollowInv'
  BY <1>2, <1>4 DEF Connect
<1>5. ASSUME NEW n \in Node, Restart(n) \/ Mine(n) PROVE FollowInv'
  BY <1>2, <1>3, <1>5 DEF Restart, Mine, connection
<1>5e. ASSUME NEW h \in Handler, Cut(h) \/ End(h) PROVE FollowInv'
  BY <1>2, <1>3, <1>5e DEF Cut, End
<1>6. ASSUME NEW h \in Handler, Handle(h) PROVE FollowInv'
  <2>0. /\ h[1] \in Node /\ h[2] \in Node /\ Peer(h) \in Handler /\ Peer(Peer(h)) = h
        /\ tip[h[1]] \in Seq(Node) /\ tip[h[2]] \in Seq(Node) /\ inbox[h] \in Seq(Message)
    BY <1>0, PeerEnds
  <2>1. CASE Compare(h) \/ ImportDone(h)
    BY <1>2, <2>1 DEF Compare, ImportDone
  <2>2. CASE Greet(h)
    <3> DEFINE v == Version(Height(h[1]))
    <3>1. v \in Message /\ v.type = "Version" /\ ToSet(<< v >>) = {v} /\ << v >> \in Seq(Message)
      <4>1. Height(h[1]) \in Nat
        BY <2>0 DEF Height
      <4>2. QED BY <4>1, MessageTypes, FewElements DEF Version
    <3>2. Send(h, << v >>) /\ batch' = batch
      BY <2>2 DEF Greet
    <3> HIDE DEF v
    <3>3. /\ Coming(Peer(h))' \subseteq Coming(Peer(h)) \cup ToSet(<< v >>)
          /\ \A g \in Handler : g # Peer(h) => Coming(g)' \subseteq Coming(g)
      BY <1>0, <3>1, <3>2, SendType DEF Coming
    <3>4. QED BY <1>0, <3>1, <3>2, <3>3, SendsFollow
  <2>3. CASE Ask(h)
    <3> DEFINE request == GetBlocks(tip[h[1]], Count)
    <3>1. /\ request \in Message /\ request.type = "GetBlocks" /\ request.from = tip[h[1]]
          /\ ToSet(<< request >>) = {request} /\ << request >> \in Seq(Message)
      BY <2>0, MessageTypes, FewElements DEF GetBlocks
    <3>2. Send(h, << request >>) /\ batch' = batch
      BY <2>3 DEF Ask
    <3> HIDE DEF request
    <3>3. /\ Coming(Peer(h))' \subseteq Coming(Peer(h)) \cup ToSet(<< request >>)
          /\ \A g \in Handler : g # Peer(h) => Coming(g)' \subseteq Coming(g)
      BY <1>0, <3>1, <3>2, SendType DEF Coming
    <3>4. IsPrefix(request.from, tip[h[1]])
      BY <2>0, <3>1, PrefixElements
    <3>5. QED BY <1>0, <3>1, <3>2, <3>3, <3>4, SendsFollow
  <2>4. ASSUME NEW msgs \in Seq(Message), inbox[h] # << >>, Reply(h, msgs)
        PROVE  /\ inbox[h][1] \in Message /\ inbox[h][1] \in Coming(h)
               /\ Coming(Peer(h))' \subseteq Coming(Peer(h)) \cup ToSet(msgs)
               /\ \A g \in Handler : g # Peer(h) => Coming(g)' \subseteq Coming(g)
    BY <1>0, <2>4, ReplyType DEF Coming
  <2>5. CASE OnVersion(h)
    <3>1. VerAck.type = "VerAck" /\ ToSet(<< VerAck >>) = {VerAck} /\ << VerAck >> \in Seq(Message)
      BY MessageTypes, FewElements DEF VerAck
    <3>2. inbox[h] # << >> /\ Reply(h, << VerAck >>) /\ batch' = batch
      BY <2>5 DEF OnVersion, Receives
    <3>3. QED BY <1>0, <2>4, <3>1, <3>2, SendsFollow
  <2>6. CASE OnVerAck(h)
    <3>1. inbox[h] # << >> /\ Reply(h, << >>) /\ batch' = batch
      BY <2>6 DEF OnVerAck, Receives
    <3>2. QED BY <1>0, <1>e, <2>4, <3>1, SendsFollow
  <2>7. CASE OnGetBlocks(h)
    <3> DEFINE request == inbox[h][1]
               blocks == BlocksAfter(tip[h[1]], request.from, request.count)
               answer == Blocks(blocks)
    <3>1. request.type = "GetBlocks" /\ inbox[h] # << >> /\ Reply(h, << answer >>) /\ batch' = batch
      BY <2>7 DEF OnGetBlocks, Receives
    <3>2. request \in Message /\ request \in Coming(h)
      BY <2>0, <3>1, QueueHead DEF Coming
    <3>3. request.from \in Seq(Node) /\ request.count \in Nat
      BY <3>1, <3>2, MessageParts, SyncAssumption
    <3>4. IsPrefix(request.from, tip[h[2]])
      <4>1. Peer(h)[1] = h[2]
        BY PeerEnds
      <4>2. QED BY <2>0, <3>1, <3>2, <4>1 DEF FollowInv
    <3> HIDE DEF request
    <3>5. blocks \in Seq(Seq(Node)) /\ FollowsOn(blocks, tip[h[2]], tip[h[1]])
      BY <2>0, <3>3, <3>4, BlocksAfterElements, AnswerFollowsOn
    <3> HIDE DEF blocks
    <3>6. /\ answer \in Message /\ answer.type = "Blocks" /\ answer.blocks = blocks
          /\ ToSet(<< answer >>) = {answer} /\ << answer >> \in Seq(Message)
      BY <3>5, MessageTypes, FewElements DEF Blocks
    <3> HIDE DEF answer
    <3>7. QED BY <1>0, <2>4, <3>1, <3>5, <3>6, SendsFollow
  <2>8. CASE OnBlocks(h)
    <3>1. /\ inbox[h] # << >> /\ Reply(h, << >>) /\ inbox[h][1].type = "Blocks"
          /\ batch' = [ batch EXCEPT ![h] = inbox[h][1].blocks ]
      BY <2>8 DEF OnBlocks, Receives
    <3>2. Chained(inbox[h][1].blocks, tip[h[2]])
      BY <1>e, <2>4, <3>1 DEF FollowInv, FollowsOn
    <3>3. \A g \in Handler : Chained(batch'[g], tip[g[2]])
      BY <1>0, <3>1, <3>2
    <3>4. QED BY <1>0, <1>e, <2>4, <3>1, <3>3, SendsFollow
  <2>9. CASE Import(h)
    <3>1. batch[h] # << >> /\ batch' = [ batch EXCEPT ![h] = Tail(@) ] /\ inbox' = inbox
      BY <2>9 DEF Import
    <3>2. Chained(Tail(batch[h]), tip[h[2]])
      BY <1>0, <3>1, ChainedTail
    <3>3. QED BY <1>0, <1>1, <3>1, <3>2 DEF Coming
  <2>10. QED
    BY <1>6, <2>1, <2>2, <2>3, <2>5, <2>6, <2>7, <2>8, <2>9 DEF Handle
<1>7. CASE UNCHANGED vars
  BY <1>2, <1>7 DEF vars, connection
<1>8. QED
  BY <1>4, <1>5, <1>5e, <1>6, <1>7 DEF Next

(* An answer's first block has its parent on the chain of the node that     *)
(* asked, though that chain has grown meanwhile, and the others are its     *)
(* descendants on the sender's chain, for any answer length.                *)
THEOREM AnswersAlwaysFollow == Spec => []AnswersFollow
<1>1. Init => FollowInv
  <2> SUFFICES ASSUME Init PROVE FollowInv
    OBVIOUS
  <2>1. \A h \in Handler : Peer(h) \in Handler /\ inbox[h] = << >> /\ batch[h] = << >>
    BY PeerEnds DEF Init
  <2>2. \A h \in Handler : Coming(h) = {} /\ Coming(Peer(h)) = {}
    BY <2>1, FewElements DEF Coming
  <2>3. \A chain : Chained(<< >>, chain)
    BY DEF Chained
  <2>4. QED BY <2>1, <2>2, <2>3, InitTypeOK DEF FollowInv
<1>2. FollowInv => AnswersFollow
  <2> SUFFICES ASSUME FollowInv, NEW h \in Handler
               PROVE  /\ \A blocks \in Answers(h) :
                            blocks # << >> => IsPrefix(Front(blocks[1]), tip[h[1]])
                      /\ \A blocks \in Answers(h) \cup {batch[h]} : Chained(blocks, tip[h[2]])
    BY DEF AnswersFollow, Chained
  <2>1. \A blocks \in Answers(h) : FollowsOn(blocks, tip[h[1]], tip[h[2]])
    BY DEF Answers, FollowInv
  <2>2. Chained(batch[h], tip[h[2]])
    BY DEF FollowInv
  <2>3. QED BY <2>1, <2>2 DEF FollowsOn
<1>3. QED BY <1>1, <1>2, NextFollowInv, PTL DEF Spec
=============================================================================
