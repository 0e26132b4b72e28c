----------------------------- MODULE Connection -----------------------------
(***************************************************************************)
(* One TCP connection at the level of bytes, with handle_peer of           *)
(* network/sync_manager.rs at both ends: the framing of                    *)
(* network/protocol.rs, the partial reads and writes of network/peer.rs,   *)
(* socket buffers that fill up, and the lock of each node's peer table,    *)
(* which its handlers share with each other and with the terminal          *)
(* interface.  Sync has what the messages say about the chain and Peers    *)
(* what is in the table; here both are only waited for and passed on.      *)
(***************************************************************************)
EXTENDS Integers, Sequences, SequencesExt

CONSTANTS
    LenBytes,     \* bytes of the length prefix, 4 in the code
    Base,         \* values of a byte
    MaxMessage,   \* MAX_MESSAGE_SIZE, 4 MB in the code
    SmallSize,    \* payload bytes of every message but a full Blocks
    AnswerSizes,  \* payload bytes of a Blocks answer that has blocks
    Capacity,     \* bytes that fit between a write and a read of the other end
    Crowded,      \* ends whose peer table other tasks use as well
    Readers,      \* those that read it: App::refresh, the discovery loop
    Writers,      \* those that change it: handlers of other connections
    Kept,         \* bound: bytes that still arrive when the connection is gone
    Late,         \* bound: ends at which they do
    MaxHeight     \* bound: no chain grows above this height

End == { "dialer", "acceptor" }
Other(e) == IF e = "dialer" THEN "acceptor" ELSE "dialer"

\* n without its last j digits.
Shifted(n) == LET s[j \in 0 .. LenBytes] == IF j = 0 THEN n ELSE s[j - 1] \div Base IN s

\* A length that the prefix can hold.
Fits(n) == Shifted(n)[LenBytes] = 0

\* The sizes fit the prefix: 500 blocks of at most MAX_MESSAGE_SIZE, as they came
\* here, are less than 2^32 bytes.  The buffers of a socket take at least one of
\* each message a handler sends unasked or in answer to a small one: Version,
\* GetPeers, VerAck, GetBlocks, Peers.
ASSUME ConnectionAssumption ==
    /\ LenBytes \in Nat \ {0} /\ Base \in Nat \ {0, 1}
    /\ SmallSize \in Nat \ {0} /\ AnswerSizes \subseteq Nat \ {0}
    /\ MaxMessage \in Nat /\ SmallSize <= MaxMessage
    /\ \A size \in AnswerSizes \cup { SmallSize, MaxMessage } : Fits(size)
    /\ Capacity \in Nat /\ Capacity >= 5 * (LenBytes + SmallSize)
    /\ Crowded \subseteq End
    /\ "handler" \notin Readers \cup Writers /\ Readers \cap Writers = {}
    /\ Kept \subseteq Nat /\ Late \subseteq End /\ MaxHeight \in Nat

VARIABLES
    height,    \* end -> Blockchain::height of its node
    pc,        \* end -> where its handle_peer stands
    offer,     \* end -> the height in the Version it received
    out,       \* end -> bytes of the current write_all not accepted yet
    got,       \* end -> bytes of the current frame already read
    stream,    \* end -> bytes on their way to it
    up,        \* does the connection still carry bytes?
    cut,       \* did something outside the program end it?
    guard,     \* end -> does the handler hold a read guard while it sends?
    waiters,   \* end -> who waits for the lock of the peer table, in order
    sent,      \* end -> messages it began to send
    received   \* end -> messages it received

handler == <<pc, offer, out, got>>
wire == <<stream, up, cut>>
lock == <<guard, waiters>>
history == <<sent, received>>
vars == <<height, handler, wire, lock, history>>

-----------------------------------------------------------------------------
(* Messages and frames *)

Msg(type, h, size) == [ type |-> type, height |-> h, size |-> size ]
Version(h) == Msg("Version", h, SmallSize)
VerAck == Msg("VerAck", 0, SmallSize)
GetPeers == Msg("GetPeers", 0, SmallSize)
PeerList == Msg("Peers", 0, SmallSize)
GetBlocks(h) == Msg("GetBlocks", h, SmallSize)
Blocks(h, size) == Msg("Blocks", h, size)

Message ==
    { Version(h) : h \in 0 .. MaxHeight } \cup { VerAck, GetPeers, PeerList }
    \cup { GetBlocks(h) : h \in 0 .. MaxHeight }
    \cup { Blocks(h, size) : h \in 0 .. MaxHeight, size \in AnswerSizes \cup {SmallSize} }

\* A byte has a value; `of' tells what it is a byte of.
LengthPrefix == Msg("length", 0, 0)
Byte(of, value) == [ of |-> of, value |-> value ]

Payload(m) == [ i \in 1 .. m.size |-> Byte(m, i % Base) ]

\* to_bytes: the length, most significant byte first, and the payload.  The
\* sender does not compare it with MaxMessage.
ToBytes(m) ==
    [ i \in 1 .. LenBytes |-> Byte(LengthPrefix, Shifted(m.size)[LenBytes - i] % Base) ]
    \o Payload(m)

LengthIn(bytes) ==
    LET n[i \in 0 .. LenBytes] == IF i = 0 THEN 0 ELSE Base * n[i - 1] + bytes[i].value
    IN  n[LenBytes]

HeaderRead(e) == Len(got[e]) >= LenBytes

\* Mutant: a message of exactly the maximum is refused.
AtLimit(e) == HeaderRead(e) /\ LengthIn(got[e]) >= MaxMessage

TooLarge(e) == HeaderRead(e) /\ LengthIn(got[e]) > MaxMessage

\* What the current read_exact still waits for.
Missing(e) ==
    IF HeaderRead(e) THEN LenBytes + LengthIn(got[e]) - Len(got[e]) ELSE LenBytes - Len(got[e])

Arrived(e) == HeaderRead(e) /\ ~ TooLarge(e) /\ Missing(e) = 0

Body(e) == SubSeq(got[e], LenBytes + 1, Len(got[e]))

\* from_bytes succeeds on what is the payload of a message.
Decodes(e) == Body(e) # <<>> /\ Body(e) = Payload(Body(e)[1].of)

Incoming(e) == Body(e)[1].of

-----------------------------------------------------------------------------
(* The lock of the peer table: tokio's RwLock serves its waiters in the     *)
(* order in which they came, a reader too.                                  *)

Served(e, who) == waiters[e] # <<>> /\ Head(waiters[e]) = who

\* Mutant: the lock is not fair, who comes last goes first.
AsksFirst(e, who) == waiters' = [ waiters EXCEPT ![e] = << who >> \o @ ]

Asks(e, who) == waiters' = [ waiters EXCEPT ![e] = Append(@, who) ]

Reads(e, who) ==
    /\ Served(e, who)
    /\ waiters' = [ waiters EXCEPT ![e] = Tail(@) ]

Writes(e, who) == Reads(e, who) /\ ~ guard[e]

\* Another task of the node comes for the lock and waits behind who came before,
\* and gets its turn.
TableWanted(e, who) ==
    /\ e \in Crowded
    /\ who \notin ToSet(waiters[e])
    /\ Asks(e, who)
    /\ UNCHANGED <<height, handler, wire, guard, history>>

TableUsed(e, who) ==
    /\ IF who \in Readers THEN Reads(e, who) ELSE Writes(e, who)
    /\ UNCHANGED <<height, handler, wire, guard, history>>

-----------------------------------------------------------------------------
(* The socket *)

Least(m, n) == IF m < n THEN m ELSE n

Room(e) == Capacity - Len(stream[Other(e)])

\* What the kernel takes of bytes now; the rest is for Write.
Accepted(e, bytes) == SubSeq(bytes, 1, Least(Room(e), Len(bytes)))
Rest(e, bytes) == SubSeq(bytes, Len(Accepted(e, bytes)) + 1, Len(bytes))

\* A turn of write_all.  On a connection that is gone the kernel may still take
\* bytes which nobody will read.
Push(e, bytes) ==
    IF up
    THEN /\ stream' = [ stream EXCEPT ![Other(e)] = @ \o Accepted(e, bytes) ]
         /\ out' = [ out EXCEPT ![e] = Rest(e, bytes) ]
    ELSE /\ \E left \in { bytes, <<>> } : out' = [ out EXCEPT ![e] = left ]
         /\ UNCHANGED stream

Write(e) ==
    /\ up /\ out[e] # <<>> /\ Room(e) > 0
    /\ Push(e, out[e])
    /\ UNCHANGED <<height, pc, offer, got, up, cut, lock, history>>

\* One read of read_exact returns at least a byte, at most what is asked for.
Read(e) ==
    /\ pc[e] = "loop" /\ out[e] = <<>> /\ ~ TooLarge(e)
    /\ \E n \in 1 .. Least(Missing(e), Len(stream[e])) :
          /\ got' = [ got EXCEPT ![e] = @ \o SubSeq(stream[e], 1, n) ]
          /\ stream' = [ stream EXCEPT ![e] = SubSeq(@, n + 1, Len(@)) ]
    /\ UNCHANGED <<height, pc, offer, out, up, cut, lock, history>>

\* The connection is gone: of what was on its way any beginning may still be read.
Down ==
    /\ up' = FALSE
    /\ \E n \in Kept :
          stream' = [ e \in End |->
              SubSeq(stream[e], 1, IF e \in Late THEN Least(n, Len(stream[e])) ELSE 0) ]

Cut ==
    /\ up
    /\ Down
    /\ cut' = TRUE
    /\ UNCHANGED <<height, handler, lock, history>>

-----------------------------------------------------------------------------
(* handle_peer *)

Init ==
    /\ height \in [ End -> 0 .. MaxHeight ]
    /\ pc = [ e \in End |-> "enter" ]
    /\ offer = [ e \in End |-> 0 ]
    /\ out = [ e \in End |-> <<>> ]
    /\ got = [ e \in End |-> <<>> ]
    /\ stream = [ e \in End |-> <<>> ]
    /\ up = TRUE
    /\ cut = FALSE
    /\ guard = [ e \in End |-> FALSE ]
    /\ waiters = [ e \in End |-> << "handler" >> ]
    /\ sent = [ e \in End |-> <<>> ]
    /\ received = [ e \in End |-> <<>> ]

Goto(e, label) == pc' = [ pc EXCEPT ![e] = label ]

\* send: the first turn of write_all is taken at once, the handler goes on at
\* `label' when everything is written.
Send(e, m, label) ==
    /\ Push(e, ToBytes(m))
    /\ sent' = [ sent EXCEPT ![e] = Append(@, m) ]
    /\ Goto(e, label)

Enter(e) ==
    /\ pc[e] = "enter"
    /\ Writes(e, "handler")
    /\ Goto(e, "greet")
    /\ UNCHANGED <<height, offer, out, got, wire, guard, history>>

SendVersion(e) ==
    /\ pc[e] = "greet"
    /\ Send(e, Version(height[e]), "introduce")
    /\ UNCHANGED <<height, offer, got, up, cut, lock, received>>

SendGetPeers(e) ==
    /\ pc[e] = "introduce" /\ out[e] = <<>>
    /\ Send(e, GetPeers, "greeted")
    /\ UNCHANGED <<height, offer, got, up, cut, lock, received>>

StartLoop(e) ==
    /\ pc[e] = "greeted" /\ out[e] = <<>>
    /\ Goto(e, "loop")
    /\ UNCHANGED <<height, offer, out, got, wire, lock, history>>

\* Mutant: the buffer is not emptied for the next message.
ReceivesAgain(e, type) ==
    /\ pc[e] = "loop" /\ out[e] = <<>>
    /\ Arrived(e) /\ Decodes(e)
    /\ Incoming(e).type = type
    /\ received' = [ received EXCEPT ![e] = Append(@, Incoming(e)) ]
    /\ UNCHANGED got

\* receive returns a message of this type.
Receives(e, type) ==
    /\ pc[e] = "loop" /\ out[e] = <<>>
    /\ Arrived(e) /\ Decodes(e)
    /\ Incoming(e).type = type
    /\ got' = [ got EXCEPT ![e] = <<>> ]
    /\ received' = [ received EXCEPT ![e] = Append(@, Incoming(e)) ]

\* Mutant: how far the peer is ahead is computed before the heights are compared; a
\* peer that is behind makes the subtraction underflow.
OnVersionSubtracts(e) ==
    /\ Receives(e, "Version")
    /\ offer' = [ offer EXCEPT ![e] = Incoming(e).height - height[e] ]
    /\ Send(e, VerAck, "compare")
    /\ UNCHANGED <<height, up, cut, lock>>

OnVersion(e) ==
    /\ Receives(e, "Version")
    /\ offer' = [ offer EXCEPT ![e] = Incoming(e).height ]
    /\ Send(e, VerAck, "compare")
    /\ UNCHANGED <<height, up, cut, lock>>

\* Mutant: peers are asked for again, after the blocks.
CompareThenIntroduce(e) ==
    /\ pc[e] = "compare" /\ out[e] = <<>>
    /\ IF offer[e] > height[e]
       THEN Send(e, GetBlocks(height[e]), "introduce")
       ELSE Goto(e, "loop") /\ UNCHANGED <<out, stream, sent>>
    /\ offer' = [ offer EXCEPT ![e] = 0 ]
    /\ UNCHANGED <<height, got, up, cut, lock, received>>

Compare(e) ==
    /\ pc[e] = "compare" /\ out[e] = <<>>
    /\ IF offer[e] > height[e]
       THEN Send(e, GetBlocks(height[e]), "loop")
       ELSE Goto(e, "loop") /\ UNCHANGED <<out, stream, sent>>
    /\ offer' = [ offer EXCEPT ![e] = 0 ]
    /\ UNCHANGED <<height, got, up, cut, lock, received>>

OnVerAck(e) ==
    /\ Receives(e, "VerAck")
    /\ UNCHANGED <<height, pc, offer, out, wire, lock, sent>>

\* Up to 500 blocks in one message, whatever their size; none when the chain is
\* not longer than what was asked from.
OnGetBlocks(e) ==
    /\ Receives(e, "GetBlocks")
    /\ \E size \in IF height[e] > Incoming(e).height THEN AnswerSizes ELSE { SmallSize } :
          Send(e, Blocks(height[e], size), "loop")
    /\ UNCHANGED <<height, offer, up, cut, lock>>

\* The blocks that are accepted are a beginning of those that were sent.
OnBlocks(e) ==
    /\ Receives(e, "Blocks")
    /\ \E h \in 0 .. MaxHeight :
          /\ h = height[e] \/ (height[e] < h /\ h <= Incoming(e).height)
          /\ height' = [ height EXCEPT ![e] = h ]
    /\ UNCHANGED <<pc, offer, out, wire, lock, sent>>

OnGetPeers(e) ==
    /\ Receives(e, "GetPeers")
    /\ Asks(e, "handler")
    /\ Goto(e, "share")
    /\ UNCHANGED <<height, offer, out, wire, guard, sent>>

\* The table is read and sent under one guard, which lives to the end of the arm.
SharePeers(e) ==
    /\ pc[e] = "share"
    /\ Reads(e, "handler")
    /\ guard' = [ guard EXCEPT ![e] = TRUE ]
    /\ Send(e, PeerList, "shared")
    /\ UNCHANGED <<height, offer, got, up, cut, received>>

DropGuard(e) ==
    /\ pc[e] = "shared" /\ out[e] = <<>>
    /\ guard' = [ guard EXCEPT ![e] = FALSE ]
    /\ Goto(e, "loop")
    /\ UNCHANGED <<height, offer, out, got, wire, waiters, history>>

OnPeers(e) ==
    /\ Receives(e, "Peers")
    /\ Asks(e, "handler")
    /\ Goto(e, "filter")
    /\ UNCHANGED <<height, offer, out, wire, guard, sent>>

\* The unknown addresses go to the discovery channel, which never blocks.
FilterPeers(e) ==
    /\ pc[e] = "filter"
    /\ Reads(e, "handler")
    /\ Goto(e, "loop")
    /\ UNCHANGED <<height, offer, out, got, wire, guard, history>>

WriteBroken(e) == ~ up /\ out[e] # <<>>

\* receive returns an error: end of stream, a length above the limit, or bytes
\* that are no message.
ReadBroken(e) ==
    /\ pc[e] = "loop" /\ out[e] = <<>>
    /\ \/ ~ up /\ stream[e] = <<>> /\ Missing(e) > 0
       \/ TooLarge(e)
       \/ Arrived(e) /\ ~ Decodes(e)

\* The socket is dropped once handle_peer has returned.
Return(e) ==
    /\ Goto(e, "done")
    /\ IF up THEN Down ELSE UNCHANGED <<up, stream>>
    /\ UNCHANGED cut

\* A send of the greeting fails: `?' leaves the table as it is.
GreetingFails(e) ==
    /\ pc[e] \in { "introduce", "greeted" } /\ WriteBroken(e)
    /\ Return(e)
    /\ out' = [ out EXCEPT ![e] = <<>> ]
    /\ UNCHANGED <<height, offer, got, lock, history>>

\* message_loop ends with an error; a guard is dropped on the way out.
LoopFails(e) ==
    /\ pc[e] \in { "loop", "compare", "shared" }
    /\ WriteBroken(e) \/ ReadBroken(e)
    /\ Goto(e, "leave")
    /\ out' = [ out EXCEPT ![e] = <<>> ]
    /\ got' = [ got EXCEPT ![e] = <<>> ]
    /\ guard' = [ guard EXCEPT ![e] = FALSE ]
    /\ Asks(e, "handler")
    /\ UNCHANGED <<height, offer, wire, history>>

Leave(e) ==
    /\ pc[e] = "leave"
    /\ Writes(e, "handler")
    /\ Return(e)
    /\ UNCHANGED <<height, offer, out, got, guard, history>>

\* Blocks arrive from the mining loop and from other connections (bound: while
\* the connection is up, later they make no difference to it).
Grow(e) ==
    /\ up /\ height[e] < MaxHeight
    /\ height' = [ height EXCEPT ![e] = @ + 1 ]
    /\ UNCHANGED <<handler, wire, lock, history>>

Handle(e) ==
    \/ Enter(e)
    \/ SendVersion(e)
    \/ SendGetPeers(e)
    \/ StartLoop(e)
    \/ Write(e)
    \/ Read(e)
    \/ OnVersion(e)
    \/ Compare(e)
    \/ OnVerAck(e)
    \/ OnGetBlocks(e)
    \/ OnBlocks(e)
    \/ OnGetPeers(e)
    \/ SharePeers(e)
    \/ DropGuard(e)
    \/ OnPeers(e)
    \/ FilterPeers(e)
    \/ GreetingFails(e)
    \/ LoopFails(e)
    \/ Leave(e)

Next ==
    \/ \E e \in End : Handle(e) \/ Grow(e)
    \/ \E e \in End, who \in Readers \cup Writers : TableWanted(e, who) \/ TableUsed(e, who)
    \/ Cut

Spec == Init /\ [][Next]_vars

\* The runtime polls every task that can move; nobody has to come for the lock,
\* nothing has to break and no chain has to grow.
FairSpec ==
    /\ Spec
    /\ \A e \in End : WF_vars(Handle(e))
    /\ \A e \in Crowded : WF_vars(\E who \in Readers \cup Writers : TableUsed(e, who))

-----------------------------------------------------------------------------
(* Properties *)

Label == { "enter", "greet", "introduce", "greeted", "loop", "compare", "share",
           "shared", "filter", "leave", "done" }

Bytes == [ of : Message \cup {LengthPrefix}, value : 0 .. Base - 1 ]

TypeOK ==
    /\ height \in [ End -> 0 .. MaxHeight ]
    /\ pc \in [ End -> Label ]
    /\ offer \in [ End -> 0 .. MaxHeight ]
    /\ out \in [ End -> Seq(Bytes) ] /\ got \in [ End -> Seq(Bytes) ]
    /\ stream \in [ End -> Seq(Bytes) ]
    /\ waiters \in [ End -> Seq({"handler"} \cup Readers \cup Writers) ]
    /\ sent \in [ End -> Seq(Message) ] /\ received \in [ End -> Seq(Message) ]
    /\ \A e \in End :
          /\ Len(stream[e]) <= Capacity
          /\ \A i, j \in DOMAIN waiters[e] : waiters[e][i] = waiters[e][j] => i = j
    /\ up \in BOOLEAN /\ cut \in BOOLEAN
    /\ guard \in [ End -> BOOLEAN ]

\* Whoever sends while it holds the lock of the peer table has room for what it
\* still has to write: the lock is never held for as long as the other end takes
\* to read.  Nothing but the order of the messages sees to that: the peers are
\* asked for before the blocks, so the answer with the peers goes out first.
LockHolderCanSend == \A e \in End : guard[e] /\ up => Len(out[e]) <= Room(e)

\* Whoever waits for the lock of the peer table gets it: the handler, the handler
\* of another connection, and the loop of the terminal interface, which mines.
LockWaitsEnd ==
    \A e \in Crowded : \A who \in {"handler"} \cup Readers \cup Writers :
        who \in ToSet(waiters[e]) ~> who \notin ToSet(waiters[e])

Oversize == \E e \in End : \E i \in DOMAIN sent[e] : sent[e][i].size > MaxMessage

\* A connection that nothing outside the program ends delivers every message:
\* the two ends never both wait for the other to read, and neither gives up.  The
\* one exception is a Blocks answer above the limit, which the sender does not
\* check and the receiver takes for an error.
EverythingDelivered ==
    (\E e \in End : sent[e] # received[Other(e)])
        ~> (\A e \in End : sent[e] = received[Other(e)]) \/ cut \/ Oversize

\* Each direction is a channel, through partial writes, partial reads and cuts.
Forth == INSTANCE Channel WITH sent <- sent["dialer"], received <- received["acceptor"]
Back == INSTANCE Channel WITH sent <- sent["acceptor"], received <- received["dialer"]

ImplementsChannels == Forth!Spec /\ Back!Spec
=============================================================================
