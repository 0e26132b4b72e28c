-------------------------------- MODULE Sync --------------------------------
(***************************************************************************)
(* Chain synchronisation between nodes: the Version / GetBlocks / Blocks   *)
(* exchange of network/sync_manager.rs over TCP connections                *)
(* (network/peer.rs, network/server.rs).                                   *)
(*                                                                         *)
(* Both ends of a connection run handle_peer.  Each step of a handler that *)
(* takes the chain lock anew is an action of its own, so that mining and   *)
(* the handlers of other connections come in between.                      *)
(*                                                                         *)
(* A handler learns that its connection is broken only when it uses the    *)
(* socket: while it imports an answer it does not.  So a handler can       *)
(* outlive its connection, and a node that starts again can be connected   *)
(* to a peer whose handler of the old connection still runs.  The          *)
(* connections of one pair are therefore numbered, and the handler of node *)
(* n for the connection with m of number k is named <<n, m, k>>.           *)
(*                                                                         *)
(* A block is the path of its ancestors: the sequence of the nodes that    *)
(* mined the blocks from height 1 up to it.  The tip of a node is such a   *)
(* path, and its height index holds the prefixes of its tip.               *)
(***************************************************************************)
EXTENDS Integers, Sequences, SequencesExt, FiniteSets

CONSTANTS
    Node,
    Dials,        \* pairs <<n, m>>: n connects to m when it starts
    Miners,       \* the nodes that mine
    InitialTip,   \* node -> the chain it holds when it starts
    Count,        \* blocks a node asks for, 500 in the code
    MaxHeight,    \* bound: no block is mined above this height
    Fragile,      \* bound: the nodes that restart and whose connections break
    MaxBreaks     \* bound: connections lost and nodes restarted

ASSUME SyncAssumption ==
    /\ Dials \subseteq { d \in Node \X Node : d[1] # d[2] }
    /\ \A d \in Dials : <<d[2], d[1]>> \notin Dials
    /\ Miners \subseteq Node /\ Fragile \subseteq Node
    /\ InitialTip \in [ Node -> Seq(Node) ]
    /\ Count \in Nat /\ MaxHeight \in Nat /\ MaxBreaks \in Nat

VARIABLES tip,      \* node -> Blockchain::tip
          dialed,   \* the dials already made by the running processes
          up,       \* the handlers whose connection stands
          pc,       \* handler -> where handle_peer stands
          inbox,    \* handler -> messages on their way to it, in order
          offer,    \* handler -> the height in the Version it received
          batch,    \* handler -> blocks it still has to process
          breaks    \* connections lost and restarts so far

connection == <<dialed, up, pc, inbox, offer, batch>>
vars == <<tip, connection, breaks>>

\* Every restart lets a node dial once more, so these numbers are enough.
Number(d) == IF d[1] \in Fragile THEN 1 .. MaxBreaks + 1 ELSE {1}

Dialler(d, k) == <<d[1], d[2], k>>
Peer(h) == <<h[2], h[1], h[3]>>
Handler ==
    LET diallers == UNION { { Dialler(d, k) : k \in Number(d) } : d \in Dials }
    IN  diallers \cup { Peer(h) : h \in diallers }
Height(n) == Len(tip[n])

Version(height) == [ type |-> "Version", height |-> height ]
VerAck == [ type |-> "VerAck" ]
\* Mutant: one block too many is asked for.
AskForMore(from, count) == [ type |-> "GetBlocks", from |-> from, count |-> count + 1 ]

GetBlocks(from, count) == [ type |-> "GetBlocks", from |-> from, count |-> count ]
Blocks(blocks) == [ type |-> "Blocks", blocks |-> blocks ]

Init ==
    /\ tip = InitialTip
    /\ dialed = {}
    /\ up = {}
    /\ pc = [ h \in Handler |-> "closed" ]
    /\ inbox = [ h \in Handler |-> << >> ]
    /\ offer = [ h \in Handler |-> 0 ]
    /\ batch = [ h \in Handler |-> << >> ]
    /\ breaks = 0

-----------------------------------------------------------------------------
(* Connections *)

\* No handler of this connection runs any more.
Unused(d, k) == pc[Dialler(d, k)] = "closed" /\ pc[Peer(Dialler(d, k))] = "closed"

\* connect_to_peer on one side, Server::run on the other: both spawn a handler.
Connect(d) ==
    /\ d \notin dialed
    /\ dialed' = dialed \cup {d}
    /\ \E k \in Number(d) :
          LET ends == { Dialler(d, k), Peer(Dialler(d, k)) }
          IN  /\ Unused(d, k)
              /\ \A j \in Number(d) : j < k => ~ Unused(d, j)
              /\ up' = up \cup ends
              /\ pc' = [ h \in Handler |-> IF h \in ends THEN "greet" ELSE pc[h] ]
    /\ UNCHANGED <<tip, inbox, offer, batch, breaks>>

\* The connection breaks.  Nobody dials again.  The handlers do not know yet.
Cut(h) ==
    /\ breaks < MaxBreaks
    /\ h \in up /\ h[1] \in Fragile
    /\ breaks' = breaks + 1
    /\ up' = up \ { h, Peer(h) }
    /\ UNCHANGED <<tip, dialed, pc, inbox, offer, batch>>

\* The handlers in H are gone, with what they had received and not processed.
Close(H) ==
    /\ pc' = [ h \in Handler |-> IF h \in H THEN "closed" ELSE pc[h] ]
    /\ inbox' = [ h \in Handler |-> IF h \in H THEN << >> ELSE inbox[h] ]
    /\ offer' = [ h \in Handler |-> IF h \in H THEN 0 ELSE offer[h] ]
    /\ batch' = [ h \in Handler |-> IF h \in H THEN << >> ELSE batch[h] ]

\* A send or a receive fails because the connection is broken: handle_peer
\* returns.  No step of an import fails so.
End(h) ==
    /\ h \notin up
    /\ pc[h] \in { "greet", "loop", "ask" }
    /\ Close({h})
    /\ UNCHANGED <<tip, dialed, up, breaks>>

\* A node is stopped and started: its handlers and its connections are gone, it
\* loads its chain and dials its peers anew.
Restart(n) ==
    /\ n \in Fragile
    /\ breaks < MaxBreaks
    /\ breaks' = breaks + 1
    /\ Close({ h \in Handler : h[1] = n })
    /\ up' = { h \in up : n \notin { h[1], h[2] } }
    /\ dialed' = { d \in dialed : d[1] # n }
    /\ UNCHANGED tip

-----------------------------------------------------------------------------
(* handle_peer and message_loop *)

\* What arrives of `msgs': nothing when the connection is broken, although the
\* first writes after that still succeed.
Arriving(h, msgs) == IF h \in up THEN msgs ELSE << >>

Send(h, msgs) == inbox' = [ inbox EXCEPT ![Peer(h)] = @ \o Arriving(h, msgs) ]

\* Take the first message of h and send `msgs' to the peer.
Reply(h, msgs) ==
    inbox' = [ inbox EXCEPT ![h] = Tail(@), ![Peer(h)] = @ \o Arriving(h, msgs) ]

Receives(h, type) ==
    /\ pc[h] = "loop"
    /\ inbox[h] # << >>
    /\ inbox[h][1].type = type

Greet(h) ==
    /\ pc[h] = "greet"
    /\ pc' = [ pc EXCEPT ![h] = "loop" ]
    /\ Send(h, << Version(Height(h[1])) >>)
    /\ UNCHANGED <<tip, dialed, up, offer, batch, breaks>>

OnVersion(h) ==
    /\ Receives(h, "Version")
    /\ offer' = [ offer EXCEPT ![h] = inbox[h][1].height ]
    /\ pc' = [ pc EXCEPT ![h] = "compare" ]
    /\ Reply(h, << VerAck >>)
    /\ UNCHANGED <<tip, dialed, up, batch, breaks>>

\* Mutant: a peer of the same height counts as ahead.
CompareNotBehind(h) ==
    /\ pc[h] = "compare"
    /\ pc' = [ pc EXCEPT ![h] = IF offer[h] >= Height(h[1]) THEN "ask" ELSE "loop" ]
    /\ UNCHANGED <<tip, dialed, up, inbox, offer, batch, breaks>>

\* First chain lock: our height.
Compare(h) ==
    /\ pc[h] = "compare"
    /\ pc' = [ pc EXCEPT ![h] = IF offer[h] > Height(h[1]) THEN "ask" ELSE "loop" ]
    /\ UNCHANGED <<tip, dialed, up, inbox, offer, batch, breaks>>

\* Second chain lock: our tip, which may have moved since.
Ask(h) ==
    /\ pc[h] = "ask"
    /\ pc' = [ pc EXCEPT ![h] = "loop" ]
    /\ Send(h, << GetBlocks(tip[h[1]], Count) >>)
    /\ UNCHANGED <<tip, dialed, up, offer, batch, breaks>>

OnVerAck(h) ==
    /\ Receives(h, "VerAck")
    /\ Reply(h, << >>)
    /\ UNCHANGED <<tip, dialed, up, pc, offer, batch, breaks>>

\* Mutant: the first block after `from' is left out.
BlocksFromNext(chain, from, count) ==
    IF IsPrefix(from, chain) /\ Len(from) + 1 < Len(chain)
    THEN LET last == IF Len(from) + 1 + count < Len(chain)
                     THEN Len(from) + 1 + count ELSE Len(chain)
         IN  [ i \in 1 .. last - Len(from) - 1 |-> SubSeq(chain, 1, Len(from) + 1 + i) ]
    ELSE << >>

\* Mutant: the last block of the range is left out.
BlocksBelowLast(chain, from, count) ==
    IF IsPrefix(from, chain)
    THEN LET last == IF Len(from) + count < Len(chain) THEN Len(from) + count ELSE Len(chain)
         IN  [ i \in 1 .. last - Len(from) |-> SubSeq(chain, 1, Len(from) + i) ]
    ELSE << >>

\* get_blocks_after: nothing when `from' is not on our chain, else the blocks at
\* start..=min(start + count, height), one more than was asked for.
BlocksAfter(chain, from, count) ==
    IF IsPrefix(from, chain)
    THEN LET last == IF Len(from) + 1 + count < Len(chain)
                     THEN Len(from) + 1 + count ELSE Len(chain)
         IN  [ i \in 1 .. last - Len(from) |-> SubSeq(chain, 1, Len(from) + i) ]
    ELSE << >>

OnGetBlocks(h) ==
    /\ Receives(h, "GetBlocks")
    /\ LET request == inbox[h][1]
       IN  Reply(h, << Blocks(BlocksAfter(tip[h[1]], request.from, request.count)) >>)
    /\ UNCHANGED <<tip, dialed, up, pc, offer, batch, breaks>>

OnBlocks(h) ==
    /\ Receives(h, "Blocks")
    /\ batch' = [ batch EXCEPT ![h] = inbox[h][1].blocks ]
    /\ pc' = [ pc EXCEPT ![h] = "import" ]
    /\ Reply(h, << >>)
    /\ UNCHANGED <<tip, dialed, up, offer, breaks>>

\* add_block takes a block whose parent is the tip; every other one is refused
\* (BlockExists, PrevBlockNotFound) and the refusal is only logged.
AddBlock(n, b) ==
    tip' = IF Front(b) = tip[n] THEN [ tip EXCEPT ![n] = b ] ELSE tip

\* process_new_block: one block of the batch, under its own chain lock.
Import(h) ==
    /\ pc[h] = "import"
    /\ batch[h] # << >>
    /\ AddBlock(h[1], batch[h][1])
    /\ batch' = [ batch EXCEPT ![h] = Tail(@) ]
    /\ UNCHANGED <<dialed, up, pc, inbox, offer, breaks>>

ImportDone(h) ==
    /\ pc[h] = "import"
    /\ batch[h] = << >>
    /\ pc' = [ pc EXCEPT ![h] = "loop" ]
    /\ UNCHANGED <<tip, dialed, up, inbox, offer, batch, breaks>>

\* The mining loop adds a block.  Nothing tells the peers: broadcast_block is
\* never called and would only emit a local event.
Mine(n) ==
    /\ n \in Miners
    /\ Height(n) < MaxHeight
    /\ tip' = [ tip EXCEPT ![n] = Append(@, n) ]
    /\ UNCHANGED <<connection, breaks>>

Handle(h) ==
    \/ Greet(h)
    \/ OnVersion(h)
    \/ Compare(h)
    \/ Ask(h)
    \/ OnVerAck(h)
    \/ OnGetBlocks(h)
    \/ OnBlocks(h)
    \/ Import(h)
    \/ ImportDone(h)

Next ==
    \/ \E d \in Dials : Connect(d)
    \/ \E n \in Node : Restart(n) \/ Mine(n)
    \/ \E h \in Handler : Cut(h) \/ End(h) \/ Handle(h)

Spec == Init /\ [][Next]_vars

\* The runtime polls every task that can move.  That a broken connection is ever
\* noticed is not assumed.
FairSpec ==
    /\ Spec
    /\ \A h \in Handler : WF_vars(Handle(h))
    /\ \A d \in Dials : WF_vars(Connect(d))

-----------------------------------------------------------------------------
(* Invariants *)

Message ==
    [ type : {"Version"}, height : Nat ] \cup [ type : {"VerAck"} ]
    \cup [ type : {"GetBlocks"}, from : Seq(Node), count : {Count} ]
    \cup [ type : {"Blocks"}, blocks : Seq(Seq(Node)) ]

TypeOK ==
    /\ tip \in [ Node -> Seq(Node) ]
    /\ dialed \subseteq Dials
    /\ up \subseteq Handler
    /\ pc \in [ Handler -> { "closed", "greet", "loop", "compare", "ask", "import" } ]
    /\ inbox \in [ Handler -> Seq(Message) ]
    /\ offer \in [ Handler -> Nat ]
    /\ batch \in [ Handler -> Seq(Seq(Node)) ]
    /\ breaks \in 0 .. MaxBreaks

Coming(h) == ToSet(inbox[h])
InTransit(h, type) == \E m \in Coming(h) : m.type = type

\* The handler runs and is fetching blocks from its peer: about to ask, or the
\* request or its answer is on its way, or the answer is being processed.
Fetching(h) ==
    /\ pc[h] # "closed"
    /\ \/ pc[h] \in { "ask", "import" }
       \/ InTransit(Peer(h), "GetBlocks")
       \/ InTransit(h, "Blocks")

\* The two ends of a connection never fetch from each other: each compares the
\* height it was told with a height of its own that has only grown since.
OneSideFetches == \A h \in Handler : ~ (Fetching(h) /\ Fetching(Peer(h)))

\* The answers on their way to a handler.
Answers(h) == { m.blocks : m \in { a \in Coming(h) : a.type = "Blocks" } }

\* An answer follows on from the chain of the node that asked: its first block
\* has its parent on that chain, even if the chain has grown meanwhile, and each
\* further block is the child of the one before, on the sender's chain.
AnswersFollow ==
    \A h \in Handler :
        /\ \A blocks \in Answers(h) :
              blocks # << >> => IsPrefix(Front(blocks[1]), tip[h[1]])
        /\ \A blocks \in Answers(h) \cup {batch[h]} :
              /\ \A i \in 2 .. Len(blocks) : Front(blocks[i]) = blocks[i - 1]
              /\ \A i \in DOMAIN blocks : IsPrefix(blocks[i], tip[h[2]])

-----------------------------------------------------------------------------
(* Liveness *)

Behind(h) == pc[h] = "compare" /\ Height(h[1]) < offer[h]

\* A node that learns of a longer chain which extends its own, by no more blocks
\* than one answer holds, reaches the height it was told, unless the connection
\* is lost or its own chain leaves the other one; the longer chain may keep
\* growing meanwhile.  (A peer announces one height per connection, so that `offer'
\* stays what it was while the connection stands.)
SyncsWithinBatch ==
    \A h \in Handler :
        (/\ Behind(h)
         /\ offer[h] - Height(h[1]) <= Count + 1
         /\ IsPrefix(tip[h[1]], tip[h[2]]))
            ~> (\/ Height(h[1]) >= offer[h]
                \/ h \notin up
                \/ ~ IsPrefix(tip[h[1]], tip[h[2]]))

-----------------------------------------------------------------------------
(* What the documentation says, and the code does not do *)

\* README.md:121: "Nodes perform initial block sync on connection": a node that
\* learns of a longer chain which extends its own gets it, however long.
InitialSync ==
    \A h \in Handler :
        (Behind(h) /\ IsPrefix(tip[h[1]], tip[h[2]])) ~> (Height(h[1]) >= offer[h] \/ h \notin up)
=============================================================================
