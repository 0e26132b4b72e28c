------------------------------- MODULE Peers --------------------------------
(***************************************************************************)
(* The peer table of one node and peer discovery                           *)
(* (network/sync_manager.rs, network/server.rs): handle_peer enters and    *)
(* leaves the table, Peers messages feed a channel, and a loop dials the   *)
(* addresses of the channel while the table has room.                      *)
(*                                                                         *)
(* Every connection is a task of its own.  A task takes the lock of the    *)
(* table once to enter and once to leave; everything between runs without  *)
(* it, so tasks interleave between the steps below.                        *)
(*                                                                         *)
(* The table is keyed by socket address.  A connection that was dialled    *)
(* has the address dialled; one that was accepted has the address of the   *)
(* other side's ephemeral port, where nobody listens.                      *)
(***************************************************************************)
EXTENDS Integers, Sequences, SequencesExt, FiniteSets

CONSTANTS
    Task,          \* bound: connection tasks alive at once
    Listening,     \* addresses where a node listens
    Ephemeral,     \* addresses of the dialling side of a connection
    Loopback,      \* 127.0.0.1 at the listen port, one of the listening addresses
    Configured,    \* the addresses of --peers or of the seeds
    MAX_OUTBOUND,  \* 8 in the code
    MaxQueue,      \* bound: addresses in the discovery channel
    MaxLost        \* bound: connections that break while greeting

ASSUME PeersAssumption ==
    /\ IsFiniteSet(Listening) /\ IsFiniteSet(Ephemeral)
    /\ Listening \cap Ephemeral = {}
    /\ Loopback \in Listening
    /\ Configured \subseteq Listening
    /\ MAX_OUTBOUND \in Nat /\ MaxQueue \in Nat /\ MaxLost \in Nat

VARIABLES peers,       \* SyncManager::peers
          task,        \* task -> [at, addr, by]: where it stands, its address
                       \* and who started it
          queue,       \* the discovery channel
          configured,  \* configured addresses not dialled yet
          leaked,      \* addresses a broken greeting left in the table
          doubled      \* addresses entered while they were in the table

vars == <<peers, task, queue, configured, leaked, doubled>>

Addr == Listening \cup Ephemeral
NoTask == [ at |-> "none", addr |-> Loopback, by |-> "none" ]

Init ==
    /\ peers = {}
    /\ task = [ t \in Task |-> NoTask ]
    /\ queue = << >>
    /\ configured = Configured
    /\ leaked = {}
    /\ doubled = {}

-----------------------------------------------------------------------------
(* Starting a connection *)

\* tokio::spawn: a task takes the first free place, whichever that is.
Spawn(at, addr, by) ==
    \E t \in Task :
        /\ task[t] = NoTask
        /\ task' = [ task EXCEPT ![t] = [ at |-> at, addr |-> addr, by |-> by ] ]

DialConfigured(a) ==
    /\ a \in configured
    /\ configured' = configured \ {a}
    /\ Spawn("dial", a, "user")
    /\ UNCHANGED <<peers, queue, leaked, doubled>>

\* Server::run: the kernel gives each live connection another address.
Accept(a) ==
    /\ \A t \in Task : task[t] # NoTask => task[t].addr # a
    /\ Spawn("enter", a, "server")
    /\ UNCHANGED <<peers, queue, configured, leaked, doubled>>

\* spawn_discovery_loop: the size of the table is read, the lock released, and
\* a task started that enters the table only when it is connected.
Discover ==
    /\ queue # << >>
    /\ queue' = Tail(queue)
    /\ IF Cardinality(peers) < MAX_OUTBOUND
       THEN Spawn("dial", Head(queue), "discovery")
       ELSE UNCHANGED task
    /\ UNCHANGED <<peers, configured, leaked, doubled>>

\* connect_to_peer: TcpStream::connect, which fails where nobody listens.
DialSucceeds(t) ==
    /\ task[t].at = "dial"
    /\ task[t].addr \in Listening
    /\ task' = [ task EXCEPT ![t].at = "enter" ]
    /\ UNCHANGED <<peers, queue, configured, leaked, doubled>>

DialFails(t) ==
    /\ task[t].at = "dial"
    /\ task' = [ task EXCEPT ![t] = NoTask ]
    /\ UNCHANGED <<peers, queue, configured, leaked, doubled>>

-----------------------------------------------------------------------------
(* handle_peer *)

Enter(t) ==
    /\ task[t].at = "enter"
    /\ peers' = peers \cup {task[t].addr}
    /\ doubled' = IF task[t].addr \in peers THEN doubled \cup {task[t].addr} ELSE doubled
    /\ task' = [ task EXCEPT ![t].at = "greet" ]
    /\ UNCHANGED <<queue, configured, leaked>>

\* Version and GetPeers are sent.
Greet(t) ==
    /\ task[t].at = "greet"
    /\ task' = [ task EXCEPT ![t].at = "loop" ]
    /\ UNCHANGED <<peers, queue, configured, leaked, doubled>>

\* One of the two sends fails: `?' returns before the table is cleaned up.
GreetFails(t) ==
    /\ task[t].at = "greet"
    /\ Cardinality(leaked) < MaxLost
    /\ leaked' = leaked \cup {task[t].addr}
    /\ task' = [ task EXCEPT ![t] = NoTask ]
    /\ UNCHANGED <<peers, queue, configured, doubled>>

\* Mutant: known addresses are left out, our loopback address is not.
UnknownAddresses(addrs) == addrs \ peers

\* Mutant: our loopback address is left out, known addresses are not.
OtherAddresses(addrs) == addrs \ {Loopback}

\* The addresses of a Peers message that pass the filter.  Of our own addresses it
\* knows the loopback one only: the listener is bound to 0.0.0.0, and the others, of
\* the network cards, are listening addresses like those of other nodes.
NewAddresses(addrs) == addrs \ (peers \cup {Loopback})

\* They enter the channel one by one under one read lock, in the order of the
\* message: the order in which the sender iterated over its HashSet, so any.
OnPeers(t, addrs) ==
    /\ task[t].at = "loop"
    /\ Len(queue) + Cardinality(addrs) <= MaxQueue
    /\ \E new \in SetToSeqs(NewAddresses(addrs)) : queue' = queue \o new
    /\ UNCHANGED <<peers, task, configured, leaked, doubled>>

\* receive or a send of message_loop fails.
LoopEnds(t) ==
    /\ task[t].at = "loop"
    /\ task' = [ task EXCEPT ![t].at = "leave" ]
    /\ UNCHANGED <<peers, queue, configured, leaked, doubled>>

\* Mutant: the table is left as it is when the loop ends.
LeaveForgets(t) ==
    /\ task[t].at = "leave"
    /\ task' = [ task EXCEPT ![t] = NoTask ]
    /\ UNCHANGED <<peers, queue, configured, leaked, doubled>>

Leave(t) ==
    /\ task[t].at = "leave"
    /\ peers' = peers \ {task[t].addr}
    /\ task' = [ task EXCEPT ![t] = NoTask ]
    /\ UNCHANGED <<queue, configured, leaked, doubled>>

\* The messages a peer may send: its table, of up to two addresses.
Gossip == { addrs \in SUBSET Addr : Cardinality(addrs) <= 2 }

Next ==
    \/ \E a \in Configured : DialConfigured(a)
    \/ \E a \in Ephemeral : Accept(a)
    \/ Discover
    \/ \E t \in Task :
          \/ DialSucceeds(t)
          \/ DialFails(t)
          \/ Enter(t)
          \/ Greet(t)
          \/ GreetFails(t)
          \/ \E addrs \in Gossip : OnPeers(t, addrs)
          \/ LoopEnds(t)
          \/ Leave(t)

Spec == Init /\ [][Next]_vars

-----------------------------------------------------------------------------
(* Invariants *)

TypeOK ==
    /\ peers \subseteq Addr
    /\ task \in [ Task -> [ at : { "none", "dial", "enter", "greet", "loop", "leave" },
                            addr : Addr,
                            by : { "none", "user", "server", "discovery" } ] ]
    /\ queue \in Seq(Addr \ {Loopback})
    /\ configured \subseteq Configured
    /\ leaked \subseteq Addr
    /\ doubled \subseteq Addr

\* The addresses of the connections that are in handle_peer's care.
Connected == { task[t].addr : t \in { u \in Task : task[u].at \in { "greet", "loop", "leave" } } }

\* The table is wrong in two ways only, whatever connections come and go at once:
\* it keeps an address whose greeting broke, and it loses the address of a
\* connection when another one with the same address ends first.
TableExplained ==
    /\ peers \subseteq Connected \cup leaked
    /\ Connected \subseteq peers \cup doubled

\* An address of the table that no connection has, started or waiting to be.
OutOfReach(a) ==
    /\ a \in peers
    /\ \A t \in Task : task[t] # NoTask => task[t].addr # a
    /\ a \notin configured
    /\ a \notin ToSet(queue)

\* The price of a broken greeting: the address it leaves in the table is never
\* dialled again, whatever peers tell of it, and never leaves the table.  No way
\* back opens by any interleaving of connections.
LostForGood == [][ \A a \in Listening : OutOfReach(a) => OutOfReach(a)' ]_vars

-----------------------------------------------------------------------------
(* What the documentation says, and the code does not do *)

\* sync_manager.rs:32: MAX_OUTBOUND is the "Maximum number of outbound peer
\* connections": with no configured peer, discovery keeps to it.
OutboundBounded ==
    Cardinality({ t \in Task : task[t].by = "discovery"
                               /\ task[t].at \in { "greet", "loop", "leave" } })
        <= MAX_OUTBOUND
=============================================================================
