---------------------------- MODULE PeersProofs -----------------------------
(***************************************************************************)
(* Proofs about Peers for every number of connections, every set of        *)
(* addresses and every limit: types, the two ways in which the table can   *)
(* be wrong, and that an address it keeps with no connection is lost.      *)
(***************************************************************************)
EXTENDS Peers, SequenceTheorems, FiniteSetTheorems, TLAPS

(* The addresses of a message enter the channel as a sequence of addresses  *)
(* that are neither our loopback one nor known.                             *)
LEMMA NewAddressesType ==
    ASSUME NEW addrs \in Gossip, NEW new \in SetToSeqs(NewAddresses(addrs))
    PROVE  new \in Seq(Addr \ {Loopback}) /\ ToSet(new) \subseteq NewAddresses(addrs)
<1> DEFINE News == NewAddresses(addrs)
<1>1. addrs \subseteq Addr /\ News \subseteq addrs /\ News \subseteq Addr \ {Loopback}
  BY DEF Gossip, NewAddresses
<1>2. IsFiniteSet(Addr)
  BY PeersAssumption, FS_Union DEF Addr
<1>3. Cardinality(News) \in Nat
  BY <1>1, <1>2, FS_Subset, FS_CardinalityType
<1>4. new \in [ 1 .. Cardinality(News) -> News ]
  BY DEF SetToSeqs
<1>5. new \in Seq(News)
  BY <1>3, <1>4, SeqDef
<1>6. ToSet(new) \subseteq News
  BY <1>5 DEF ToSet
<1>7. QED BY <1>1, <1>5, <1>6

(* A task that is spawned takes a free place, and the others stay put.      *)
LEMMA SpawnType ==
    ASSUME TypeOK, NEW at \in { "dial", "enter" }, NEW a \in Addr,
           NEW by \in { "user", "server", "discovery" }, Spawn(at, a, by)
    PROVE  task' \in [ Task -> [ at : { "none", "dial", "enter", "greet", "loop", "leave" },
                                 addr : Addr,
                                 by : { "none", "user", "server", "discovery" } ] ]
  BY DEF TypeOK, Spawn

LEMMA NextTypeOK == TypeOK /\ [Next]_vars => TypeOK'
<1> SUFFICES ASSUME TypeOK, [Next]_vars PROVE TypeOK'
  OBVIOUS
<1>0. Loopback \in Addr /\ Configured \subseteq Addr /\ Ephemeral \subseteq Addr /\ NoTask.addr = Loopback
  BY PeersAssumption DEF Addr, NoTask
<1>1. ASSUME NEW a \in Configured, DialConfigured(a) PROVE TypeOK'
  <2>1. a \in Addr /\ Spawn("dial", a, "user")
    BY <1>0, <1>1 DEF DialConfigured
  <2>2. QED BY <1>1, <2>1, SpawnType DEF DialConfigured, TypeOK
<1>2. ASSUME NEW a \in Ephemeral, Accept(a) PROVE TypeOK'
  <2>1. a \in Addr /\ Spawn("enter", a, "server")
    BY <1>0, <1>2 DEF Accept
  <2>2. QED BY <1>2, <2>1, SpawnType DEF Accept, TypeOK
<1>3. CASE Discover
  <2>1. Head(queue) \in Addr /\ Tail(queue) \in Seq(Addr \ {Loopback})
    BY <1>3, HeadTailProperties DEF Discover, TypeOK
  <2>2. CASE Spawn("dial", Head(queue), "discovery")
    BY <1>3, <2>1, <2>2, SpawnType DEF Discover, TypeOK
  <2>3. CASE UNCHANGED task
    BY <1>3, <2>1, <2>3 DEF Discover, TypeOK
  <2>4. QED BY <1>3, <2>2, <2>3 DEF Discover
<1>4. ASSUME NEW t \in Task, DialFails(t) \/ GreetFails(t) \/ Leave(t) PROVE TypeOK'
  <2>1. NoTask \in [ at : { "none" }, addr : Addr, by : { "none" } ]
    BY <1>0 DEF NoTask
  <2>2. task' = [ task EXCEPT ![t] = NoTask ] /\ task[t].addr \in Addr
    BY <1>4 DEF DialFails, GreetFails, Leave, TypeOK
  <2>3. QED
    BY <1>4, <2>1, <2>2 DEF DialFails, GreetFails, Leave, TypeOK
<1>5. ASSUME NEW t \in Task, DialSucceeds(t) \/ Enter(t) \/ Greet(t) \/ LoopEnds(t)
      PROVE  TypeOK'
  BY <1>5 DEF DialSucceeds, Enter, Greet, LoopEnds, TypeOK
<1>6. ASSUME NEW t \in Task, NEW addrs \in Gossip, OnPeers(t, addrs) PROVE TypeOK'
  <2>1. PICK new \in SetToSeqs(NewAddresses(addrs)) : queue' = queue \o new
    BY <1>6 DEF OnPeers
  <2>2. new \in Seq(Addr \ {Loopback})
    BY NewAddressesType
  <2>3. queue' \in Seq(Addr \ {Loopback})
    BY <2>1, <2>2, ConcatProperties DEF TypeOK
  <2>4. QED BY <1>6, <2>3 DEF OnPeers, TypeOK
<1>7. CASE UNCHANGED vars
  BY <1>7 DEF vars, TypeOK
<1>8. QED
  BY <1>1, <1>2, <1>3, <1>4, <1>5, <1>6, <1>7 DEF Next

LEMMA InitTypeOK == Init => TypeOK
  BY PeersAssumption DEF Init, TypeOK, NoTask, Addr

(* The table and the tasks hold addresses, the channel addresses that are   *)
(* not our loopback one, whatever peers send.                               *)
THEOREM PeersTypeCorrect == Spec => []TypeOK
  BY InitTypeOK, NextTypeOK, PTL DEF Spec

-----------------------------------------------------------------------------
(* Why the table is wrong in two ways only.  A task that ends takes its     *)
(* address out of the table; another task loses it only if it has the same  *)
(* address, and the second of the two to enter found the address there or   *)
(* found it doubled already.                                                *)
InCare == { u \in Task : task[u].at \in { "greet", "loop", "leave" } }

SharedAreDoubled ==
    \A t, u \in InCare : t # u /\ task[t].addr = task[u].addr => task[t].addr \in doubled

TableInv == TypeOK /\ TableExplained /\ SharedAreDoubled

(* A step that leaves the table and the connected tasks alone.              *)
LEMMA SameCare ==
    ASSUME TableInv, TypeOK', UNCHANGED <<peers, leaked, doubled>>, InCare' = InCare,
           \A u \in InCare : task'[u].addr = task[u].addr
    PROVE  TableInv'
<1>1. Connected' = Connected
  BY DEF Connected, InCare
<1>2. SharedAreDoubled'
  BY DEF TableInv, SharedAreDoubled
<1>3. QED BY <1>1, <1>2 DEF TableInv, TableExplained

(* A task is spawned outside handle_peer's care.                            *)
LEMMA SpawnCare ==
    ASSUME TypeOK, NEW at \in { "dial", "enter" }, NEW a \in Addr, NEW by, Spawn(at, a, by)
    PROVE  InCare' = InCare /\ \A u \in InCare : task'[u].addr = task[u].addr
<1>1. PICK t \in Task : /\ task[t] = NoTask
                        /\ task' = [ task EXCEPT ![t] = [ at |-> at, addr |-> a, by |-> by ] ]
  BY DEF Spawn
<1>2. t \notin InCare /\ t \notin InCare'
  BY <1>1 DEF InCare, NoTask, TypeOK
<1>3. \A u \in Task : u # t => task'[u] = task[u]
  BY <1>1 DEF TypeOK
<1>4. QED BY <1>2, <1>3 DEF InCare

LEMMA NextTableInv == TableInv /\ [Next]_vars => TableInv'
<1> SUFFICES ASSUME TableInv, [Next]_vars PROVE TableInv'
  OBVIOUS
<1>0. TypeOK /\ TypeOK' /\ TableExplained /\ SharedAreDoubled
  BY NextTypeOK DEF TableInv
<1>c. Connected = { task[t].addr : t \in InCare } /\ Connected' = { task'[t].addr : t \in InCare' }
  BY DEF Connected, InCare
<1>1. ASSUME NEW a \in Configured, DialConfigured(a) PROVE TableInv'
  BY <1>0, <1>1, SpawnCare, SameCare, PeersAssumption DEF DialConfigured, Addr
<1>2. ASSUME NEW a \in Ephemeral, Accept(a) PROVE TableInv'
  BY <1>0, <1>2, SpawnCare, SameCare DEF Accept, Addr
<1>3. CASE Discover
  <2>1. Head(queue) \in Addr
    BY <1>0, <1>3, HeadTailProperties DEF Discover, TypeOK
  <2>2. InCare' = InCare /\ \A u \in InCare : task'[u].addr = task[u].addr
    BY <1>0, <1>3, <2>1, SpawnCare DEF Discover, InCare
  <2>3. QED BY <1>0, <1>3, <2>2, SameCare DEF Discover
<1>4. ASSUME NEW t \in Task, DialSucceeds(t) \/ DialFails(t) PROVE TableInv'
  <2>1. InCare' = InCare /\ \A u \in InCare : task'[u].addr = task[u].addr
    BY <1>0, <1>4 DEF DialSucceeds, DialFails, InCare, NoTask, TypeOK
  <2>2. QED BY <1>0, <1>4, <2>1, SameCare DEF DialSucceeds, DialFails
<1>5. ASSUME NEW t \in Task, Enter(t) PROVE TableInv'
  <2> DEFINE a == task[t].addr
  <2>1. /\ InCare' = InCare \cup {t} /\ t \notin InCare
        /\ \A u \in InCare' : task'[u].addr = task[u].addr
        /\ peers' = peers \cup {a} /\ leaked' = leaked
        /\ doubled' = IF a \in peers THEN doubled \cup {a} ELSE doubled
    BY <1>0, <1>5 DEF Enter, InCare, TypeOK
  <2>2. Connected' = Connected \cup {a}
    BY <1>c, <2>1
  <2>3. TableExplained'
    BY <1>0, <2>1, <2>2 DEF TableExplained
  <2>4. \A u \in InCare : task[u].addr = a => a \in doubled'
    BY <1>0, <1>c, <2>1 DEF TableExplained
  <2>5. SharedAreDoubled'
    BY <1>0, <2>1, <2>4 DEF SharedAreDoubled
  <2>6. QED BY <1>0, <2>3, <2>5 DEF TableInv
<1>6. ASSUME NEW t \in Task, Greet(t) \/ LoopEnds(t) PROVE TableInv'
  <2>1. /\ task[t].at \in { "greet", "loop" } /\ task'[t].at \in { "loop", "leave" }
        /\ \A u \in Task : u # t => task'[u].at = task[u].at
        /\ \A u \in Task : task'[u].addr = task[u].addr
    BY <1>0, <1>6 DEF Greet, LoopEnds, TypeOK
  <2>2. InCare' = InCare /\ \A u \in InCare : task'[u].addr = task[u].addr
    BY <2>1 DEF InCare
  <2>3. QED BY <1>0, <1>6, <2>2, SameCare DEF Greet, LoopEnds
<1>7. ASSUME NEW t \in Task, GreetFails(t) \/ Leave(t) PROVE TableInv'
  <2> DEFINE a == task[t].addr
  <2>1. /\ InCare' = InCare \ {t} /\ t \in InCare
        /\ \A u \in InCare' : task'[u].addr = task[u].addr
        /\ doubled' = doubled /\ leaked \subseteq leaked'
        /\ \/ peers' = peers /\ a \in leaked'
           \/ peers' = peers \ {a}
    BY <1>0, <1>7 DEF GreetFails, Leave, InCare, NoTask, TypeOK
  <2>2. Connected' \subseteq Connected /\ Connected \subseteq Connected' \cup {a}
    BY <1>c, <2>1
  <2>3. a \in Connected' => a \in doubled
    BY <1>0, <1>c, <2>1 DEF SharedAreDoubled
  <2>4. TableExplained'
    BY <1>0, <2>1, <2>2, <2>3 DEF TableExplained
  <2>5. SharedAreDoubled'
    BY <1>0, <2>1 DEF SharedAreDoubled
  <2>6. QED BY <1>0, <2>4, <2>5 DEF TableInv
<1>8. ASSUME NEW t \in Task, NEW addrs \in Gossip, OnPeers(t, addrs) PROVE TableInv'
  BY <1>0, <1>8, SameCare DEF OnPeers, InCare
<1>9. CASE UNCHANGED vars
  BY <1>0, <1>9, SameCare DEF vars, InCare
<1>10. QED
  BY <1>1, <1>2, <1>3, <1>4, <1>5, <1>6, <1>7, <1>8, <1>9 DEF Next

(* The table keeps an address too many only where a greeting broke, and     *)
(* misses the address of a live connection only where two connections had   *)
(* the same one, however many of them come and go at once.                  *)
THEOREM TableIsExplained == Spec => []TableExplained
<1>1. Init => TableInv
  BY InitTypeOK DEF Init, TableInv, TableExplained, SharedAreDoubled, InCare, Connected, NoTask
<1>2. TableInv => TableExplained
  BY DEF TableInv
<1>3. QED BY <1>1, <1>2, NextTableInv, PTL DEF Spec

-----------------------------------------------------------------------------
(* Why an address nobody is connected to stays in the table: only the task  *)
(* of a connection takes an address out, and only the configuration and the *)
(* channel, which leaves out what the table has, start one that is dialled. *)
LEMMA NextLostForGood ==
    ASSUME TypeOK, [Next]_vars, NEW a \in Listening, OutOfReach(a)
    PROVE  OutOfReach(a)'
<1>0. /\ TypeOK /\ a \in peers /\ a \notin configured /\ a \notin ToSet(queue) /\ a \notin Ephemeral
      /\ queue \in Seq(Addr)
      /\ \A t \in Task : task[t] # NoTask => task[t].addr # a
  BY PeersAssumption DEF OutOfReach, TypeOK
<1>1. ASSUME NEW at, NEW b, NEW by, Spawn(at, b, by), b # a
      PROVE  \A t \in Task : task'[t] # NoTask => task'[t].addr # a
  BY <1>0, <1>1 DEF Spawn, TypeOK
<1>2. ASSUME NEW b \in Configured, DialConfigured(b) PROVE OutOfReach(a)'
  <2>1. b # a
    BY <1>0, <1>2 DEF DialConfigured
  <2>2. QED BY <1>0, <1>1, <1>2, <2>1 DEF DialConfigured, OutOfReach
<1>3. ASSUME NEW b \in Ephemeral, Accept(b) PROVE OutOfReach(a)'
  <2>1. b # a
    BY <1>0
  <2>2. QED BY <1>0, <1>1, <1>3, <2>1 DEF Accept, OutOfReach
<1>4. CASE Discover
  <2>1. Head(queue) \in ToSet(queue) /\ ToSet(Tail(queue)) \subseteq ToSet(queue)
    <3>1. queue # << >> /\ queue \in Seq(Addr)
      BY <1>0, <1>4 DEF Discover
    <3>2. /\ Tail(queue) \in Seq(Addr)
          /\ \A i \in 1 .. Len(Tail(queue)) : i + 1 \in DOMAIN queue /\ Tail(queue)[i] = queue[i + 1]
      BY <3>1
    <3>3. QED BY <3>1, <3>2 DEF ToSet
  <2>2. Head(queue) # a /\ a \notin ToSet(queue')
    BY <1>0, <1>4, <2>1 DEF Discover
  <2>3. CASE Spawn("dial", Head(queue), "discovery")
    BY <1>0, <1>1, <1>4, <2>2, <2>3 DEF Discover, OutOfReach
  <2>4. CASE UNCHANGED task
    BY <1>0, <1>4, <2>2, <2>4 DEF Discover, OutOfReach
  <2>5. QED BY <1>4, <2>3, <2>4 DEF Discover
<1>5. ASSUME NEW t \in Task,
             DialSucceeds(t) \/ DialFails(t) \/ Enter(t) \/ Greet(t) \/ GreetFails(t)
                \/ LoopEnds(t) \/ Leave(t)
      PROVE  OutOfReach(a)'
  <2>1. task[t] # NoTask /\ task[t].addr # a
    BY <1>0, <1>5
       DEF DialSucceeds, DialFails, Enter, Greet, GreetFails, LoopEnds, Leave, NoTask
  <2>2. /\ UNCHANGED <<queue, configured>>
        /\ \A u \in Task : u # t => task'[u] = task[u]
        /\ task'[t] = NoTask \/ task'[t].addr = task[t].addr
        /\ peers \ {task[t].addr} \subseteq peers'
    BY <1>0, <1>5
       DEF DialSucceeds, DialFails, Enter, Greet, GreetFails, LoopEnds, Leave, TypeOK
  <2>3. QED BY <1>0, <2>1, <2>2 DEF OutOfReach
<1>6. ASSUME NEW t \in Task, NEW addrs \in Gossip, OnPeers(t, addrs) PROVE OutOfReach(a)'
  <2>1. PICK new \in SetToSeqs(NewAddresses(addrs)) : queue' = queue \o new
    BY <1>6 DEF OnPeers
  <2>2. new \in Seq(Addr) /\ a \notin ToSet(new)
    BY <1>0, NewAddressesType DEF NewAddresses
  <2>3. ToSet(queue \o new) \subseteq ToSet(queue) \cup ToSet(new)
    <3> SUFFICES ASSUME NEW i \in DOMAIN (queue \o new)
                 PROVE  (queue \o new)[i] \in ToSet(queue) \cup ToSet(new)
      BY DEF ToSet
    <3>1. CASE i <= Len(queue)
      <4>1. i \in DOMAIN queue /\ (queue \o new)[i] = queue[i]
        BY <1>0, <2>2, <3>1
      <4>2. QED BY <4>1 DEF ToSet
    <3>2. CASE ~ i <= Len(queue)
      <4>1. i - Len(queue) \in DOMAIN new /\ (queue \o new)[i] = new[i - Len(queue)]
        BY <1>0, <2>2, <3>2
      <4>2. QED BY <4>1 DEF ToSet
    <3>3. QED BY <3>1, <3>2
  <2>4. QED BY <1>0, <1>6, <2>1, <2>2, <2>3 DEF OnPeers, OutOfReach
<1>7. CASE UNCHANGED vars
  BY <1>0, <1>7 DEF vars, OutOfReach
<1>8. QED
  BY <1>2, <1>3, <1>4, <1>5, <1>6, <1>7 DEF Next

(* An address that stays in the table with no connection, as a broken       *)
(* greeting leaves it, is neither dialled again nor taken out, whatever     *)
(* peers send and in whatever order connections come and go.                *)
THEOREM LeakedIsLost == Spec => LostForGood
<1>1. TypeOK /\ [Next]_vars => [ \A a \in Listening : OutOfReach(a) => OutOfReach(a)' ]_vars
  BY NextLostForGood
<1>2. QED BY <1>1, InitTypeOK, NextTypeOK, PTL DEF Spec, LostForGood
=============================================================================
