-------------------------- MODULE RelayMeshProofs --------------------------
(***************************************************************************)
(* Theorems about RelayMesh, for any number of devices, packets, sessions  *)
(* and faults, and any network.                                            *)
(*                                                                         *)
(* What a device stores follows from what is on the air, so the inductive  *)
(* invariant speaks of both: every packet on the air to n over a session   *)
(* is one hop further than the copy the other end holds, or it is a        *)
(* receipt for a copy that both ends hold (WireSound).  It needs that      *)
(* nothing happens on a session but at its two ends (LinksSound) and that  *)
(* only packets that are held are offered (OffersHeld).                    *)
(***************************************************************************)
EXTENDS RelayMesh, TLAPS

-----------------------------------------------------------------------------
(* The type invariant in five parts *)

DeviceTypes ==
  /\ copy \in [Node -> [Packet -> Nat \cup {Absent}]]
  /\ knownHolders \in [Node -> [Packet -> SUBSET Node]]
  /\ previousHop \in [Node -> [Packet -> Node \cup {Nobody}]]
  /\ cooling \in [Node -> SUBSET Packet]
  /\ queueEpoch \in [Node -> Nat]

Epochs == [theirs : Nat, ours : Nat] \cup {None}
Listed == (SUBSET Packet) \cup {None}

ContactTypes ==
  /\ lastReconciled \in [Node -> [Node -> Epochs]]
  /\ peerInventories \in [Node -> [Node -> Listed]]
  /\ peerInventoryTruncated \in [Node -> SUBSET Node]
  /\ connecting \in [Node -> SUBSET Node]
  /\ waiting \in [Node -> SUBSET Node]

ExchangeTypes ==
  /\ machine \in [Node -> [Session -> {"none", "live", "retired"}]]
  /\ inFlight \in [Node -> [Session -> Nat]]
  /\ announced \in [Node -> SUBSET Session]
  /\ pushed \in [Node -> SUBSET Session]
  /\ task \in [Node -> [Session -> Tasks]]

Records == PacketRecords \cup InventoryRecords
Links   == [from : Node, to : Node] \cup {Unopened}

RadioTypes ==
  /\ link \in [Session -> Links]
  /\ openSessions \in [Node -> SUBSET Session]
  /\ wire \in [Session -> [Node -> Seq(Records)]]
  /\ closing \in SUBSET (Session \X Node)

RelayTypes ==
  /\ running \in [Node -> BOOLEAN]
  /\ advert \in [Node -> [epoch : Nat, accepting : BOOLEAN]]
  /\ syncing \in [Node -> [Node -> Nat]]

Types == DeviceTypes /\ ContactTypes /\ ExchangeTypes /\ RadioTypes /\ RelayTypes /\ faults \in Nat

LEMMA TypesAreTypeOK == Types <=> TypeOK
  BY DEF Types, TypeOK, DeviceTypes, ContactTypes, ExchangeTypes, RadioTypes, RelayTypes,
     Records, Links, Epochs, Listed

-----------------------------------------------------------------------------
(* Sessions happen at their two ends *)

OnLink(n, s) == link[s].from = n \/ link[s].to = n

\* Something of the session is at n.
Busy(n, s) ==
  task[n][s] # Idle \/ s \in openSessions[n] \/ wire[s][n] # <<>> \/ <<s, n>> \in closing

LinksSound ==
  /\ \A s \in Session : link[s] # Unopened =>
       {link[s].from, link[s].to} \in Link /\ link[s].from # link[s].to
  /\ \A n \in Node, s \in Session : Busy(n, s) => OnLink(n, s)
  /\ \A n \in Node, s \in Session : task[n][s].at \in {"opening", "announcing"} => link[s].from = n
  /\ \A n, m \in Node : syncing[n][m] > 0 => {n, m} \in Link /\ n # m

-----------------------------------------------------------------------------
(* What is on the air, and what may go there *)

\* A packet record on its way from m to n, where held says who holds what.
Relayed(held, m, n, r) ==
  /\ {n, m} \in Link
  /\ held[m][r.packet] # Absent
  /\ r.hop = held[m][r.packet] + 1

Receipted(held, m, n, r) ==
  /\ {n, m} \in Link
  /\ r.packet \in Receipts /\ r.packet.by = m /\ r.hop = 0
  /\ held[n][r.packet.about] # Absent /\ held[m][r.packet.about] # Absent

Sound(held, m, n, r) ==
  r.kind = "packet" => Relayed(held, m, n, r) \/ Receipted(held, m, n, r)

WireSound ==
  \A n \in Node, s \in Session : \A i \in 1..Len(wire[s][n]) :
    Sound(copy, Peer(n, s), n, wire[s][n][i])

OffersHeld ==
  \A n \in Node, s \in Session :
    task[n][s].at = "pushing" => \A p \in task[n][s].offers : copy[n][p] # Absent

IInv == Types /\ LinksSound /\ WireSound /\ OffersHeld /\ ReceiptsAreTrue

-----------------------------------------------------------------------------
(* Lemmas about the two ends of a session and about the operators *)

\* The other end of a session is on it too, is a neighbour, and has this end as its
\* other end.
LEMMA PeerFacts ==
  ASSUME Types, LinksSound, NEW n \in Node, NEW s \in Session, OnLink(n, s)
  PROVE  /\ Peer(n, s) \in Node /\ Peer(n, s) # n
         /\ {n, Peer(n, s)} \in Link
         /\ OnLink(Peer(n, s), s) /\ Peer(Peer(n, s), s) = n
         /\ link[s] # Unopened
<1>1. link[s] \in Links
  BY DEF Types, RadioTypes
<1>2. link[s] # Unopened
  BY RelayConstants DEF OnLink, Unopened
<1>3. /\ link[s].from \in Node /\ link[s].to \in Node /\ link[s].from # link[s].to
      /\ {link[s].from, link[s].to} \in Link
  BY <1>1, <1>2 DEF Links, LinksSound
<1>4. CASE link[s].from = n
  BY <1>2, <1>3, <1>4 DEF Peer, OnLink
<1>5. CASE link[s].from # n
  <2>1. {link[s].to, link[s].from} = {link[s].from, link[s].to}
    OBVIOUS
  <2> QED BY <1>2, <1>3, <1>5, <2>1 DEF Peer, OnLink
<1> QED BY <1>4, <1>5

\* A handler that awaits something is at an end of its session.
LEMMA TaskOnLink ==
  ASSUME LinksSound, NEW n \in Node, NEW s \in Session, task[n][s].at # "idle"
  PROVE  OnLink(n, s)
<1>1. Idle.at = "idle"
  BY DEF Idle
<1>2. task[n][s] # Idle
  BY <1>1
<1> QED BY <1>2 DEF LinksSound, Busy

\* What an inventory record is made of.
LEMMA InventoryType ==
  ASSUME Types, NEW n \in Node, NEW r \in Inventories(n)
  PROVE  r \in Records /\ r.kind = "inventory"
<1>1. PICK ids \in SUBSET Offerable(n) :
        r = InventoryRecord(ids, queueEpoch[n], ids # Offerable(n))
  BY DEF Inventories
<1>2. ids \in SUBSET Packet /\ queueEpoch[n] \in Nat
  BY <1>1 DEF Offerable, Held, Types, DeviceTypes
<1> QED BY <1>1, <1>2 DEF InventoryRecord, InventoryRecords, Records

\* A packet record is a record.
LEMMA PacketRecordType ==
  ASSUME NEW p \in Packet, NEW h \in Nat
  PROVE  PacketRecord(p, h) \in Records
  BY DEF PacketRecord, PacketRecords, Records

\* A receipt for a user packet is a packet.
LEMMA ReceiptType ==
  ASSUME NEW p \in Msg, NEW n \in Node, NEW s \in Session
  PROVE  ReceiptFor(p, n, s) \in Receipts /\ ReceiptFor(p, n, s) \in Packet
  BY DEF ReceiptFor, Receipts, Packet

\* The advertisement has its type.
LEMMA SummaryType ==
  ASSUME NEW n \in Node, NEW e \in Nat
  PROVE  Summary(n, e) \in [epoch : Nat, accepting : BOOLEAN]
  BY DEF Summary

\* The elements of a queue after one is added at its end.
LEMMA AppendElements ==
  ASSUME NEW S, NEW q \in Seq(S), NEW x \in S
  PROVE  /\ Append(q, x) \in Seq(S) /\ Append(q, x) # <<>>
         /\ Len(Append(q, x)) = Len(q) + 1
         /\ \A i \in 1..Len(q) + 1 : Append(q, x)[i] = IF i <= Len(q) THEN q[i] ELSE x
  OBVIOUS

\* The elements of a queue after the first is taken.
LEMMA TailElements ==
  ASSUME NEW S, NEW q \in Seq(S), q # <<>>
  PROVE  /\ Tail(q) \in Seq(S) /\ Head(q) \in S /\ Head(q) = q[1]
         /\ Len(Tail(q)) = Len(q) - 1 /\ Len(q) \in Nat /\ Len(q) > 0
         /\ \A i \in 1..Len(Tail(q)) : i + 1 \in 1..Len(q) /\ Tail(q)[i] = q[i + 1]
  OBVIOUS

-----------------------------------------------------------------------------
(* Every step keeps the types *)

LEMMA CreateTypes ==
  ASSUME Types, NEW n \in Node, NEW p \in Msg, Create(n, p)
  PROVE  Types'
<1>1. p \in Packet /\ queueEpoch[n] + 1 \in Nat
  BY DEF Packet, Types, DeviceTypes
<1>2. DeviceTypes'
  BY <1>1 DEF Create, Types, DeviceTypes
<1>3. RelayTypes'
  BY <1>1, SummaryType DEF Create, Types, RelayTypes
<1> QED BY <1>2, <1>3 DEF Create, contact, exchange, radio, Types, ContactTypes, ExchangeTypes, RadioTypes

LEMMA AdvertisementTypes ==
  ASSUME Types, NEW n \in Node, RefreshAdvertisement(n) \/ Start(n)
  PROVE  Types'
<1>1. queueEpoch[n] \in Nat
  BY DEF Types, DeviceTypes
<1>2. Summary(n, queueEpoch[n]) \in [epoch : Nat, accepting : BOOLEAN]
  BY <1>1, SummaryType
<1>3. /\ advert' = [advert EXCEPT ![n] = Summary(n, queueEpoch[n])]
      /\ running' = running \/ running' = [running EXCEPT ![n] = TRUE]
      /\ UNCHANGED syncing
  BY DEF RefreshAdvertisement, Start
<1>4. RelayTypes'
  BY <1>2, <1>3 DEF Types, RelayTypes
<1> QED BY <1>4 DEF RefreshAdvertisement, Start, device, contact, exchange, radio, Types, DeviceTypes,
       ContactTypes, ExchangeTypes, RadioTypes

LEMMA CoolDownTypes ==
  ASSUME Types, NEW n \in Node, NEW p \in Packet, CoolDown(n, p)
  PROVE  Types'
<1>1. DeviceTypes'
  BY DEF CoolDown, Types, DeviceTypes
<1> QED BY <1>1 DEF CoolDown, contact, exchange, radio, relay, Types, ContactTypes, ExchangeTypes,
       RadioTypes, RelayTypes

LEMMA FaultType ==
  ASSUME Types, NEW kind, Fault(kind)
  PROVE  faults' \in Nat
  BY RelayConstants DEF Fault, Types

\* The idle task has a type.
LEMMA TaskTypes ==
  /\ Idle \in Tasks /\ [at |-> "opening"] \in Tasks /\ [at |-> "announcing"] \in Tasks
  /\ \A e \in Nat : [at |-> "answering", theirs |-> e] \in Tasks
  /\ \A e \in Nat, ps \in SUBSET Packet :
       [at |-> "pushing", theirs |-> e, offers |-> ps] \in Tasks
  BY DEF Idle, Tasks

\* The adapter goes down.
LEMMA HangUpTypes ==
  ASSUME Types, LinksSound, NEW n \in Node, HangUp(n)
  PROVE  /\ openSessions' \in [Node -> SUBSET Session]
         /\ closing' \in SUBSET (Session \X Node)
         /\ machine' \in [Node -> [Session -> {"none", "live", "retired"}]]
         /\ connecting' \in [Node -> SUBSET Node]
         /\ running' \in [Node -> BOOLEAN]
         /\ advert' \in [Node -> [epoch : Nat, accepting : BOOLEAN]]
<1>1. \A s \in openSessions[n] : s \in Session /\ Peer(n, s) \in Node
  <2> SUFFICES ASSUME NEW s \in openSessions[n] PROVE s \in Session /\ Peer(n, s) \in Node
    OBVIOUS
  <2>1. s \in Session
    BY DEF Types, RadioTypes
  <2>2. OnLink(n, s)
    BY <2>1 DEF LinksSound, Busy
  <2> QED BY <2>1, <2>2, PeerFacts
<1>2. {<<s, Peer(n, s)>> : s \in openSessions[n]} \in SUBSET (Session \X Node)
  BY <1>1
<1>3. closing' \in SUBSET (Session \X Node)
  BY <1>2 DEF HangUp, Types, RadioTypes
<1>4. Silent \in [epoch : Nat, accepting : BOOLEAN]
  BY DEF Silent
<1> QED BY <1>3, <1>4 DEF HangUp, Types, RadioTypes, ExchangeTypes, ContactTypes, RelayTypes

LEMMA StopTypes ==
  ASSUME Types, LinksSound, NEW n \in Node, Stop(n)
  PROVE  Types'
<1>1. HangUp(n) /\ faults' \in Nat
  BY FaultType DEF Stop
<1>2. task' \in [Node -> [Session -> Tasks]]
  BY TaskTypes DEF Stop, Types, ExchangeTypes
<1>3. \A s \in Opening(n) : Peer(n, s) \in Node
  <2> SUFFICES ASSUME NEW s \in Opening(n) PROVE Peer(n, s) \in Node
    OBVIOUS
  <2>1. s \in Session /\ task[n][s] # Idle
    BY DEF Opening, Idle
  <2>2. OnLink(n, s)
    BY <2>1 DEF LinksSound, Busy
  <2> QED BY <2>1, <2>2, PeerFacts
<1>4. waiting' \in [Node -> SUBSET Node]
  <2>1. {Peer(n, s) : s \in Opening(n)} \in SUBSET Node
    BY <1>3
  <2> QED BY <2>1 DEF Stop, Types, ContactTypes
<1>5. DeviceTypes' /\ ContactTypes'
  BY <1>1, <1>4, HangUpTypes DEF Stop, device, Types, DeviceTypes, ContactTypes
<1>6. ExchangeTypes' /\ RadioTypes' /\ RelayTypes'
  BY <1>1, <1>2, HangUpTypes DEF Stop, Types, ExchangeTypes, RadioTypes, RelayTypes
<1> QED BY <1>1, <1>5, <1>6 DEF Types

LEMMA CrashTypes ==
  ASSUME Types, LinksSound, NEW n \in Node, Crash(n)
  PROVE  Types'
<1>1. HangUp(n) /\ faults' \in Nat
  BY FaultType DEF Crash
<1>2. DeviceTypes'
  BY DEF Crash, OnDisk, Types, DeviceTypes
<1>3. ContactTypes'
  <2>1. connecting' \in [Node -> SUBSET Node]
    BY <1>1, HangUpTypes
  <2>2. None \in Epochs /\ None \in Listed
    BY DEF Epochs, Listed
  <2>3. lastReconciled' \in [Node -> [Node -> Epochs]]
    <3>1. lastReconciled \in [Node -> [Node -> Epochs]]
      BY DEF Types, ContactTypes
    <3>2. lastReconciled' = [lastReconciled EXCEPT ![n] = [m \in Node |-> None]]
      BY DEF Crash
    <3>3. [m \in Node |-> None] \in [Node -> Epochs]
      BY <2>2
    <3> QED BY <3>1, <3>2, <3>3
  <2>5. peerInventories' \in [Node -> [Node -> Listed]]
    <3>1. peerInventories \in [Node -> [Node -> Listed]]
      BY DEF Types, ContactTypes
    <3>2. peerInventories' = [peerInventories EXCEPT ![n] = [m \in Node |-> None]]
      BY DEF Crash
    <3>3. [m \in Node |-> None] \in [Node -> Listed]
      BY <2>2
    <3> QED BY <3>1, <3>2, <3>3
  <2>4. /\ peerInventoryTruncated' \in [Node -> SUBSET Node]
        /\ waiting' \in [Node -> SUBSET Node]
    BY DEF Crash, Types, ContactTypes
  <2> QED BY <2>1, <2>3, <2>4, <2>5 DEF ContactTypes
<1>4. ExchangeTypes'
  BY <1>1, HangUpTypes, TaskTypes DEF Crash, Types, ExchangeTypes
<1>5. wire' \in [Session -> [Node -> Seq(Records)]]
  <2>1. <<>> \in Seq(Records)
    OBVIOUS
  <2>2. \A s \in Session : [wire[s] EXCEPT ![n] = <<>>] \in [Node -> Seq(Records)]
    BY <2>1 DEF Types, RadioTypes
  <2> QED BY <2>2 DEF Crash
<1>6. RadioTypes'
  BY <1>1, <1>5, HangUpTypes DEF Crash, Types, RadioTypes
<1>7. RelayTypes'
  BY <1>1, HangUpTypes DEF Crash, Types, RelayTypes
<1> QED BY <1>1, <1>2, <1>3, <1>4, <1>6, <1>7 DEF Types

\* Forgetting sessions keeps the types.
LEMMA DropExpiredTypes ==
  ASSUME Types, NEW n \in Node, NEW m \in Node, NEW over, DropExpired(n, m, over)
  PROVE  /\ machine' \in [Node -> [Session -> {"none", "live", "retired"}]]
         /\ announced' \in [Node -> SUBSET Session]
         /\ pushed' \in [Node -> SUBSET Session]
         /\ faults' \in Nat
<1>1. faults' \in Nat
  BY FaultType DEF DropExpired, Types
<1>2. /\ machine' \in [Node -> [Session -> {"none", "live", "retired"}]]
      /\ announced' \in [Node -> SUBSET Session]
      /\ pushed' \in [Node -> SUBSET Session]
  BY DEF DropExpired, Types, ExchangeTypes
<1> QED BY <1>1, <1>2

\* An attempt to open takes an unused session.
LEMMA StartOpeningFacts ==
  ASSUME Types, NEW n \in Node, NEW m \in Node, StartOpening(n, m)
  PROVE  \E s \in Session :
           /\ link[s] = Unopened
           /\ link' = [link EXCEPT ![s] = [from |-> n, to |-> m]]
           /\ task' = [task EXCEPT ![n][s] = [at |-> "opening"]]
           /\ link' \in [Session -> Links]
           /\ connecting' \in [Node -> SUBSET Node]
           /\ task' \in [Node -> [Session -> Tasks]]
<1>1. PICK s \in Session :
        /\ link[s] = Unopened
        /\ link' = [link EXCEPT ![s] = [from |-> n, to |-> m]]
        /\ connecting' = [connecting EXCEPT ![n] = @ \cup {m}]
        /\ task' = [task EXCEPT ![n][s] = [at |-> "opening"]]
  BY DEF StartOpening
<1>2. [from |-> n, to |-> m] \in Links
  BY DEF Links
<1>3. link' \in [Session -> Links]
  BY <1>1, <1>2 DEF Types, RadioTypes
<1>4. connecting' \in [Node -> SUBSET Node]
  BY <1>1 DEF Types, ContactTypes
<1>5. task' \in [Node -> [Session -> Tasks]]
  BY <1>1, TaskTypes DEF Types, ExchangeTypes
<1> QED BY <1>1, <1>3, <1>4, <1>5

LEMMA PeerObservedTypes ==
  ASSUME Types, NEW n \in Node, NEW m \in Node, NEW over, PeerObserved(n, m, over)
  PROVE  Types'
<1>1. DropExpired(n, m, over)
  BY DEF PeerObserved
<1>2. /\ link' \in [Session -> Links]
      /\ connecting' \in [Node -> SUBSET Node]
      /\ task' \in [Node -> [Session -> Tasks]]
  <2>1. CASE StartOpening(n, m)
    BY <2>1, StartOpeningFacts
  <2>2. CASE UNCHANGED <<link, connecting, task>>
    BY <2>2 DEF Types, RadioTypes, ContactTypes, ExchangeTypes
  <2> QED BY <2>1, <2>2 DEF PeerObserved
<1>3. DeviceTypes' /\ RelayTypes'
  BY DEF PeerObserved, device, relay, Types, DeviceTypes, RelayTypes
<1>4. ContactTypes' /\ RadioTypes'
  BY <1>2 DEF PeerObserved, Types, ContactTypes, RadioTypes
<1>5. ExchangeTypes' /\ faults' \in Nat
  BY <1>1, <1>2, DropExpiredTypes DEF PeerObserved, Types, ExchangeTypes
<1> QED BY <1>3, <1>4, <1>5 DEF Types

LEMMA SyncPeerNowTypes ==
  ASSUME Types, NEW n \in Node, NEW m \in Node, SyncPeerNow(n, m)
  PROVE  Types'
<1>1. DropExpired(n, m, With(n, m))
  BY DEF SyncPeerNow
<1>2. DeviceTypes' /\ ContactTypes' /\ RadioTypes'
  BY DEF SyncPeerNow, device, contact, radio, Types, DeviceTypes, ContactTypes, RadioTypes
<1>3. ExchangeTypes' /\ faults' \in Nat
  BY <1>1, DropExpiredTypes DEF SyncPeerNow, Types, ExchangeTypes
<1>4. RelayTypes'
  BY DEF SyncPeerNow, Types, RelayTypes
<1> QED BY <1>2, <1>3, <1>4 DEF Types

LEMMA SyncConnectTypes ==
  ASSUME Types, NEW n \in Node, NEW m \in Node, SyncConnect(n, m)
  PROVE  Types'
<1>1. /\ link' \in [Session -> Links]
      /\ connecting' \in [Node -> SUBSET Node]
      /\ task' \in [Node -> [Session -> Tasks]]
  BY StartOpeningFacts DEF SyncConnect
<1>2. RelayTypes'
  <2>1. syncing[n][m] \in Nat /\ syncing[n][m] > 0
    BY DEF SyncConnect, Types, RelayTypes
  <2>2. syncing[n][m] - 1 \in Nat
    BY <2>1
  <2> QED BY <2>2 DEF SyncConnect, Types, RelayTypes
<1>3. DeviceTypes' /\ faults' \in Nat
  BY DEF SyncConnect, device, Types, DeviceTypes
<1>4. ContactTypes' /\ RadioTypes' /\ ExchangeTypes'
  BY <1>1 DEF SyncConnect, Types, ContactTypes, RadioTypes, ExchangeTypes
<1> QED BY <1>2, <1>3, <1>4 DEF Types

LEMMA OpenResolvesTypes ==
  ASSUME Types, LinksSound, NEW n \in Node, NEW s \in Session, OpenResolves(n, s)
  PROVE  Types'
<1> DEFINE m == link[s].to
<1>1. task' \in [Node -> [Session -> Tasks]]
  BY TaskTypes DEF OpenResolves, Types, ExchangeTypes
<1>2. /\ openSessions' \in [Node -> SUBSET Session]
      /\ machine' \in [Node -> [Session -> {"none", "live", "retired"}]]
  <2>1. /\ openSessions' = [openSessions EXCEPT ![n] = @ \cup {s}, ![m] = @ \cup {s}]
        /\ machine' = [machine EXCEPT ![n][s] = "live", ![m][s] = "live"]
    BY DEF OpenResolves
  <2> HIDE DEF m
  <2> QED BY <2>1 DEF Types, RadioTypes, ExchangeTypes
<1>3. DeviceTypes' /\ ContactTypes' /\ RelayTypes' /\ faults' \in Nat
  BY DEF OpenResolves, device, contact, relay, Types, DeviceTypes, ContactTypes, RelayTypes
<1>4. ExchangeTypes' /\ RadioTypes'
  BY <1>1, <1>2 DEF OpenResolves, Types, ExchangeTypes, RadioTypes
<1> QED BY <1>3, <1>4 DEF Types

LEMMA OpenFailsTypes ==
  ASSUME Types, LinksSound, NEW n \in Node, NEW s \in Session, OpenFails(n, s)
  PROVE  Types'
<1>1. link[s].to \in Node
  <2>1. OnLink(n, s)
    BY TaskOnLink DEF OpenFails
  <2> QED BY <2>1, PeerFacts DEF Types, RadioTypes, Links
<1>2. task' \in [Node -> [Session -> Tasks]]
  BY TaskTypes DEF OpenFails, Types, ExchangeTypes
<1>3. ContactTypes'
  BY <1>1 DEF OpenFails, Failed, Types, ContactTypes
<1>4. faults' \in Nat
  BY FaultType DEF OpenFails, Types
<1>5. DeviceTypes' /\ RelayTypes' /\ RadioTypes'
  BY DEF OpenFails, device, relay, radio, Types, DeviceTypes, RelayTypes, RadioTypes
<1>6. ExchangeTypes'
  BY <1>2 DEF OpenFails, Types, ExchangeTypes
<1> QED BY <1>3, <1>4, <1>5, <1>6 DEF Types

\* A record put on the air over a session keeps the type of the air.
LEMMA PutTypes ==
  ASSUME Types, NEW n \in Node, NEW s \in Session, NEW r \in Records
  PROVE  Put(s, n, r) \in [Session -> [Node -> Seq(Records)]]
<1>1. wire[s][n] \in Seq(Records) /\ wire[s] \in [Node -> Seq(Records)]
  BY DEF Types, RadioTypes
<1>2. Append(wire[s][n], r) \in Seq(Records)
  BY <1>1, AppendElements
<1> QED BY <1>1, <1>2 DEF Put, Types, RadioTypes

LEMMA AnnounceTypes ==
  ASSUME Types, LinksSound, NEW n \in Node, NEW s \in Session, Announce(n, s)
  PROVE  Types'
<1>1. Peer(n, s) \in Node
  <2>1. OnLink(n, s)
    BY TaskOnLink DEF Announce
  <2> QED BY <2>1, PeerFacts
<1>2. wire' \in [Session -> [Node -> Seq(Records)]] /\ waiting' \in [Node -> SUBSET Node]
  <2>1. CASE s \in openSessions[n]
    <3>1. PICK r \in Inventories(n) : wire' = Put(s, Peer(n, s), r)
      BY <2>1 DEF Announce
    <3>2. waiting' = waiting
      BY <2>1 DEF Announce
    <3> QED BY <1>1, <3>1, <3>2, InventoryType, PutTypes DEF Types, ContactTypes
  <2>2. CASE s \notin openSessions[n]
    <3>1. wire' = wire /\ waiting' = [waiting EXCEPT ![n] = @ \cup {Peer(n, s)}]
      BY <2>2 DEF Announce, Failed
    <3> QED BY <1>1, <3>1 DEF Types, RadioTypes, ContactTypes
  <2> QED BY <2>1, <2>2
<1>3. task' \in [Node -> [Session -> Tasks]]
  BY TaskTypes DEF Announce, Types, ExchangeTypes
<1>4. DeviceTypes' /\ RelayTypes' /\ faults' \in Nat
  BY DEF Announce, device, relay, Types, DeviceTypes, RelayTypes
<1>5. ExchangeTypes'
  BY <1>3 DEF Announce, Types, ExchangeTypes
<1>6. ContactTypes' /\ RadioTypes'
  BY <1>2 DEF Announce, Types, ContactTypes, RadioTypes
<1> QED BY <1>4, <1>5, <1>6 DEF Types

\* What the tasks carry.
LEMMA TaskFields ==
  ASSUME NEW t \in Tasks
  PROVE  /\ t.at \in {"idle", "opening", "announcing", "answering", "pushing"}
         /\ t.at \in {"answering", "pushing"} => t.theirs \in Nat
         /\ t.at = "pushing" => t.offers \in SUBSET Packet
         /\ \A p : t.at = "pushing" => [t EXCEPT !.offers = @ \ {p}] \in Tasks
         /\ t.at = "idle" => t = Idle
<1>1. CASE t \in [at : {"idle", "opening", "announcing"}]
  BY <1>1 DEF Tasks, Idle
<1>2. CASE t \in [at : {"answering"}, theirs : Nat]
  BY <1>2 DEF Tasks
<1>3. CASE t \in [at : {"pushing"}, theirs : Nat, offers : SUBSET Packet]
  <2> DEFINE Pushes == [at : {"pushing"}, theirs : Nat, offers : SUBSET Packet]
  <2>1. t.at = "pushing" /\ t.theirs \in Nat /\ t.offers \in SUBSET Packet
    BY <1>3
  <2>2. ASSUME NEW p PROVE [t EXCEPT !.offers = @ \ {p}] \in Tasks
    <3>1. t.offers \ {p} \in SUBSET Packet
      BY <2>1
    <3>2. [t EXCEPT !.offers = @ \ {p}] \in Pushes
      BY <1>3, <3>1
    <3> QED BY <3>2 DEF Tasks
  <2> QED BY <2>1, <2>2
<1> QED BY <1>1, <1>2, <1>3 DEF Tasks

\* What a record carries.
LEMMA RecordFields ==
  ASSUME NEW r \in Records
  PROVE  /\ r.kind = "packet" => r.packet \in Packet /\ r.hop \in Nat
         /\ r.kind = "inventory" =>
              r.ids \in SUBSET Packet /\ r.epoch \in Nat /\ r.truncated \in BOOLEAN
  BY DEF Records, PacketRecords, InventoryRecords

\* The record at the head of a queue on the air.
LEMMA ArrivesFacts ==
  ASSUME Types, LinksSound, NEW n \in Node, NEW s \in Session, NEW kind, Arrives(n, s, kind)
  PROVE  /\ OnLink(n, s) /\ Head(wire[s][n]) \in Records /\ Head(wire[s][n]).kind = kind
         /\ Tail(wire[s][n]) \in Seq(Records)
         /\ openSessions' \in [Node -> SUBSET Session]
<1>1. wire[s][n] \in Seq(Records) /\ wire[s][n] # <<>>
  BY DEF Arrives, Types, RadioTypes
<1>2. OnLink(n, s)
  BY <1>1 DEF LinksSound, Busy
<1>3. openSessions' \in [Node -> SUBSET Session]
  BY DEF Arrives, Types, RadioTypes
<1> QED BY <1>1, <1>2, <1>3, TailElements DEF Arrives

\* Only packets that are held are planned.
LEMMA WantedFacts ==
  ASSUME Types, NEW n \in Node, NEW m, NEW inventory
  PROVE  /\ Wanted(n, m, inventory) \in SUBSET Packet
         /\ \A p \in Wanted(n, m, inventory) : copy[n][p] # Absent
  BY DEF Wanted, Offerable, Held

\* The push begins, or the handler is done.
LEMMA BeginPushTypes ==
  ASSUME Types, NEW n \in Node, NEW s \in Session, NEW inventory, NEW theirs \in Nat,
         BeginPush(n, s, inventory, theirs)
  PROVE  /\ task' \in [Node -> [Session -> Tasks]]
         /\ pushed' \in [Node -> SUBSET Session]
<1>1. CASE s \in pushed[n]
  <2>1. task' = [task EXCEPT ![n][s] = Idle] /\ pushed' = pushed
    BY <1>1 DEF BeginPush
  <2>2. Idle \in Tasks
    BY TaskTypes
  <2> QED BY <2>1, <2>2 DEF Types, ExchangeTypes
<1>2. CASE s \notin pushed[n]
  <2> DEFINE offers == IF s \in Sessions(n) THEN Wanted(n, Peer(n, s), inventory) ELSE {}
  <2>1. offers \in SUBSET Packet
    BY WantedFacts
  <2>2. /\ task' = [task EXCEPT ![n][s] = [at |-> "pushing", theirs |-> theirs, offers |-> offers]]
        /\ pushed' = [pushed EXCEPT ![n] = @ \cup {s}]
    BY <1>2 DEF BeginPush
  <2> HIDE DEF offers
  <2>3. [at |-> "pushing", theirs |-> theirs, offers |-> offers] \in Tasks
    BY <2>1, TaskTypes
  <2> QED BY <2>2, <2>3 DEF Types, ExchangeTypes
<1> QED BY <1>1, <1>2

\* Taking a record off the air.
LEMMA TakenTypes ==
  ASSUME Types, NEW n \in Node, NEW s \in Session, NEW q \in Seq(Records)
  PROVE  [wire EXCEPT ![s][n] = q] \in [Session -> [Node -> Seq(Records)]]
  BY DEF Types, RadioTypes

LEMMA AbsorbInventoryTypes ==
  ASSUME Types, LinksSound, NEW n \in Node, NEW s \in Session, AbsorbInventory(n, s)
  PROVE  Types'
<1> DEFINE r == Head(wire[s][n])
<1>1. /\ Arrives(n, s, "inventory")
      /\ r \in Records /\ r.kind = "inventory" /\ OnLink(n, s)
      /\ Tail(wire[s][n]) \in Seq(Records)
      /\ openSessions' \in [Node -> SUBSET Session]
  BY ArrivesFacts DEF AbsorbInventory
<1>2. r.ids \in SUBSET Packet /\ r.epoch \in Nat
  BY <1>1, RecordFields
<1>3. Peer(n, s) \in Node
  BY <1>1, PeerFacts
<1>4. wire' \in [Session -> [Node -> Seq(Records)]]
  BY <1>1, TakenTypes DEF AbsorbInventory
<1>5. /\ task' \in [Node -> [Session -> Tasks]]
      /\ pushed' \in [Node -> SUBSET Session]
      /\ announced' \in [Node -> SUBSET Session]
  <2>1. CASE s \in announced[n]
    <3>1. BeginPush(n, s, r.ids, r.epoch) /\ announced' = announced
      BY <2>1 DEF AbsorbInventory
    <3> HIDE DEF r
    <3> QED BY <1>2, <3>1, BeginPushTypes DEF Types, ExchangeTypes
  <2>2. CASE s \notin announced[n]
    <3>1. /\ announced' = [announced EXCEPT ![n] = @ \cup {s}]
          /\ task' = [task EXCEPT ![n][s] = [at |-> "answering", theirs |-> r.epoch]]
          /\ pushed' = pushed
      BY <2>2 DEF AbsorbInventory
    <3> HIDE DEF r
    <3> QED BY <1>2, <3>1, TaskTypes DEF Types, ExchangeTypes
  <2> QED BY <2>1, <2>2
<1>6. ContactTypes'
  <2>1. /\ peerInventories' = [peerInventories EXCEPT ![n][Peer(n, s)] = r.ids]
        /\ \/ peerInventoryTruncated' =
                [peerInventoryTruncated EXCEPT ![n] = @ \cup {Peer(n, s)}]
           \/ peerInventoryTruncated' =
                [peerInventoryTruncated EXCEPT ![n] = @ \ {Peer(n, s)}]
        /\ UNCHANGED <<lastReconciled, connecting, waiting>>
    BY DEF AbsorbInventory
  <2> HIDE DEF r
  <2>2. r.ids \in Listed
    BY <1>2 DEF Listed
  <2> QED BY <1>3, <2>1, <2>2 DEF Types, ContactTypes
<1>7. DeviceTypes' /\ RelayTypes' /\ faults' \in Nat
  BY DEF AbsorbInventory, device, relay, Types, DeviceTypes, RelayTypes
<1>8. ExchangeTypes'
  BY <1>5 DEF AbsorbInventory, Types, ExchangeTypes
<1>9. RadioTypes'
  BY <1>1, <1>4 DEF AbsorbInventory, Types, RadioTypes
<1> QED BY <1>6, <1>7, <1>8, <1>9 DEF Types

LEMMA AnswerTypes ==
  ASSUME Types, LinksSound, NEW n \in Node, NEW s \in Session, Answer(n, s)
  PROVE  Types'
<1>1. task[n][s].theirs \in Nat /\ task[n][s].at = "answering"
  BY TaskFields DEF Answer, Types, ExchangeTypes
<1>2. Peer(n, s) \in Node
  BY <1>1, TaskOnLink, PeerFacts
<1>3. wire' \in [Session -> [Node -> Seq(Records)]]
  <2>1. CASE s \in openSessions[n]
    <3>1. PICK r \in Inventories(n) : wire' = Put(s, Peer(n, s), r)
      BY <2>1 DEF Answer
    <3> QED BY <1>2, <3>1, InventoryType, PutTypes
  <2>2. CASE s \notin openSessions[n]
    BY <2>2 DEF Answer, Types, RadioTypes
  <2> QED BY <2>1, <2>2
<1>4. BeginPush(n, s, peerInventories[n][Peer(n, s)], task[n][s].theirs)
  BY DEF Answer
<1>5. task' \in [Node -> [Session -> Tasks]] /\ pushed' \in [Node -> SUBSET Session]
  BY <1>1, <1>4, BeginPushTypes
<1>6. DeviceTypes' /\ ContactTypes' /\ RelayTypes' /\ faults' \in Nat
  BY DEF Answer, device, contact, relay, Types, DeviceTypes, ContactTypes, RelayTypes
<1>7. ExchangeTypes' /\ RadioTypes'
  BY <1>3, <1>5 DEF Answer, Types, ExchangeTypes, RadioTypes
<1> QED BY <1>6, <1>7 DEF Types

\* The acknowledgement counter does not go below zero.
LEMMA AcknowledgedType ==
  ASSUME NEW k \in Nat
  PROVE  Acknowledged(k) \in Nat
  BY DEF Acknowledged

LEMMA ReceivePacketTypes ==
  ASSUME Types, LinksSound, NEW n \in Node, NEW s \in Session, ReceivePacket(n, s)
  PROVE  Types'
<1> DEFINE r == Head(wire[s][n])
           m == Peer(n, s)
           receipt == PacketRecord(ReceiptFor(r.packet, n, s), 0)
<1>1. /\ Arrives(n, s, "packet")
      /\ r \in Records /\ r.kind = "packet" /\ OnLink(n, s)
      /\ Tail(wire[s][n]) \in Seq(Records)
      /\ openSessions' \in [Node -> SUBSET Session]
  BY ArrivesFacts DEF ReceivePacket
<1>2. r.packet \in Packet /\ r.hop \in Nat
  BY <1>1, RecordFields
<1>3. m \in Node /\ m # n
  BY <1>1, PeerFacts
<1>4. wire' \in [Session -> [Node -> Seq(Records)]]
  <2>1. CASE wire' = [wire EXCEPT ![s][n] = Tail(@)]
    BY <1>1, <2>1, TakenTypes
  <2>2. CASE /\ r.packet \in Msg
             /\ wire' = [wire EXCEPT ![s][n] = Tail(@), ![s][m] = Append(@, receipt)]
    <3>1. receipt \in Records
      BY <2>2, ReceiptType, PacketRecordType
    <3>2. wire[s] \in [Node -> Seq(Records)]
      BY DEF Types, RadioTypes
    <3> HIDE DEF r, receipt, m
    <3>3. Append(wire[s][m], receipt) \in Seq(Records)
      BY <1>3, <3>1, <3>2, AppendElements
    <3>4. wire' = [wire EXCEPT ![s] = [wire[s] EXCEPT ![n] = Tail(wire[s][n]),
                                                      ![m] = Append(wire[s][m], receipt)]]
      BY <1>3, <2>2, <3>2 DEF Types, RadioTypes
    <3>5. [wire[s] EXCEPT ![n] = Tail(wire[s][n]), ![m] = Append(wire[s][m], receipt)]
             \in [Node -> Seq(Records)]
      BY <1>1, <3>2, <3>3
    <3> QED BY <3>4, <3>5 DEF Types, RadioTypes
  <2> QED BY <2>1, <2>2 DEF ReceivePacket
<1>5. DeviceTypes'
  <2>1. \E inserted, accepted \in BOOLEAN :
          /\ copy' = [copy EXCEPT ![n][r.packet] = IF inserted THEN r.hop ELSE @]
          /\ queueEpoch' = [queueEpoch EXCEPT ![n] = IF inserted THEN @ + 1 ELSE @]
          /\ previousHop' = [previousHop EXCEPT ![n][r.packet] = IF accepted THEN m ELSE @]
          /\ UNCHANGED <<knownHolders, cooling>>
    BY DEF ReceivePacket
  <2> HIDE DEF r, m
  <2> QED BY <1>2, <1>3, <2>1 DEF Types, DeviceTypes
<1>6. ExchangeTypes'
  <2>1. inFlight[n][s] \in Nat
    BY DEF Types, ExchangeTypes
  <2>2. inFlight' = [inFlight EXCEPT ![n][s] = IF s \in Sessions(n) THEN Acknowledged(@) ELSE @]
    BY DEF ReceivePacket
  <2>3. inFlight' \in [Node -> [Session -> Nat]]
    BY <2>1, <2>2, AcknowledgedType DEF Types, ExchangeTypes
  <2> QED BY <2>3 DEF ReceivePacket, Types, ExchangeTypes
<1>7. RadioTypes'
  BY <1>1, <1>4 DEF ReceivePacket, Types, RadioTypes
<1>8. ContactTypes' /\ RelayTypes' /\ faults' \in Nat
  BY DEF ReceivePacket, contact, relay, Types, ContactTypes, RelayTypes
<1> QED BY <1>5, <1>6, <1>7, <1>8 DEF Types

LEMMA LoseRecordTypes ==
  ASSUME Types, LinksSound, NEW n \in Node, NEW s \in Session, LoseRecord(n, s)
  PROVE  Types'
<1>1. wire[s][n] \in Seq(Records) /\ wire[s][n] # <<>>
  BY DEF LoseRecord, Types, RadioTypes
<1>2. wire' \in [Session -> [Node -> Seq(Records)]]
  BY <1>1, TailElements, TakenTypes DEF LoseRecord
<1>3. faults' \in Nat
  BY FaultType DEF LoseRecord, Types
<1>4. RadioTypes'
  BY <1>2 DEF LoseRecord, Types, RadioTypes
<1> QED BY <1>3, <1>4 DEF LoseRecord, device, contact, exchange, relay, Types, DeviceTypes,
       ContactTypes, ExchangeTypes, RelayTypes

LEMMA SendTypes ==
  ASSUME Types, LinksSound, OffersHeld, NEW n \in Node, NEW s \in Session, Send(n, s)
  PROVE  Types'
<1>1. PICK p \in task[n][s].offers :
        /\ wire' = Put(s, Peer(n, s), Outgoing(n, p))
        /\ knownHolders' = [knownHolders EXCEPT ![n][p] = @ \cup {Peer(n, s)}]
        /\ cooling' = [cooling EXCEPT ![n] = @ \cup {p}]
        /\ task' = [task EXCEPT ![n][s].offers = @ \ {p}]
  BY DEF Send
<1>2. task[n][s].at = "pushing" /\ task[n][s] \in Tasks
  BY DEF Send, Types, ExchangeTypes
<1>3. p \in Packet
  BY <1>1, <1>2, TaskFields
<1>4. copy[n][p] \in Nat
  BY <1>1, <1>2, <1>3 DEF OffersHeld, Types, DeviceTypes
<1>5. Peer(n, s) \in Node
  BY <1>2, TaskOnLink, PeerFacts
<1>6. Outgoing(n, p) \in Records
  <2>1. copy[n][p] + 1 \in Nat
    BY <1>4
  <2> QED BY <1>3, <2>1, PacketRecordType DEF Outgoing
<1>7. RadioTypes'
  BY <1>1, <1>5, <1>6, PutTypes DEF Send, Types, RadioTypes
<1>8. DeviceTypes'
  BY <1>1, <1>3, <1>5 DEF Send, Types, DeviceTypes
<1>9. ExchangeTypes'
  <2>1. [task[n][s] EXCEPT !.offers = @ \ {p}] \in Tasks
    BY <1>2, TaskFields
  <2>2. task' \in [Node -> [Session -> Tasks]]
    BY <1>1, <2>1 DEF Types, ExchangeTypes
  <2>3. inFlight' \in [Node -> [Session -> Nat]]
    BY DEF Send, Types, ExchangeTypes
  <2> QED BY <2>2, <2>3 DEF Send, Types, ExchangeTypes
<1>10. ContactTypes' /\ RelayTypes' /\ faults' \in Nat
  BY DEF Send, contact, relay, Types, ContactTypes, RelayTypes
<1> QED BY <1>7, <1>8, <1>9, <1>10 DEF Types

\* The session-closed handler.
LEMMA SessionClosedTypes ==
  ASSUME Types, LinksSound, NEW n \in Node, NEW s \in Session, OnLink(n, s), SessionClosed(n, s)
  PROVE  /\ openSessions' \in [Node -> SUBSET Session]
         /\ machine' \in [Node -> [Session -> {"none", "live", "retired"}]]
         /\ peerInventories' \in [Node -> [Node -> Listed]]
         /\ announced' \in [Node -> SUBSET Session]
         /\ pushed' \in [Node -> SUBSET Session]
         /\ waiting' \in [Node -> SUBSET Node]
<1>1. openSessions' \in [Node -> SUBSET Session]
  BY DEF SessionClosed, Types, RadioTypes
<1>2. CASE running[n]
  <2>1. None \in Listed
    BY DEF Listed
  <2> DEFINE m == Peer(n, s)
  <2>2. /\ machine' = [machine EXCEPT ![n][s] = IF @ = "live" THEN "none" ELSE @]
        /\ peerInventories' = [peerInventories EXCEPT ![n][m] = None]
        /\ announced' = [announced EXCEPT ![n] = @ \ {s}]
        /\ pushed' = [pushed EXCEPT ![n] = @ \ {s}]
        /\ waiting' = [waiting EXCEPT ![n] = @ \ {m}]
    BY <1>2 DEF SessionClosed, Succeeded
  <2> HIDE DEF m
  <2>3. peerInventories' \in [Node -> [Node -> Listed]]
    BY <2>1, <2>2 DEF Types, ContactTypes
  <2>4. waiting' \in [Node -> SUBSET Node]
    BY <2>2 DEF Types, ContactTypes
  <2>5. /\ machine' \in [Node -> [Session -> {"none", "live", "retired"}]]
        /\ announced' \in [Node -> SUBSET Session]
        /\ pushed' \in [Node -> SUBSET Session]
    BY <2>2 DEF Types, ExchangeTypes
  <2> QED BY <1>1, <2>3, <2>4, <2>5
<1>3. CASE ~running[n]
  BY <1>1, <1>3 DEF SessionClosed, Types, ContactTypes, ExchangeTypes
<1> QED BY <1>2, <1>3

LEMMA ReconcileTypes ==
  ASSUME Types, LinksSound, NEW n \in Node, NEW s \in Session, Reconcile(n, s)
  PROVE  Types'
<1>1. task[n][s].at = "pushing" /\ task[n][s].theirs \in Nat /\ queueEpoch[n] \in Nat
  BY TaskFields DEF Reconcile, Types, ExchangeTypes, DeviceTypes
<1>2. OnLink(n, s) /\ Peer(n, s) \in Node
  BY <1>1, TaskOnLink, PeerFacts
<1>3. task' \in [Node -> [Session -> Tasks]]
  BY TaskTypes DEF Reconcile, Types, ExchangeTypes
<1>4. lastReconciled' \in [Node -> [Node -> Epochs]]
  <2>1. [theirs |-> task[n][s].theirs, ours |-> queueEpoch[n]] \in Epochs
    BY <1>1 DEF Epochs
  <2> QED BY <2>1 DEF Reconcile, Types, ContactTypes
<1>5. /\ openSessions' \in [Node -> SUBSET Session]
      /\ machine' \in [Node -> [Session -> {"none", "live", "retired"}]]
      /\ peerInventories' \in [Node -> [Node -> Listed]]
      /\ announced' \in [Node -> SUBSET Session]
      /\ pushed' \in [Node -> SUBSET Session]
      /\ waiting' \in [Node -> SUBSET Node]
      /\ closing' \in SUBSET (Session \X Node)
  <2>1. CASE SessionClosed(n, s) /\ closing' = closing \cup {<<s, Peer(n, s)>>}
    <3>1. closing' \in SUBSET (Session \X Node)
      BY <1>2, <2>1 DEF Types, RadioTypes
    <3> QED BY <1>2, <2>1, <3>1, SessionClosedTypes
  <2>2. CASE UNCHANGED <<openSessions, machine, peerInventories, announced, pushed, waiting, closing>>
    BY <2>2 DEF Types, RadioTypes, ContactTypes, ExchangeTypes
  <2> QED BY <2>1, <2>2 DEF Reconcile
<1>6. DeviceTypes' /\ RelayTypes' /\ faults' \in Nat
  BY DEF Reconcile, device, relay, Types, DeviceTypes, RelayTypes
<1>7. ContactTypes' /\ ExchangeTypes' /\ RadioTypes'
  BY <1>3, <1>4, <1>5 DEF Reconcile, Types, ContactTypes, ExchangeTypes, RadioTypes
<1> QED BY <1>6, <1>7 DEF Types

LEMMA RemoteClosedTypes ==
  ASSUME Types, LinksSound, NEW n \in Node, NEW s \in Session, RemoteClosed(n, s)
  PROVE  Types'
<1>1. OnLink(n, s)
  BY DEF RemoteClosed, LinksSound, Busy
<1>2. closing' \in SUBSET (Session \X Node)
  BY DEF RemoteClosed, Types, RadioTypes
<1>3. /\ openSessions' \in [Node -> SUBSET Session]
      /\ machine' \in [Node -> [Session -> {"none", "live", "retired"}]]
      /\ peerInventories' \in [Node -> [Node -> Listed]]
      /\ announced' \in [Node -> SUBSET Session]
      /\ pushed' \in [Node -> SUBSET Session]
      /\ waiting' \in [Node -> SUBSET Node]
  <2>1. CASE SessionClosed(n, s)
    BY <1>1, <2>1, SessionClosedTypes
  <2>2. CASE UNCHANGED <<openSessions, machine, peerInventories, announced, pushed, waiting>>
    BY <2>2 DEF Types, RadioTypes, ContactTypes, ExchangeTypes
  <2> QED BY <2>1, <2>2 DEF RemoteClosed
<1>4. DeviceTypes' /\ RelayTypes' /\ faults' \in Nat
  BY DEF RemoteClosed, device, relay, Types, DeviceTypes, RelayTypes
<1>5. ContactTypes' /\ ExchangeTypes' /\ RadioTypes'
  BY <1>2, <1>3 DEF RemoteClosed, Types, ContactTypes, ExchangeTypes, RadioTypes
<1> QED BY <1>4, <1>5 DEF Types

LEMMA BackoffPassesTypes ==
  ASSUME Types, NEW n \in Node, NEW m \in Node, BackoffPasses(n, m)
  PROVE  Types'
<1>1. ContactTypes'
  BY DEF BackoffPasses, Types, ContactTypes
<1> QED BY <1>1 DEF BackoffPasses, device, exchange, radio, relay, Types, DeviceTypes,
       ExchangeTypes, RadioTypes, RelayTypes

-----------------------------------------------------------------------------
(* What a step leaves as it was *)

\* A stored copy stays as it is; an opened session keeps its ends.
CopiesKept == \A n \in Node, p \in Packet : copy[n][p] # Absent => copy'[n][p] = copy[n][p]
EndsKept   == \A s \in Session : link[s] # Unopened => link'[s] = link[s]

\* The handlers that a contact with a peer starts.
Contacts == \E n, m \in Node :
  \/ \E over \in SUBSET With(n, m) : PeerObserved(n, m, over)
  \/ SyncPeerNow(n, m) \/ SyncConnect(n, m)

LEMMA CopiesStep ==
  ASSUME Types, Next
  PROVE  CopiesKept
<1>1. ASSUME NEW n \in Node, NEW p \in Msg, Create(n, p) PROVE CopiesKept
  <2>1. copy' = [copy EXCEPT ![n][p] = 0] /\ copy[n][p] = Absent
    BY <1>1 DEF Create
  <2> QED BY <2>1 DEF CopiesKept, Types, DeviceTypes
<1>2. ASSUME NEW n \in Node, NEW s \in Session, ReceivePacket(n, s) PROVE CopiesKept
  <2> DEFINE r == Head(wire[s][n])
  <2>1. \/ copy' = [copy EXCEPT ![n][r.packet] = @]
        \/ copy[n][r.packet] = Absent /\ copy' = [copy EXCEPT ![n][r.packet] = r.hop]
    BY <1>2 DEF ReceivePacket
  <2>2. \A q \in Node : copy[q] \in [Packet -> Nat \cup {Absent}]
    BY DEF Types, DeviceTypes
  <2>3. copy \in [Node -> [Packet -> Nat \cup {Absent}]]
    BY DEF Types, DeviceTypes
  <2> HIDE DEF r
  <2>4. CASE copy' = [copy EXCEPT ![n][r.packet] = @]
    BY <2>2, <2>3, <2>4 DEF CopiesKept
  <2>5. CASE copy[n][r.packet] = Absent /\ copy' = [copy EXCEPT ![n][r.packet] = r.hop]
    BY <2>2, <2>3, <2>5 DEF CopiesKept
  <2> QED BY <2>1, <2>4, <2>5
<1>3. CASE UNCHANGED copy
  BY <1>3 DEF CopiesKept
<1>4. CASE \E n \in Node, s \in Session : Handler(n, s)
  BY <1>2, <1>3, <1>4 DEF Handler, OpenResolves, OpenFails, Announce, AbsorbInventory, Answer,
     Send, Reconcile, RemoteClosed, device
<1>5. CASE Contacts
  BY <1>3, <1>5 DEF Contacts, PeerObserved, SyncPeerNow, SyncConnect, device
<1>6. CASE Environment
  BY <1>1, <1>3, <1>6 DEF Environment, CoolDown, RefreshAdvertisement, Start, Stop, Crash, OnDisk,
     LoseRecord, BackoffPasses, device
<1> QED BY <1>4, <1>5, <1>6 DEF Next, Contacts

LEMMA EndsStep ==
  ASSUME Types, Next
  PROVE  EndsKept
<1>1. ASSUME NEW n \in Node, NEW m \in Node, StartOpening(n, m) PROVE EndsKept
  BY <1>1, StartOpeningFacts DEF EndsKept, Types, RadioTypes
<1>2. CASE UNCHANGED link
  BY <1>2 DEF EndsKept
<1>3. ASSUME NEW n \in Node, NEW s \in Session, Handler(n, s) PROVE EndsKept
  <2>1. CASE OpenResolves(n, s) \/ OpenFails(n, s) \/ Announce(n, s)
    BY <1>2, <2>1 DEF OpenResolves, OpenFails, Announce, radio
  <2>2. CASE AbsorbInventory(n, s) \/ Answer(n, s) \/ ReceivePacket(n, s)
    BY <1>2, <2>2 DEF AbsorbInventory, Answer, ReceivePacket
  <2>3. CASE Send(n, s) \/ Reconcile(n, s) \/ RemoteClosed(n, s)
    BY <1>2, <2>3 DEF Send, Reconcile, RemoteClosed
  <2> QED BY <1>3, <2>1, <2>2, <2>3 DEF Handler
<1>4. CASE Contacts
  BY <1>1, <1>2, <1>4 DEF Contacts, PeerObserved, SyncPeerNow, SyncConnect, radio
<1>5. CASE Environment
  BY <1>2, <1>5 DEF Environment, Create, CoolDown, RefreshAdvertisement, Start, Stop, Crash,
     LoseRecord, BackoffPasses, radio
<1> QED BY <1>3, <1>4, <1>5 DEF Next, Contacts

-----------------------------------------------------------------------------
(* Sessions stay between their ends *)

\* Where no session is opened, it is enough that a step makes a session busy only at
\* its own ends.
LEMMA LinksKeep ==
  ASSUME Types, LinksSound, UNCHANGED link,
         \A n \in Node, s \in Session : Busy(n, s)' => OnLink(n, s),
         \A n \in Node, s \in Session :
           task'[n][s].at \in {"opening", "announcing"} => task[n][s].at \in {"opening", "announcing"},
         \A n, m \in Node : syncing'[n][m] > 0 => syncing[n][m] > 0 \/ ({n, m} \in Link /\ n # m)
  PROVE  LinksSound'
  BY DEF LinksSound, OnLink

\* Where one is opened, its ends are neighbours.
LEMMA LinksOpen ==
  ASSUME Types, LinksSound, NEW n \in Node, NEW m \in Node, StartOpening(n, m),
         {n, m} \in Link, n # m, UNCHANGED <<openSessions, wire, closing>>,
         \A k, l \in Node : syncing'[k][l] > 0 => syncing[k][l] > 0
  PROVE  LinksSound'
<1>1. PICK s \in Session :
        /\ link[s] = Unopened
        /\ link' = [link EXCEPT ![s] = [from |-> n, to |-> m]]
        /\ task' = [task EXCEPT ![n][s] = [at |-> "opening"]]
  BY StartOpeningFacts
<1>2. \A t \in Session : t # s => link'[t] = link[t]
  BY <1>1 DEF Types, RadioTypes
<1>3. link'[s] = [from |-> n, to |-> m]
  BY <1>1 DEF Types, RadioTypes
<1>4. \A k \in Node, t \in Session : k # n \/ t # s => task'[k][t] = task[k][t]
  BY <1>1 DEF Types, ExchangeTypes
<1>5. \A k \in Node : ~OnLink(k, s)
  BY <1>1, RelayConstants DEF OnLink, Unopened
<1>6. \A t \in Session : link'[t] # Unopened =>
         {link'[t].from, link'[t].to} \in Link /\ link'[t].from # link'[t].to
  <2>1. {link'[s].from, link'[s].to} = {n, m} /\ link'[s].from # link'[s].to
    BY <1>3
  <2> QED BY <1>2, <2>1 DEF LinksSound
<1>7. \A k \in Node, t \in Session : Busy(k, t)' => OnLink(k, t)'
  <2> SUFFICES ASSUME NEW k \in Node, NEW t \in Session, Busy(k, t)' PROVE OnLink(k, t)'
    OBVIOUS
  <2>1. CASE k = n /\ t = s
    BY <1>3, <2>1 DEF OnLink
  <2>2. CASE ~(k = n /\ t = s)
    <3>1. Busy(k, t)
      BY <1>4, <2>2 DEF Busy
    <3>2. OnLink(k, t)
      BY <3>1 DEF LinksSound
    <3> QED BY <1>2, <1>5, <3>2 DEF OnLink
  <2> QED BY <2>1, <2>2
<1>8. \A k \in Node, t \in Session :
         task'[k][t].at \in {"opening", "announcing"} => link'[t].from = k
  <2> SUFFICES ASSUME NEW k \in Node, NEW t \in Session,
                      task'[k][t].at \in {"opening", "announcing"}
               PROVE  link'[t].from = k
    OBVIOUS
  <2>1. CASE k = n /\ t = s
    BY <1>3, <2>1
  <2>2. CASE ~(k = n /\ t = s)
    <3>1. link[t].from = k
      BY <1>4, <2>2 DEF LinksSound
    <3> QED BY <1>2, <1>5, <3>1 DEF OnLink
  <2> QED BY <2>1, <2>2
<1> QED BY <1>6, <1>7, <1>8 DEF LinksSound

\* Steps that leave the sessions alone.
Calm(n) ==
  \/ \E p \in Msg : Create(n, p)
  \/ \E p \in Packet : CoolDown(n, p)
  \/ RefreshAdvertisement(n) \/ Start(n)
  \/ \E m \in Node : BackoffPasses(n, m)

LEMMA CalmKeeps ==
  ASSUME NEW n \in Node, Calm(n)
  PROVE  UNCHANGED <<link, wire, task, openSessions, closing, syncing>>
  BY DEF Calm, Create, CoolDown, RefreshAdvertisement, Start, BackoffPasses, device, contact,
     exchange, radio, relay

LEMMA CalmLinks ==
  ASSUME Types, LinksSound, NEW n \in Node, Calm(n)
  PROVE  LinksSound'
  BY CalmKeeps, LinksKeep DEF Busy, LinksSound

\* The other ends of the sessions of an adapter that goes down.
LEMMA HangUpLinks ==
  ASSUME Types, LinksSound, NEW n \in Node, HangUp(n), UNCHANGED link,
         \A k \in Node, s \in Session : task'[k][s] = task[k][s] \/ task'[k][s] = Idle,
         \A k \in Node, s \in Session : wire'[s][k] = wire[s][k] \/ wire'[s][k] = <<>>,
         \A k, m \in Node : syncing'[k][m] > 0 => syncing[k][m] > 0
  PROVE  LinksSound'
<1>1. \A k \in Node, s \in Session : <<s, k>> \in closing' =>
         <<s, k>> \in closing \/ (s \in openSessions[n] /\ k = Peer(n, s))
  BY DEF HangUp
<1>2. \A k \in Node, s \in Session : s \in openSessions'[k] => s \in openSessions[k]
  BY DEF HangUp, Types, RadioTypes
<1>3. \A k \in Node, s \in Session : Busy(k, s)' => OnLink(k, s)
  <2> SUFFICES ASSUME NEW k \in Node, NEW s \in Session, Busy(k, s)' PROVE OnLink(k, s)
    OBVIOUS
  <2>1. CASE s \in openSessions[n] /\ k = Peer(n, s)
    <3>1. OnLink(n, s)
      BY <2>1 DEF LinksSound, Busy
    <3> QED BY <2>1, <3>1, PeerFacts
  <2>2. CASE Busy(k, s)
    BY <2>2 DEF LinksSound
  <2> QED BY <1>1, <1>2, <2>1, <2>2 DEF Busy
<1>4. \A k \in Node, s \in Session :
         task'[k][s].at \in {"opening", "announcing"} => task[k][s].at \in {"opening", "announcing"}
  <2>1. Idle.at \notin {"opening", "announcing"}
    BY DEF Idle
  <2> QED BY <2>1
<1> QED BY <1>3, <1>4, LinksKeep

LEMMA StopLinks ==
  ASSUME Types, LinksSound, NEW n \in Node, Stop(n)
  PROVE  LinksSound'
<1>1. \A k \in Node, s \in Session : task'[k][s] = task[k][s] \/ task'[k][s] = Idle
  BY DEF Stop, Types, ExchangeTypes
<1> QED BY <1>1, HangUpLinks DEF Stop

LEMMA CrashLinks ==
  ASSUME Types, LinksSound, NEW n \in Node, Crash(n)
  PROVE  LinksSound'
<1>1. \A k \in Node, s \in Session : task'[k][s] = task[k][s] \/ task'[k][s] = Idle
  BY DEF Crash, Types, ExchangeTypes
<1>2. \A k \in Node, s \in Session : wire'[s][k] = wire[s][k] \/ wire'[s][k] = <<>>
  BY DEF Crash, Types, RadioTypes
<1>3. \A k, m \in Node : syncing'[k][m] > 0 => syncing[k][m] > 0
  BY DEF Crash, Types, RelayTypes
<1> QED BY <1>1, <1>2, <1>3, HangUpLinks DEF Crash

LEMMA LoseRecordLinks ==
  ASSUME Types, LinksSound, NEW n \in Node, NEW s \in Session, LoseRecord(n, s)
  PROVE  LinksSound'
<1>1. \A k \in Node, t \in Session : wire'[t][k] # <<>> => wire[t][k] # <<>>
  BY DEF LoseRecord, Types, RadioTypes
<1>2. UNCHANGED <<link, task, openSessions, closing, syncing>>
  BY DEF LoseRecord, exchange, relay
<1>3. \A k \in Node, t \in Session : Busy(k, t)' => OnLink(k, t)
  BY <1>1, <1>2 DEF Busy, LinksSound
<1> QED BY <1>2, <1>3, LinksKeep

\* Two neighbours of which one initiates are two.
LEMMA ContactsLinks ==
  ASSUME Types, LinksSound, Contacts
  PROVE  LinksSound'
<1>1. ASSUME NEW n \in Node, NEW m \in Node, NEW over, PeerObserved(n, m, over)
      PROVE  LinksSound'
  <2>1. /\ {n, m} \in Link /\ n # m
        /\ UNCHANGED <<openSessions, wire, closing, syncing>>
    BY <1>1, RelayConstants DEF PeerObserved, relay
  <2>2. CASE StartOpening(n, m)
    BY <2>1, <2>2, LinksOpen
  <2>3. CASE UNCHANGED <<link, connecting, task>>
    BY <2>1, <2>3, LinksKeep DEF Busy, LinksSound
  <2> QED BY <1>1, <2>2, <2>3 DEF PeerObserved
<1>2. ASSUME NEW n \in Node, NEW m \in Node, SyncPeerNow(n, m)
      PROVE  LinksSound'
  <2>1. /\ UNCHANGED <<link, openSessions, wire, closing, task>>
        /\ {n, m} \in Link /\ n # m
        /\ syncing' = [syncing EXCEPT ![n][m] = @ + 1]
    BY <1>2 DEF SyncPeerNow, radio
  <2>2. \A k, l \in Node : syncing'[k][l] > 0 => syncing[k][l] > 0 \/ (k = n /\ l = m)
    BY <2>1 DEF Types, RelayTypes
  <2> QED BY <2>1, <2>2, LinksKeep DEF Busy, LinksSound
<1>3. ASSUME NEW n \in Node, NEW m \in Node, SyncConnect(n, m)
      PROVE  LinksSound'
  <2>1. /\ syncing[n][m] > 0 /\ StartOpening(n, m)
        /\ syncing' = [syncing EXCEPT ![n][m] = @ - 1]
        /\ UNCHANGED <<openSessions, wire, closing>>
    BY <1>3 DEF SyncConnect
  <2>2. {n, m} \in Link /\ n # m
    BY <2>1 DEF LinksSound
  <2>3. \A k, l \in Node : syncing'[k][l] > 0 => syncing[k][l] > 0
    BY <2>1 DEF Types, RelayTypes
  <2> QED BY <2>1, <2>2, <2>3, LinksOpen
<1> QED BY <1>1, <1>2, <1>3 DEF Contacts

\* A handler works at one end of its session and reaches the other.
LEMMA HandlerLinks ==
  ASSUME Types, LinksSound, NEW n \in Node, NEW s \in Session, OnLink(n, s),
         UNCHANGED <<link, syncing>>,
         \A k \in Node, t \in Session :
           Busy(k, t)' => Busy(k, t) \/ (t = s /\ k \in {n, Peer(n, s)}),
         \A k \in Node, t \in Session :
           task'[k][t].at \in {"opening", "announcing"} => task[k][t].at \in {"opening", "announcing"}
  PROVE  LinksSound'
<1>1. OnLink(Peer(n, s), s)
  BY PeerFacts
<1>2. \A k \in Node, t \in Session : Busy(k, t)' => OnLink(k, t)
  BY <1>1 DEF LinksSound
<1> QED BY <1>2, LinksKeep

LEMMA OpenResolvesLinks ==
  ASSUME Types, LinksSound, NEW n \in Node, NEW s \in Session, OpenResolves(n, s)
  PROVE  LinksSound'
<1>1. task[n][s].at = "opening" /\ OnLink(n, s) /\ link[s].from = n
  BY TaskOnLink DEF OpenResolves, LinksSound
<1>2. link[s].to = Peer(n, s)
  BY <1>1 DEF Peer
<1>3. /\ UNCHANGED <<link, wire, closing, syncing>>
      /\ task' = [task EXCEPT ![n][s] = [at |-> "announcing"]]
      /\ openSessions' = [openSessions EXCEPT ![n] = @ \cup {s}, ![Peer(n, s)] = @ \cup {s}]
  BY <1>2 DEF OpenResolves, relay
<1>4. \A k \in Node, t \in Session :
         t \in openSessions'[k] => t \in openSessions[k] \/ (t = s /\ k \in {n, Peer(n, s)})
  BY <1>3 DEF Types, RadioTypes
<1>5. \A k \in Node, t \in Session : task'[k][t] = task[k][t] \/ (t = s /\ k = n)
  BY <1>3 DEF Types, ExchangeTypes
<1>6. \A k \in Node, t \in Session :
         Busy(k, t)' => Busy(k, t) \/ (t = s /\ k \in {n, Peer(n, s)})
  BY <1>3, <1>4, <1>5 DEF Busy
<1> QED BY <1>1, <1>3, <1>5, <1>6, HandlerLinks

LEMMA OpenFailsLinks ==
  ASSUME Types, LinksSound, NEW n \in Node, NEW s \in Session, OpenFails(n, s)
  PROVE  LinksSound'
<1>1. task[n][s].at = "opening" /\ OnLink(n, s)
  BY TaskOnLink DEF OpenFails
<1>2. UNCHANGED <<link, wire, closing, syncing, openSessions>>
  BY DEF OpenFails, radio, relay
<1>3. \A k \in Node, t \in Session : task'[k][t] = task[k][t] \/ (t = s /\ k = n)
  BY DEF OpenFails, Types, ExchangeTypes
<1>4. \A k \in Node, t \in Session :
         Busy(k, t)' => Busy(k, t) \/ (t = s /\ k \in {n, Peer(n, s)})
  BY <1>2, <1>3 DEF Busy
<1> QED BY <1>1, <1>2, <1>3, <1>4, HandlerLinks

\* A record put on the air goes to the other end only.
LEMMA PutFacts ==
  ASSUME Types, NEW n \in Node, NEW s \in Session, NEW r, wire' = Put(s, n, r)
  PROVE  \A k \in Node, t \in Session : wire'[t][k] = wire[t][k] \/ (t = s /\ k = n)
  BY DEF Put, Types, RadioTypes

LEMMA AnnounceLinks ==
  ASSUME Types, LinksSound, NEW n \in Node, NEW s \in Session, Announce(n, s)
  PROVE  LinksSound'
<1>1. task[n][s].at = "announcing" /\ OnLink(n, s)
  BY TaskOnLink DEF Announce
<1>2. Peer(n, s) \in Node
  BY <1>1, PeerFacts
<1>3. UNCHANGED <<link, closing, syncing, openSessions>>
  BY DEF Announce, relay
<1>4. \A k \in Node, t \in Session : task'[k][t] = task[k][t] \/ (t = s /\ k = n)
  BY DEF Announce, Types, ExchangeTypes
<1>5. \A k \in Node, t \in Session : wire'[t][k] = wire[t][k] \/ (t = s /\ k = Peer(n, s))
  BY <1>2, PutFacts DEF Announce
<1>6. \A k \in Node, t \in Session :
         Busy(k, t)' => Busy(k, t) \/ (t = s /\ k \in {n, Peer(n, s)})
  BY <1>3, <1>4, <1>5 DEF Busy
<1> QED BY <1>1, <1>3, <1>4, <1>6, HandlerLinks

LEMMA AbsorbInventoryLinks ==
  ASSUME Types, LinksSound, NEW n \in Node, NEW s \in Session, AbsorbInventory(n, s)
  PROVE  LinksSound'
<1>1. OnLink(n, s)
  BY ArrivesFacts DEF AbsorbInventory
<1>2. UNCHANGED <<link, closing, syncing>>
  BY DEF AbsorbInventory, relay
<1>3. \E t : t.at \notin {"opening", "announcing"} /\ task' = [task EXCEPT ![n][s] = t]
  <2>1. /\ Idle.at \notin {"opening", "announcing"}
        /\ \A e : [at |-> "answering", theirs |-> e].at \notin {"opening", "announcing"}
        /\ \A e, ps : [at |-> "pushing", theirs |-> e, offers |-> ps].at \notin {"opening", "announcing"}
    BY DEF Idle
  <2> QED BY <2>1 DEF AbsorbInventory, BeginPush
<1>4. \A k \in Node, t \in Session :
         task'[k][t] = task[k][t] \/ (t = s /\ k = n /\ task'[k][t].at \notin {"opening", "announcing"})
  BY <1>3 DEF Types, ExchangeTypes
<1>5. \A k \in Node, t \in Session : wire'[t][k] = wire[t][k] \/ (t = s /\ k = n)
  BY DEF AbsorbInventory, Types, RadioTypes
<1>6. \A k \in Node, t \in Session : t \in openSessions'[k] => t \in openSessions[k] \/ (t = s /\ k = n)
  BY DEF AbsorbInventory, Arrives, Types, RadioTypes
<1>7. \A k \in Node, t \in Session :
         Busy(k, t)' => Busy(k, t) \/ (t = s /\ k \in {n, Peer(n, s)})
  BY <1>2, <1>4, <1>5, <1>6 DEF Busy
<1> QED BY <1>1, <1>2, <1>4, <1>7, HandlerLinks

LEMMA AnswerLinks ==
  ASSUME Types, LinksSound, NEW n \in Node, NEW s \in Session, Answer(n, s)
  PROVE  LinksSound'
<1>1. OnLink(n, s)
  BY TaskOnLink DEF Answer
<1>2. Peer(n, s) \in Node
  BY <1>1, PeerFacts
<1>3. UNCHANGED <<link, closing, syncing, openSessions>>
  BY DEF Answer, relay
<1>4. \A k \in Node, t \in Session :
         task'[k][t] = task[k][t] \/ (t = s /\ k = n /\ task'[k][t].at \notin {"opening", "announcing"})
  <2>1. /\ Idle.at \notin {"opening", "announcing"}
        /\ \A e, ps : [at |-> "pushing", theirs |-> e, offers |-> ps].at \notin {"opening", "announcing"}
    BY DEF Idle
  <2>2. \E t : t.at \notin {"opening", "announcing"} /\ task' = [task EXCEPT ![n][s] = t]
    BY <2>1 DEF Answer, BeginPush
  <2> QED BY <2>2 DEF Types, ExchangeTypes
<1>5. \A k \in Node, t \in Session : wire'[t][k] = wire[t][k] \/ (t = s /\ k = Peer(n, s))
  BY <1>2, PutFacts DEF Answer
<1>6. \A k \in Node, t \in Session :
         Busy(k, t)' => Busy(k, t) \/ (t = s /\ k \in {n, Peer(n, s)})
  BY <1>3, <1>4, <1>5 DEF Busy
<1> QED BY <1>1, <1>3, <1>4, <1>6, HandlerLinks

LEMMA ReceivePacketLinks ==
  ASSUME Types, LinksSound, NEW n \in Node, NEW s \in Session, ReceivePacket(n, s)
  PROVE  LinksSound'
<1>1. OnLink(n, s)
  BY ArrivesFacts DEF ReceivePacket
<1>2. UNCHANGED <<link, closing, syncing, task>>
  BY DEF ReceivePacket, relay
<1>3. \A k \in Node, t \in Session : wire'[t][k] = wire[t][k] \/ (t = s /\ k \in {n, Peer(n, s)})
  <2>1. \/ wire' = [wire EXCEPT ![s][n] = Tail(@)]
        \/ \E r : wire' = [wire EXCEPT ![s][n] = Tail(@), ![s][Peer(n, s)] = Append(@, r)]
    BY DEF ReceivePacket
  <2> QED BY <2>1 DEF Types, RadioTypes
<1>4. \A k \in Node, t \in Session : t \in openSessions'[k] => t \in openSessions[k] \/ (t = s /\ k = n)
  BY DEF ReceivePacket, Arrives, Types, RadioTypes
<1>5. \A k \in Node, t \in Session :
         Busy(k, t)' => Busy(k, t) \/ (t = s /\ k \in {n, Peer(n, s)})
  BY <1>2, <1>3, <1>4 DEF Busy
<1> QED BY <1>1, <1>2, <1>5, HandlerLinks

LEMMA SendLinks ==
  ASSUME Types, LinksSound, NEW n \in Node, NEW s \in Session, Send(n, s)
  PROVE  LinksSound'
<1>1. task[n][s].at = "pushing" /\ OnLink(n, s)
  BY TaskOnLink DEF Send
<1>2. Peer(n, s) \in Node
  BY <1>1, PeerFacts
<1>3. UNCHANGED <<link, closing, syncing, openSessions>>
  BY DEF Send, relay
<1>4. PICK p : wire' = Put(s, Peer(n, s), Outgoing(n, p))
               /\ task' = [task EXCEPT ![n][s].offers = @ \ {p}]
  BY DEF Send
<1>5. \A k \in Node, t \in Session :
         task'[k][t] = task[k][t] \/ (t = s /\ k = n /\ task'[k][t].at = "pushing")
  <2>1. task[n][s] \in [at : {"pushing"}, theirs : Nat, offers : SUBSET Packet]
    <3>1. task[n][s] \in Tasks
      BY DEF Types, ExchangeTypes
    <3> QED BY <1>1, <3>1 DEF Tasks
  <2>2. [task[n][s] EXCEPT !.offers = @ \ {p}].at = "pushing"
    BY <2>1
  <2>3. task' = [task EXCEPT ![n][s] = [task[n][s] EXCEPT !.offers = @ \ {p}]]
    BY <1>4 DEF Types, ExchangeTypes
  <2> QED BY <2>2, <2>3 DEF Types, ExchangeTypes
<1>6. \A k \in Node, t \in Session : wire'[t][k] = wire[t][k] \/ (t = s /\ k = Peer(n, s))
  BY <1>2, <1>4, PutFacts
<1>7. \A k \in Node, t \in Session :
         Busy(k, t)' => Busy(k, t) \/ (t = s /\ k \in {n, Peer(n, s)})
  BY <1>3, <1>5, <1>6 DEF Busy
<1> QED BY <1>1, <1>3, <1>5, <1>7, HandlerLinks

LEMMA ReconcileLinks ==
  ASSUME Types, LinksSound, NEW n \in Node, NEW s \in Session, Reconcile(n, s)
  PROVE  LinksSound'
<1>1. OnLink(n, s)
  BY TaskOnLink DEF Reconcile
<1>2. UNCHANGED <<link, wire, syncing>>
  BY DEF Reconcile, relay
<1>3. \A k \in Node, t \in Session : task'[k][t] = task[k][t] \/ (t = s /\ k = n /\ task'[k][t] = Idle)
  BY DEF Reconcile, Types, ExchangeTypes
<1>4. \A k \in Node, t \in Session :
         <<t, k>> \in closing' => <<t, k>> \in closing \/ (t = s /\ k = Peer(n, s))
  BY DEF Reconcile
<1>5. \A k \in Node, t \in Session : t \in openSessions'[k] => t \in openSessions[k]
  BY DEF Reconcile, SessionClosed, Types, RadioTypes
<1>6. \A k \in Node, t \in Session :
         Busy(k, t)' => Busy(k, t) \/ (t = s /\ k \in {n, Peer(n, s)})
  BY <1>2, <1>3, <1>4, <1>5 DEF Busy
<1>7. \A k \in Node, t \in Session :
         task'[k][t].at \in {"opening", "announcing"} => task[k][t].at \in {"opening", "announcing"}
  BY <1>3 DEF Idle
<1> QED BY <1>1, <1>2, <1>6, <1>7, HandlerLinks

LEMMA RemoteClosedLinks ==
  ASSUME Types, LinksSound, NEW n \in Node, NEW s \in Session, RemoteClosed(n, s)
  PROVE  LinksSound'
<1>1. OnLink(n, s)
  BY DEF RemoteClosed, LinksSound, Busy
<1>2. UNCHANGED <<link, wire, syncing, task>> /\ closing' \subseteq closing
  BY DEF RemoteClosed, relay
<1>3. \A k \in Node, t \in Session : t \in openSessions'[k] => t \in openSessions[k]
  BY DEF RemoteClosed, SessionClosed, Types, RadioTypes
<1>4. \A k \in Node, t \in Session :
         Busy(k, t)' => Busy(k, t) \/ (t = s /\ k \in {n, Peer(n, s)})
  BY <1>2, <1>3 DEF Busy
<1> QED BY <1>1, <1>2, <1>4, HandlerLinks

LEMMA LinksStep ==
  ASSUME Types, LinksSound, Next
  PROVE  LinksSound'
<1>1. ASSUME NEW n \in Node, NEW s \in Session, Handler(n, s) PROVE LinksSound'
  BY <1>1, OpenResolvesLinks, OpenFailsLinks, AnnounceLinks, AbsorbInventoryLinks, AnswerLinks,
     ReceivePacketLinks, SendLinks, ReconcileLinks, RemoteClosedLinks DEF Handler
<1>2. CASE Environment
  BY <1>2, CalmLinks, StopLinks, CrashLinks, LoseRecordLinks DEF Environment, Calm
<1> QED BY <1>1, <1>2, ContactsLinks DEF Next, Contacts

LEMMA TypesStep ==
  ASSUME Types, LinksSound, OffersHeld, Next
  PROVE  Types'
<1>1. ASSUME NEW n \in Node, NEW s \in Session, Handler(n, s) PROVE Types'
  BY <1>1, OpenResolvesTypes, OpenFailsTypes, AnnounceTypes, AbsorbInventoryTypes, AnswerTypes,
     ReceivePacketTypes, SendTypes, ReconcileTypes, RemoteClosedTypes DEF Handler
<1>2. CASE Environment
  BY <1>2, CreateTypes, AdvertisementTypes, CoolDownTypes, StopTypes, CrashTypes, LoseRecordTypes,
     BackoffPassesTypes DEF Environment
<1>3. CASE Contacts
  BY <1>3, PeerObservedTypes, SyncPeerNowTypes, SyncConnectTypes DEF Contacts
<1> QED BY <1>1, <1>2, <1>3 DEF Next, Contacts

-----------------------------------------------------------------------------
(* Only packets that are held are offered *)

\* A step may change any task, as long as a push offers what is held.
LEMMA OffersKeep ==
  ASSUME Types, OffersHeld, CopiesKept,
         \A n \in Node, s \in Session :
           \/ task'[n][s] = task[n][s]
           \/ task'[n][s].at # "pushing"
           \/ \A p \in task'[n][s].offers : p \in Packet /\ copy[n][p] # Absent
  PROVE  OffersHeld'
<1> SUFFICES ASSUME NEW n \in Node, NEW s \in Session, task'[n][s].at = "pushing",
                    NEW p \in task'[n][s].offers
             PROVE  copy'[n][p] # Absent
  BY DEF OffersHeld
<1>1. p \in Packet /\ copy[n][p] # Absent
  <2>1. CASE task'[n][s] = task[n][s]
    <3>1. task[n][s] \in Tasks
      BY DEF Types, ExchangeTypes
    <3> QED BY <2>1, <3>1, TaskFields DEF OffersHeld
  <2> QED BY <2>1
<1> QED BY <1>1 DEF CopiesKept

\* A push that begins offers what is held.
LEMMA BeginPushOffers ==
  ASSUME Types, NEW n \in Node, NEW s \in Session, NEW inventory, NEW theirs,
         BeginPush(n, s, inventory, theirs)
  PROVE  \A k \in Node, t \in Session :
           \/ task'[k][t] = task[k][t]
           \/ task'[k][t].at # "pushing"
           \/ \A p \in task'[k][t].offers : p \in Packet /\ copy[k][p] # Absent
<1>1. Idle.at # "pushing"
  BY DEF Idle
<1>2. CASE s \in pushed[n]
  <2>1. task' = [task EXCEPT ![n][s] = Idle]
    BY <1>2 DEF BeginPush
  <2> QED BY <1>1, <2>1 DEF Types, ExchangeTypes
<1>3. CASE s \notin pushed[n]
  <2> DEFINE offers == IF s \in Sessions(n) THEN Wanted(n, Peer(n, s), inventory) ELSE {}
             push   == [at |-> "pushing", theirs |-> theirs, offers |-> offers]
  <2>1. \A p \in offers : p \in Packet /\ copy[n][p] # Absent
    BY WantedFacts
  <2>2. task' = [task EXCEPT ![n][s] = push]
    BY <1>3 DEF BeginPush
  <2>3. push.offers = offers
    OBVIOUS
  <2> HIDE DEF offers, push
  <2> QED BY <2>1, <2>2, <2>3 DEF Types, ExchangeTypes
<1> QED BY <1>2, <1>3

LEMMA OffersStep ==
  ASSUME Types, LinksSound, OffersHeld, Next
  PROVE  OffersHeld'
<1> USE CopiesStep
<1>1. CASE UNCHANGED task
  BY <1>1, OffersKeep
<1>2. ASSUME NEW n \in Node, NEW s \in Session, NEW t, t.at # "pushing", task' = [task EXCEPT ![n][s] = t]
      PROVE  OffersHeld'
  <2>1. \A k \in Node, l \in Session : task'[k][l] = task[k][l] \/ task'[k][l].at # "pushing"
    BY <1>2 DEF Types, ExchangeTypes
  <2> QED BY <2>1, OffersKeep
<1>3. /\ Idle.at # "pushing" /\ [at |-> "opening"].at # "pushing" /\ [at |-> "announcing"].at # "pushing"
      /\ \A e : [at |-> "answering", theirs |-> e].at # "pushing"
  BY DEF Idle
<1>4. ASSUME NEW n \in Node, NEW s \in Session, OpenResolves(n, s) \/ OpenFails(n, s) \/ Announce(n, s)
      PROVE  OffersHeld'
  BY <1>2, <1>3, <1>4 DEF OpenResolves, OpenFails, Announce
<1>5. ASSUME NEW n \in Node, NEW s \in Session, AbsorbInventory(n, s)
      PROVE  OffersHeld'
  <2>1. \/ \E inventory, theirs : BeginPush(n, s, inventory, theirs)
        \/ \E e : task' = [task EXCEPT ![n][s] = [at |-> "answering", theirs |-> e]]
    BY <1>5 DEF AbsorbInventory
  <2> QED BY <1>2, <1>3, <2>1, BeginPushOffers, OffersKeep
<1>6. ASSUME NEW n \in Node, NEW s \in Session, Answer(n, s)
      PROVE  OffersHeld'
  BY <1>6, BeginPushOffers, OffersKeep DEF Answer
<1>7. ASSUME NEW n \in Node, NEW s \in Session, Send(n, s)
      PROVE  OffersHeld'
  <2>1. PICK p : task' = [task EXCEPT ![n][s].offers = @ \ {p}]
    BY <1>7 DEF Send
  <2>2. task[n][s].at = "pushing" /\ task[n][s] \in Tasks
    BY <1>7 DEF Send, Types, ExchangeTypes
  <2>3. \A q \in task[n][s].offers : q \in Packet /\ copy[n][q] # Absent
    BY <2>2, TaskFields DEF OffersHeld
  <2>4. task'[n][s].offers \subseteq task[n][s].offers
    <3>1. task[n][s] \in [at : {"pushing"}, theirs : Nat, offers : SUBSET Packet]
      BY <2>2 DEF Tasks
    <3>2. [task[n][s] EXCEPT !.offers = @ \ {p}].offers = task[n][s].offers \ {p}
      BY <3>1
    <3> QED BY <2>1, <3>2 DEF Types, ExchangeTypes
  <2>5. \A k \in Node, l \in Session : task'[k][l] = task[k][l] \/ (k = n /\ l = s)
    BY <2>1 DEF Types, ExchangeTypes
  <2> QED BY <2>3, <2>4, <2>5, OffersKeep
<1>8. ASSUME NEW n \in Node, NEW s \in Session, Reconcile(n, s)
      PROVE  OffersHeld'
  BY <1>2, <1>3, <1>8 DEF Reconcile
<1>9. CASE \E n \in Node, s \in Session : ReceivePacket(n, s) \/ RemoteClosed(n, s)
  <2>1. ASSUME NEW n \in Node, NEW s \in Session, ReceivePacket(n, s)
        PROVE  UNCHANGED task
    BY <2>1 DEF ReceivePacket
  <2>2. ASSUME NEW n \in Node, NEW s \in Session, RemoteClosed(n, s)
        PROVE  UNCHANGED task
    BY <2>2 DEF RemoteClosed
  <2>3. UNCHANGED task  BY <1>9, <2>1, <2>2
  <2> QED BY <2>3, <1>1
<1>10. ASSUME NEW n \in Node, NEW m \in Node, StartOpening(n, m)
       PROVE  OffersHeld'
  <2>1. PICK s \in Session : task' = [task EXCEPT ![n][s] = [at |-> "opening"]]
    BY <1>10 DEF StartOpening
  <2> QED BY <1>2, <1>3, <2>1
<1>11. CASE Contacts
  BY <1>1, <1>10, <1>11 DEF Contacts, PeerObserved, SyncPeerNow, SyncConnect
<1>12. ASSUME NEW n \in Node, Stop(n) \/ Crash(n)
       PROVE  OffersHeld'
  <2>1. \A k \in Node, l \in Session : task'[k][l] = task[k][l] \/ task'[k][l] = Idle
    <3>1. CASE Stop(n)
      BY <3>1 DEF Stop, Types, ExchangeTypes
    <3>2. CASE Crash(n)
      BY <3>2 DEF Crash, Types, ExchangeTypes
    <3> QED BY <1>12, <3>1, <3>2
  <2> QED BY <1>3, <2>1, OffersKeep
<1>13. CASE Environment
  <2>1. CASE \E n \in Node : Calm(n)
    BY <1>1, <2>1, CalmKeeps
  <2>2. CASE \E n \in Node, s \in Session : LoseRecord(n, s)
    BY <1>1, <2>2 DEF LoseRecord, exchange
  <2> QED BY <1>12, <1>13, <2>1, <2>2 DEF Environment, Calm
<1> QED BY <1>4, <1>5, <1>6, <1>7, <1>8, <1>9, <1>11, <1>13 DEF Next, Contacts, Handler

-----------------------------------------------------------------------------
(* What is on the air comes from what is held *)

\* A record stays sound while copies are kept.
LEMMA SoundKeeps ==
  ASSUME NEW held, NEW after,
         \A n \in Node, p \in Packet : held[n][p] # Absent => after[n][p] = held[n][p],
         NEW m \in Node, NEW n \in Node, NEW r \in Records, Sound(held, m, n, r)
  PROVE  Sound(after, m, n, r)
<1>1. SUFFICES ASSUME r.kind = "packet" PROVE Relayed(after, m, n, r) \/ Receipted(after, m, n, r)
  BY DEF Sound
<1>2. r.packet \in Packet
  BY <1>1, RecordFields
<1>3. CASE Relayed(held, m, n, r)
  BY <1>2, <1>3 DEF Relayed
<1>4. CASE Receipted(held, m, n, r)
  <2>1. r.packet.about \in Packet
    BY <1>4 DEF Receipted, Receipts, Packet
  <2> QED BY <1>4, <2>1 DEF Receipted
<1> QED BY <1>1, <1>3, <1>4 DEF Sound

\* Records are lost, taken from the front, and added at the end when they are sound.
LEMMA WireKeep ==
  ASSUME Types, LinksSound, WireSound, CopiesKept, EndsKept,
         \A n \in Node, s \in Session :
           \/ wire'[s][n] = wire[s][n]
           \/ wire'[s][n] = <<>>
           \/ wire[s][n] # <<>> /\ wire'[s][n] = Tail(wire[s][n])
           \/ \E r \in Records : /\ OnLink(n, s) /\ Sound(copy', Peer(n, s), n, r)
                                 /\ wire'[s][n] = Append(wire[s][n], r)
  PROVE  WireSound'
<1> SUFFICES ASSUME NEW n \in Node, NEW s \in Session, NEW i \in 1..Len(wire'[s][n])
             PROVE  Sound(copy', Peer(n, s)', n, wire'[s][n][i])
  BY DEF WireSound
<1>1. wire[s][n] \in Seq(Records)
  BY DEF Types, RadioTypes
<1>2. OnLink(n, s) => Peer(n, s)' = Peer(n, s)
  BY PeerFacts DEF EndsKept, Peer
<1>3. ASSUME NEW j \in 1..Len(wire[s][n])
      PROVE  Sound(copy', Peer(n, s)', n, wire[s][n][j])
  <2>1. OnLink(n, s)
    <3>1. wire[s][n] # <<>>
      BY <1>1
    <3> QED BY <3>1 DEF LinksSound, Busy
  <2>2. Peer(n, s) \in Node
    BY <2>1, PeerFacts
  <2>3. wire[s][n][j] \in Records
    BY <1>1
  <2>4. Sound(copy, Peer(n, s), n, wire[s][n][j])
    BY DEF WireSound
  <2>5. Sound(copy', Peer(n, s), n, wire[s][n][j])
    BY <2>2, <2>3, <2>4, SoundKeeps DEF CopiesKept
  <2> QED BY <1>2, <2>1, <2>5
<1>4. CASE wire'[s][n] = wire[s][n]
  BY <1>3, <1>4
<1>5. CASE wire'[s][n] = <<>>
  BY <1>5
<1>6. CASE wire[s][n] # <<>> /\ wire'[s][n] = Tail(wire[s][n])
  BY <1>1, <1>3, <1>6, TailElements
<1>7. CASE \E r \in Records : /\ OnLink(n, s) /\ Sound(copy', Peer(n, s), n, r)
                              /\ wire'[s][n] = Append(wire[s][n], r)
  <2>1. PICK r \in Records : /\ OnLink(n, s) /\ Sound(copy', Peer(n, s), n, r)
                             /\ wire'[s][n] = Append(wire[s][n], r)
    BY <1>7
  <2>2. i \in 1..Len(wire[s][n]) + 1
        /\ wire'[s][n][i] = IF i <= Len(wire[s][n]) THEN wire[s][n][i] ELSE r
    BY <1>1, <2>1, AppendElements
  <2>3. CASE i <= Len(wire[s][n])
    BY <1>1, <1>3, <2>2, <2>3
  <2>4. CASE ~(i <= Len(wire[s][n]))
    BY <1>2, <2>1, <2>2, <2>4
  <2> QED BY <2>3, <2>4
<1> QED BY <1>4, <1>5, <1>6, <1>7

\* A record put on the air for the other end.
LEMMA WirePut ==
  ASSUME Types, LinksSound, WireSound, CopiesKept, EndsKept,
         NEW n \in Node, NEW s \in Session, NEW r \in Records, OnLink(n, s),
         Sound(copy', n, Peer(n, s), r), wire' = Put(s, Peer(n, s), r)
  PROVE  WireSound'
<1>1. /\ Peer(n, s) \in Node /\ OnLink(Peer(n, s), s) /\ Peer(Peer(n, s), s) = n
  BY PeerFacts
<1>2. wire'[s][Peer(n, s)] = Append(wire[s][Peer(n, s)], r)
  BY <1>1 DEF Put, Types, RadioTypes
<1>3. \A k \in Node, t \in Session : wire'[t][k] = wire[t][k] \/ (t = s /\ k = Peer(n, s))
  BY <1>1, PutFacts
<1> QED BY <1>1, <1>2, <1>3, WireKeep

\* An inventory is no packet.
LEMMA WireInventory ==
  ASSUME Types, LinksSound, WireSound, CopiesKept, EndsKept,
         NEW n \in Node, NEW s \in Session, OnLink(n, s),
         (\E r \in Inventories(n) : wire' = Put(s, Peer(n, s), r)) \/ UNCHANGED wire
  PROVE  WireSound'
<1>1. CASE UNCHANGED wire
  BY <1>1, WireKeep
<1>2. ASSUME NEW r \in Inventories(n), wire' = Put(s, Peer(n, s), r)
      PROVE  WireSound'
  <2>1. r \in Records /\ Sound(copy', n, Peer(n, s), r)
    BY InventoryType DEF Sound
  <2> QED BY <1>2, <2>1, WirePut
<1> QED BY <1>1, <1>2

\* What a push sends is one hop further than what is held.
LEMMA SendWire ==
  ASSUME Types, LinksSound, WireSound, OffersHeld, CopiesKept, EndsKept,
         NEW n \in Node, NEW s \in Session, Send(n, s)
  PROVE  WireSound'
<1>1. PICK p \in task[n][s].offers : wire' = Put(s, Peer(n, s), Outgoing(n, p))
  BY DEF Send
<1>2. task[n][s].at = "pushing" /\ task[n][s] \in Tasks
  BY DEF Send, Types, ExchangeTypes
<1>3. p \in Packet /\ copy[n][p] # Absent
  BY <1>2, TaskFields DEF OffersHeld
<1>4. copy[n][p] \in Nat
  BY <1>3 DEF Types, DeviceTypes
<1>5. OnLink(n, s) /\ Peer(n, s) \in Node /\ {n, Peer(n, s)} \in Link
  BY <1>2, TaskOnLink, PeerFacts
<1>6. Outgoing(n, p) \in Records
  <2>1. copy[n][p] + 1 \in Nat
    BY <1>4
  <2> QED BY <1>3, <2>1, PacketRecordType DEF Outgoing
<1>7. Relayed(copy', n, Peer(n, s), Outgoing(n, p))
  <2>1. {Peer(n, s), n} = {n, Peer(n, s)}
    OBVIOUS
  <2> QED BY <1>3, <1>5, <2>1 DEF CopiesKept, Relayed, Outgoing, PacketRecord
<1>8. Sound(copy', n, Peer(n, s), Outgoing(n, p))
  BY <1>7 DEF Sound
<1> QED BY <1>1, <1>5, <1>6, <1>8, WirePut

\* A receipt goes out after its sender has stored what the other end sent.
LEMMA ReceivePacketWire ==
  ASSUME Types, LinksSound, WireSound, CopiesKept, EndsKept,
         NEW n \in Node, NEW s \in Session, ReceivePacket(n, s)
  PROVE  WireSound'
<1> DEFINE r == Head(wire[s][n])
           m == Peer(n, s)
           receipt == PacketRecord(ReceiptFor(r.packet, n, s), 0)
<1>1. /\ r \in Records /\ r.kind = "packet" /\ OnLink(n, s)
      /\ wire[s][n] # <<>> /\ wire[s][n] \in Seq(Records)
  <2>1. Arrives(n, s, "packet")
    BY DEF ReceivePacket
  <2>2. wire[s][n] # <<>> /\ wire[s][n] \in Seq(Records)
    BY <2>1 DEF Arrives, Types, RadioTypes
  <2> QED BY <2>1, <2>2, ArrivesFacts
<1>2. /\ m \in Node /\ m # n /\ {n, m} \in Link /\ OnLink(m, s) /\ Peer(m, s) = n
  BY <1>1, PeerFacts
<1>3. Sound(copy, m, n, r)
  BY <1>1, TailElements DEF WireSound
<1>4. r.packet \in Packet /\ r.hop \in Nat
  BY <1>1, RecordFields
<1>5. CASE wire' = [wire EXCEPT ![s][n] = Tail(@)]
  <2>1. \A k \in Node, t \in Session :
           wire'[t][k] = wire[t][k] \/ (t = s /\ k = n /\ wire'[t][k] = Tail(wire[t][k]))
    BY <1>5 DEF Types, RadioTypes
  <2> QED BY <1>1, <2>1, WireKeep
<1>6. CASE /\ r.hop < HopLimit[r.packet] /\ r.packet \in Msg
           /\ wire' = [wire EXCEPT ![s][n] = Tail(@), ![s][m] = Append(@, receipt)]
  <2>1. receipt \in Records
    BY <1>6, ReceiptType, PacketRecordType
  <2>2. copy'[m][r.packet] # Absent
    <3>1. r.packet \notin Receipts
      BY <1>6, ReceiptsAreNotMessages
    <3> QED BY <1>1, <1>2, <1>3, <1>4, <3>1 DEF Sound, Relayed, Receipted, CopiesKept
  <2>3. copy'[n][r.packet] # Absent
    <3>1. copy' = [copy EXCEPT ![n][r.packet] = IF @ = Absent THEN r.hop ELSE @]
      BY <1>6 DEF ReceivePacket
    <3> HIDE DEF r
    <3> QED BY <1>4, <3>1, RelayConstants DEF Types, DeviceTypes
  <2>4. Receipted(copy', n, m, receipt)
    <3>1. /\ receipt.packet = ReceiptFor(r.packet, n, s) /\ receipt.hop = 0
          /\ ReceiptFor(r.packet, n, s).about = r.packet /\ ReceiptFor(r.packet, n, s).by = n
      BY DEF PacketRecord, ReceiptFor
    <3>2. ReceiptFor(r.packet, n, s) \in Receipts /\ {m, n} = {n, m}
      BY <1>6, ReceiptType
    <3> HIDE DEF r, receipt, m
    <3> QED BY <1>2, <2>2, <2>3, <3>1, <3>2 DEF Receipted
  <2>5. Sound(copy', n, m, receipt)
    BY <2>4 DEF Sound
  <2> HIDE DEF r, receipt, m
  <2>6. wire'[s][n] = Tail(wire[s][n]) /\ wire'[s][m] = Append(wire[s][m], receipt)
    BY <1>2, <1>6 DEF Types, RadioTypes
  <2>7. \A k \in Node, t \in Session : wire'[t][k] = wire[t][k] \/ (t = s /\ k \in {n, m})
    BY <1>2, <1>6 DEF Types, RadioTypes
  <2> QED BY <1>1, <1>2, <2>1, <2>5, <2>6, <2>7, WireKeep
<1> QED BY <1>5, <1>6 DEF ReceivePacket

LEMMA WireStep ==
  ASSUME Types, LinksSound, WireSound, OffersHeld, Next
  PROVE  WireSound'
<1>1. CopiesKept /\ EndsKept
  BY CopiesStep, EndsStep
<1>2. CASE UNCHANGED wire
  BY <1>1, <1>2, WireKeep
<1>3. ASSUME NEW n \in Node, NEW s \in Session, Announce(n, s) \/ Answer(n, s)
      PROVE  WireSound'
  <2>1. OnLink(n, s)
    BY <1>3, TaskOnLink DEF Announce, Answer
  <2>2. (\E r \in Inventories(n) : wire' = Put(s, Peer(n, s), r)) \/ UNCHANGED wire
    BY <1>3 DEF Announce, Answer
  <2> QED BY <1>1, <2>1, <2>2, WireInventory
<1>4. ASSUME NEW n \in Node, NEW s \in Session, AbsorbInventory(n, s) \/ LoseRecord(n, s)
      PROVE  WireSound'
  <2>1. wire[s][n] # <<>> /\ wire' = [wire EXCEPT ![s][n] = Tail(@)]
    BY <1>4 DEF AbsorbInventory, Arrives, LoseRecord
  <2>2. \A k \in Node, t \in Session :
           wire'[t][k] = wire[t][k] \/ (t = s /\ k = n /\ wire'[t][k] = Tail(wire[t][k]))
    BY <2>1 DEF Types, RadioTypes
  <2> QED BY <1>1, <2>1, <2>2, WireKeep
<1>5. ASSUME NEW n \in Node, Crash(n)
      PROVE  WireSound'
  <2>1. \A k \in Node, t \in Session : wire'[t][k] = wire[t][k] \/ wire'[t][k] = <<>>
    BY <1>5 DEF Crash, Types, RadioTypes
  <2> QED BY <1>1, <2>1, WireKeep
<1>6. ASSUME NEW n \in Node, NEW s \in Session, Handler(n, s)
      PROVE  WireSound'
  <2>1. CASE OpenResolves(n, s) \/ OpenFails(n, s) \/ Reconcile(n, s) \/ RemoteClosed(n, s)
    BY <1>2, <2>1 DEF OpenResolves, OpenFails, Reconcile, RemoteClosed, radio
  <2> QED BY <1>1, <1>3, <1>4, <1>6, <2>1, ReceivePacketWire, SendWire DEF Handler
<1>7. CASE Contacts
  BY <1>2, <1>7 DEF Contacts, PeerObserved, SyncPeerNow, SyncConnect, radio
<1>8. CASE Environment
  <2>1. CASE \E n \in Node : Calm(n)
    BY <1>2, <2>1, CalmKeeps
  <2>2. CASE \E n \in Node : Stop(n)
    BY <1>2, <2>2 DEF Stop
  <2> QED BY <1>4, <1>5, <1>8, <2>1, <2>2 DEF Environment, Calm
<1> QED BY <1>6, <1>7, <1>8 DEF Next, Contacts

-----------------------------------------------------------------------------
(* Where copies come from *)

\* A user writes a packet.
Written == \E p \in Msg :
  /\ copy[Origin[p]][p] = Absent
  /\ copy' = [copy EXCEPT ![Origin[p]][p] = 0]

\* A neighbour's record, within the hop limit, brings what was not there.
Brought == \E n, m \in Node : \E r \in Records :
  /\ r.packet \in Packet /\ copy[n][r.packet] = Absent
  /\ r.hop < HopLimit[r.packet]
  /\ Relayed(copy, m, n, r) \/ Receipted(copy, m, n, r)
  /\ copy' = [copy EXCEPT ![n][r.packet] = r.hop]

LEMMA ReceivePacketBrings ==
  ASSUME Types, LinksSound, WireSound, NEW n \in Node, NEW s \in Session, ReceivePacket(n, s)
  PROVE  UNCHANGED copy \/ Brought
<1> DEFINE r == Head(wire[s][n])
<1>1. Arrives(n, s, "packet") /\ wire[s][n] \in Seq(Records) /\ wire[s][n] # <<>>
  BY DEF ReceivePacket, Arrives, Types, RadioTypes
<1>2. r \in Records /\ r.kind = "packet" /\ OnLink(n, s)
  BY <1>1, ArrivesFacts
<1>3. r.packet \in Packet /\ Peer(n, s) \in Node
  BY <1>2, RecordFields, PeerFacts
<1>4. Relayed(copy, Peer(n, s), n, r) \/ Receipted(copy, Peer(n, s), n, r)
  BY <1>1, <1>2, TailElements DEF WireSound, Sound
<1>5. \/ copy' = [copy EXCEPT ![n][r.packet] = @]
      \/ /\ r.hop < HopLimit[r.packet] /\ copy[n][r.packet] = Absent
         /\ copy' = [copy EXCEPT ![n][r.packet] = r.hop]
  BY DEF ReceivePacket
<1> HIDE DEF r
<1>6. CASE copy' = [copy EXCEPT ![n][r.packet] = @]
  BY <1>6 DEF Types, DeviceTypes
<1> QED BY <1>2, <1>3, <1>4, <1>5, <1>6 DEF Brought

LEMMA NewCopies ==
  ASSUME Types, LinksSound, WireSound, Next
  PROVE  UNCHANGED copy \/ Written \/ Brought
<1>1. ASSUME NEW n \in Node, NEW p \in Msg, Create(n, p) PROVE Written
  BY <1>1 DEF Create, Written
<1>2. CASE \E n \in Node, s \in Session : Handler(n, s)
  BY <1>2, ReceivePacketBrings DEF Handler, OpenResolves, OpenFails, Announce, AbsorbInventory,
     Answer, Send, Reconcile, RemoteClosed, device
<1>3. CASE Contacts
  BY <1>3 DEF Contacts, PeerObserved, SyncPeerNow, SyncConnect, device
<1>4. CASE Environment
  BY <1>1, <1>4 DEF Environment, CoolDown, RefreshAdvertisement, Start, Stop, Crash, OnDisk,
     LoseRecord, BackoffPasses, device
<1> QED BY <1>2, <1>3, <1>4 DEF Next, Contacts

LEMMA ReceiptsStep ==
  ASSUME Types, LinksSound, WireSound, ReceiptsAreTrue, Next
  PROVE  ReceiptsAreTrue'
<1>1. CopiesKept
  BY CopiesStep
<1> SUFFICES ASSUME NEW n \in Node, NEW r \in Receipts, copy'[n][r] # Absent
             PROVE  copy'[r.by][r.about] # Absent
  BY DEF ReceiptsAreTrue
<1>2. r \in Packet /\ r.by \in Node /\ r.about \in Packet
  BY DEF Receipts, Packet
<1>3. SUFFICES copy[r.by][r.about] # Absent
  BY <1>1, <1>2 DEF CopiesKept
<1>4. CASE copy[n][r] # Absent
  BY <1>4 DEF ReceiptsAreTrue
<1>5. CASE copy[n][r] = Absent
  <2>1. CASE UNCHANGED copy
    BY <1>5, <2>1
  <2>2. CASE Written
    <3>1. PICK p \in Msg : copy' = [copy EXCEPT ![Origin[p]][p] = 0]
      BY <2>2 DEF Written
    <3>2. p # r
      BY ReceiptsAreNotMessages
    <3>3. copy'[n][r] = copy[n][r]
      BY <1>2, <3>1, <3>2 DEF Types, DeviceTypes
    <3> QED BY <1>5, <3>3
  <2>3. CASE Brought
    <3>1. PICK k \in Node, m \in Node, rec \in Records :
            /\ rec.packet \in Packet
            /\ Relayed(copy, m, k, rec) \/ Receipted(copy, m, k, rec)
            /\ copy' = [copy EXCEPT ![k][rec.packet] = rec.hop]
      BY <2>3 DEF Brought
    <3>2. k = n /\ rec.packet = r
      BY <1>2, <1>5, <3>1 DEF Types, DeviceTypes
    <3> QED BY <3>1, <3>2 DEF Relayed, Receipted, ReceiptsAreTrue
  <2> QED BY <2>1, <2>2, <2>3, NewCopies
<1> QED BY <1>4, <1>5

-----------------------------------------------------------------------------
(* The inductive invariant, and what follows from it *)

LEMMA InitTypes ==
  ASSUME Init
  PROVE  Types
<1>1. DeviceTypes
  BY DEF Init, DeviceTypes
<1>2. ContactTypes
  <2>1. None \in Epochs /\ None \in Listed
    BY DEF Epochs, Listed
  <2> QED BY <2>1 DEF Init, ContactTypes
<1>3. ExchangeTypes
  BY TaskTypes DEF Init, ExchangeTypes
<1>4. RadioTypes
  <2>1. <<>> \in Seq(Records) /\ Unopened \in Links
    BY DEF Links
  <2> QED BY <2>1 DEF Init, RadioTypes
<1>5. RelayTypes
  BY RelayConstants DEF Init, RelayTypes
<1> QED BY <1>1, <1>2, <1>3, <1>4, <1>5 DEF Types, Init

LEMMA InitIInv ==
  ASSUME Init
  PROVE  IInv
<1>1. Types
  BY InitTypes
<1>2. Idle.at = "idle"
  BY DEF Idle
<1>3. LinksSound
  <2>1. \A n \in Node, s \in Session : ~Busy(n, s)
    BY DEF Init, Busy
  <2>2. \A n \in Node, s \in Session : link[s] = Unopened /\ task[n][s] = Idle
    BY DEF Init
  <2>3. \A n, m \in Node : ~(syncing[n][m] > 0)
    BY DEF Init
  <2>4. \A s \in Session : link[s] = Unopened
    BY DEF Init
  <2> QED BY <1>2, <2>1, <2>2, <2>3, <2>4 DEF LinksSound
<1>4. WireSound
  BY DEF Init, WireSound
<1>5. OffersHeld
  BY <1>2 DEF Init, OffersHeld
<1>6. ReceiptsAreTrue
  <2>1. \A n \in Node, r \in Receipts : copy[n][r] = Absent
    BY RelayConstants, ReceiptsAreNotMessages DEF Init, Packet
  <2> QED BY <2>1 DEF ReceiptsAreTrue
<1> QED BY <1>1, <1>3, <1>4, <1>5, <1>6 DEF IInv

LEMMA IInvStep ==
  ASSUME IInv, [Next]_vars
  PROVE  IInv'
<1>1. CASE Next
  BY <1>1, TypesStep, LinksStep, WireStep, OffersStep, ReceiptsStep DEF IInv
<1>2. CASE UNCHANGED vars
  <2>1. UNCHANGED <<device, contact, exchange, radio, relay, faults>>
    BY <1>2 DEF vars
  <2>2. Types'
    BY <2>1 DEF IInv, Types, DeviceTypes, ContactTypes, ExchangeTypes, RadioTypes, RelayTypes,
       device, contact, exchange, radio, relay
  <2>3. LinksSound'
    BY <2>1 DEF IInv, LinksSound, OnLink, Busy, exchange, radio, relay
  <2>4. WireSound'
    BY <2>1 DEF IInv, WireSound, Peer, device, radio
  <2>5. OffersHeld' /\ ReceiptsAreTrue'
    BY <2>1 DEF IInv, OffersHeld, ReceiptsAreTrue, device, exchange
  <2> QED BY <2>2, <2>3, <2>4, <2>5 DEF IInv
<1> QED BY <1>1, <1>2

LEMMA IInvAlways == Spec => []IInv
<1>1. Init => IInv
  BY InitIInv
<1>2. IInv /\ [Next]_vars => IInv'
  BY IInvStep
<1> QED BY <1>1, <1>2, PTL DEF Spec

\* Every variable of the relay loops keeps its type: no interleaving of handlers on two
\* ends, and no fault, leaves a session, a record or a queue malformed.
THEOREM TypeCorrect == Spec => []TypeOK
<1>1. IInv => TypeOK
  BY TypesAreTypeOK DEF IInv
<1> QED BY <1>1, IInvAlways, PTL

\* A link receipt that any device stores was issued by a device that has the packet, in
\* any network and whatever is lost, reordered or restarted (record-received handler of
\* relay-loop.ts).
THEOREM ReceiptsAlwaysTrue == Spec => []ReceiptsAreTrue
<1>1. IInv => ReceiptsAreTrue
  BY DEF IInv
<1> QED BY <1>1, IInvAlways, PTL

LEMMA InitSpreads ==
  ASSUME Init
  PROVE  Spread!Init
<1>1. copy \in [Node -> [Packet -> {0, Absent}]]
  BY DEF Init
<1>2. ASSUME NEW n \in Node, NEW p \in Packet, copy[n][p] = 0
      PROVE  p \notin Receipts /\ Origin[p] = n
  <2>1. p \in Stored /\ Origin[p] = n
    BY <1>2, RelayConstants DEF Init
  <2> QED BY <2>1, RelayConstants, ReceiptsAreNotMessages
<1> QED BY <1>1, <1>2 DEF Spread!Init

\* What one device writes or receives is one step of the abstract mesh.
LEMMA StepSpreads ==
  ASSUME IInv, Next
  PROVE  [Spread!Next]_copy
<1>1. UNCHANGED copy \/ Written \/ Brought
  BY NewCopies DEF IInv
<1>2. CASE Written
  <2>1. PICK p \in Msg : copy[Origin[p]][p] = Absent /\ copy' = [copy EXCEPT ![Origin[p]][p] = 0]
    BY <1>2 DEF Written
  <2>2. p \in Packet /\ p \notin Receipts
    BY ReceiptsAreNotMessages DEF Packet
  <2>3. Spread!Originate(p)
    BY <2>1, <2>2 DEF Spread!Originate
  <2> QED BY <2>2, <2>3 DEF Spread!Next
<1>3. CASE Brought
  <2>1. PICK n \in Node, m \in Node, r \in Records :
          /\ r.packet \in Packet /\ copy[n][r.packet] = Absent
          /\ r.hop < HopLimit[r.packet]
          /\ Relayed(copy, m, n, r) \/ Receipted(copy, m, n, r)
          /\ copy' = [copy EXCEPT ![n][r.packet] = r.hop]
    BY <1>3 DEF Brought
  <2>2. CASE Relayed(copy, m, n, r)
    <3>1. Spread!Relay(m, n, r.packet)
      BY <2>1, <2>2 DEF Relayed, Spread!Relay
    <3> QED BY <2>1, <3>1 DEF Spread!Next
  <2>3. CASE Receipted(copy, m, n, r)
    <3>1. Spread!Acknowledge(n, r.packet)
      BY <2>1, <2>3 DEF Receipted, Spread!Acknowledge
    <3> QED BY <2>1, <3>1 DEF Spread!Next
  <2> QED BY <2>1, <2>2, <2>3
<1> QED BY <1>1, <1>2, <1>3

\* The relay loops and the adapter implement the abstract mesh: a packet reaches a device
\* only from a neighbour that has it, one hop further and within the hop limit (ingest,
\* planSessionTransfer, the record-received handler).
THEOREM RefinesMeshSpread == Spec => SpreadsByRelay
<1>1. Init => Spread!Init
  BY InitSpreads
<1>2. IInv /\ [Next]_vars => [Spread!Next]_copy
  <2>1. UNCHANGED vars => UNCHANGED copy
    BY DEF vars, device
  <2> QED BY <2>1, StepSpreads
<1> QED BY <1>1, <1>2, IInvAlways, PTL DEF Spec, SpreadsByRelay, Spread!Spec

=============================================================================
