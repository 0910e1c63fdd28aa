----------------------------- MODULE RelayMesh -----------------------------
(***************************************************************************)
(* The relay loops of several devices and the adapter that joins them.     *)
(*                                                                         *)
(* A device hears a neighbour's advertisement and, unless nothing changed  *)
(* since they last reconciled, the one with the lower token opens a        *)
(* session.  It announces its inventory; the other end answers with its    *)
(* own; each end pushes once what the other does not hold; the initiator   *)
(* then closes.  Every step below is the code between two awaits, and both *)
(* ends, both directions of the link and the close notice go their own way.*)
(*                                                                         *)
(* Data is abstracted: a packet is an ID and a hop count.  What happens to *)
(* custody inside one device is PacketCustody's subject; here a packet is  *)
(* accepted in one step, stays, and is offered unless it is cooling down.  *)
(* The hello exchange decides nothing between builds of one version and is *)
(* left out.  A link receipt is a packet like any other: it is stored by   *)
(* the end it is sent to, moves the queue epoch, and is relayed.           *)
(***************************************************************************)
EXTENDS Naturals, Sequences, FiniteSets

CONSTANTS
  Node,          \* rotating tokens, ordered as the strings are
  Link,          \* pairs of nodes in radio range of each other
  Msg,           \* packets written by users
  Origin,        \* who writes which
  Stored,        \* those already on their writer's disk at the start
  Session,       \* session IDs, 1 .. the bound on sessions
  MsgHopLimit, ReceiptHopLimit,
  Window,        \* SESSION.MAX_IN_FLIGHT_RECORDS
  MaxOpen,       \* sessions a node has before it advertises "not accepting"
  MaxInventory,  \* IDs that fit one inventory record
  Absent, Nobody, None,
  FaultKinds,    \* subset of {"lose", "open", "slow", "stop", "crash"}
  MaxFaults,     \* bound on the faults of a behaviour
  MaxSync        \* bound on user-initiated syncPeerNow calls in progress

ASSUME RelayConstants ==
  /\ Node \subseteq Nat
  /\ Link \subseteq {{n, m} : n, m \in Node}
  /\ Origin \in [Msg -> Node] /\ Stored \subseteq Msg
  /\ Session \subseteq Nat
  /\ MsgHopLimit \in Nat /\ ReceiptHopLimit \in Nat /\ Window \in Nat
  /\ MaxOpen \in Nat /\ MaxInventory \in Nat /\ MaxFaults \in Nat /\ MaxSync \in Nat
  /\ Absent \notin Nat /\ Nobody \notin Node

VARIABLES
  copy,           \* packets: hop count of each packet held, or Absent
  knownHolders,   \* custody.knownHolders
  previousHop,    \* previousHopByPacket (memory)
  cooling,        \* packets whose nextEligibleAtMs is ahead
  queueEpoch,     \* queueEpoch (memory)
  running, advert,                 \* the relay, and what it last advertised
  lastReconciled, peerInventories, peerInventoryTruncated, connecting,
  waiting,        \* peers whose nextAttemptAtMs is ahead
  machine,        \* sessions: "live" is in the map, "retired" is over budget
  inFlight, announced, pushed,
  task,           \* the handler that a session's event left awaiting
  syncing,        \* syncPeerNow calls past their check
  link, openSessions, wire, closing,   \* the adapter and the air
  faults

device    == <<copy, knownHolders, previousHop, cooling, queueEpoch>>
contact   == <<lastReconciled, peerInventories, peerInventoryTruncated, connecting, waiting>>
exchange  == <<machine, inFlight, announced, pushed, task>>
radio     == <<link, openSessions, wire, closing>>
relay     == <<running, advert, syncing>>
vars      == <<device, contact, exchange, radio, relay, faults>>

-----------------------------------------------------------------------------
(* Packets, records, sessions *)

\* A receiver makes one receipt per packet and session, and none for receipts.
ReceiptFor(p, n, s) == [about |-> p, by |-> n, in |-> s]
Receipts == [about : Msg, by : Node, in : Session]

\* A packet has one type.
ASSUME ReceiptsAreNotMessages == Msg \cap Receipts = {}

Packet   == Msg \cup Receipts
HopLimit == [p \in Packet |-> IF p \in Msg THEN MsgHopLimit ELSE ReceiptHopLimit]

PacketRecord(p, h) == [kind |-> "packet", packet |-> p, hop |-> h]
InventoryRecord(ids, epoch, truncated) ==
  [kind |-> "inventory", ids |-> ids, epoch |-> epoch, truncated |-> truncated]

Idle       == [at |-> "idle"]
Unopened   == [from |-> Nobody, to |-> Nobody]
Peer(n, s) == IF link[s].from = n THEN link[s].to ELSE link[s].from

\* The entries of the sessions map.
Sessions(n) == {s \in Session : machine[n][s] = "live"}
With(n, m)  == {s \in Sessions(n) : Peer(n, s) = m}

Held(n)      == {p \in Packet : copy[n][p] # Absent}
Offerable(n) == Held(n) \ cooling[n]

Summary(n, epoch) == [epoch |-> epoch, accepting |-> Cardinality(Sessions(n)) < MaxOpen]
Silent            == [epoch |-> 0, accepting |-> FALSE]

\* A record of at most MaxInventory IDs; which ones are cut is left open.
Inventories(n) ==
  LET fits == {ids \in SUBSET Offerable(n) :
                 \/ ids = Offerable(n) /\ Cardinality(ids) <= MaxInventory
                 \/ Cardinality(ids) = MaxInventory}
  IN  {InventoryRecord(ids, queueEpoch[n], ids # Offerable(n)) : ids \in fits}

Put(s, n, record) == [wire EXCEPT ![s][n] = Append(@, record)]

\* What goes out is one hop further than what is held.
OutgoingAsHeld(n, p) == PacketRecord(p, copy[n][p])                 \* mutant
Outgoing(n, p)       == PacketRecord(p, copy[n][p] + 1)

\* SessionStateMachine.recordAcknowledged
AcknowledgedUnclamped(k) == k - 1                                   \* mutant
Acknowledged(k)          == IF k > 0 THEN k - 1 ELSE 0

Fault(kind) == kind \in FaultKinds /\ faults < MaxFaults /\ faults' = faults + 1

-----------------------------------------------------------------------------
(* What becomes of a contact *)

\* recordPeerOutcome: a failure starts the backoff, a success ends it.
Failed(n, m)    == waiting' = [waiting EXCEPT ![n] = @ \cup {m}]
Succeeded(n, m) == waiting' = [waiting EXCEPT ![n] = @ \ {m}]

\* The session-closed handler, and the adapter's own bookkeeping before it.
SessionClosed(n, s) ==
  /\ openSessions' = [openSessions EXCEPT ![n] = @ \ {s}]
  /\ IF running[n]
     THEN /\ machine' = [machine EXCEPT ![n][s] = IF @ = "live" THEN "none" ELSE @]
          /\ peerInventories' = [peerInventories EXCEPT ![n][Peer(n, s)] = None]
          /\ announced' = [announced EXCEPT ![n] = @ \ {s}]
          /\ pushed' = [pushed EXCEPT ![n] = @ \ {s}]
          /\ Succeeded(n, Peer(n, s))
     ELSE UNCHANGED <<machine, peerInventories, announced, pushed, waiting>>

-----------------------------------------------------------------------------
(* Packets written here, and the advertisement *)

\* createLocal, and the refreshAdvertisement that every composer calls after it.
Create(n, p) ==
  /\ Origin[p] = n /\ copy[n][p] = Absent
  /\ copy' = [copy EXCEPT ![n][p] = 0]
  /\ queueEpoch' = [queueEpoch EXCEPT ![n] = @ + 1]
  /\ advert' = [advert EXCEPT ![n] = IF running[n] THEN Summary(n, queueEpoch[n] + 1) ELSE @]
  /\ UNCHANGED <<knownHolders, previousHop, cooling, contact, exchange, radio,
                 running, syncing, faults>>

\* The user pulls to refresh.
RefreshAdvertisement(n) ==
  /\ running[n]
  /\ advert' = [advert EXCEPT ![n] = Summary(n, queueEpoch[n])]
  /\ UNCHANGED <<device, contact, exchange, radio, running, syncing, faults>>

\* nextEligibleAtMs passes.
CoolDown(n, p) ==
  /\ p \in cooling[n]
  /\ cooling' = [cooling EXCEPT ![n] = @ \ {p}]
  /\ UNCHANGED <<copy, knownHolders, previousHop, queueEpoch, contact, exchange, radio,
                 relay, faults>>

Start(n) ==
  /\ ~running[n]
  /\ running' = [running EXCEPT ![n] = TRUE]
  /\ advert' = [advert EXCEPT ![n] = Summary(n, queueEpoch[n])]
  /\ UNCHANGED <<device, contact, exchange, radio, syncing, faults>>

\* Every session of this adapter goes down and the other ends hear of it.
HangUp(n) ==
  /\ openSessions' = [openSessions EXCEPT ![n] = {}]
  /\ closing' = closing \cup {<<s, Peer(n, s)>> : s \in openSessions[n]}
  /\ machine' = [machine EXCEPT ![n] = [s \in Session |-> "none"]]
  /\ connecting' = [connecting EXCEPT ![n] = {}]
  /\ running' = [running EXCEPT ![n] = FALSE]
  /\ advert' = [advert EXCEPT ![n] = Silent]

Opening(n) == {s \in Session : task[n][s].at = "opening"}

\* The listener is gone before the adapter closes, so no handler runs; an open
\* still in flight is rejected.
Stop(n) ==
  /\ Fault("stop") /\ running[n]
  /\ HangUp(n)
  /\ task' = [task EXCEPT ![n] = [s \in Session |-> IF s \in Opening(n) THEN Idle ELSE @[s]]]
  /\ waiting' = [waiting EXCEPT ![n] = @ \cup {Peer(n, s) : s \in Opening(n)}]
  /\ UNCHANGED <<device, lastReconciled, peerInventories, peerInventoryTruncated, inFlight,
                 announced, pushed, link, wire, syncing>>

\* What a process that dies leaves on its disk.
OnDiskUnsynced(n) ==                                                \* mutant
  /\ copy' = [copy EXCEPT ![n] = [p \in Packet |-> Absent]]
  /\ UNCHANGED <<knownHolders, cooling>>
OnDisk(n) == UNCHANGED <<copy, knownHolders, cooling>>

\* The process dies: packets and custody are on disk, everything else is memory.
Crash(n) ==
  /\ Fault("crash")
  /\ HangUp(n)
  /\ previousHop' = [previousHop EXCEPT ![n] = [p \in Packet |-> Nobody]]
  /\ queueEpoch' = [queueEpoch EXCEPT ![n] = 0]
  /\ lastReconciled' = [lastReconciled EXCEPT ![n] = [m \in Node |-> None]]
  /\ peerInventories' = [peerInventories EXCEPT ![n] = [m \in Node |-> None]]
  /\ peerInventoryTruncated' = [peerInventoryTruncated EXCEPT ![n] = {}]
  /\ waiting' = [waiting EXCEPT ![n] = {}]
  /\ inFlight' = [inFlight EXCEPT ![n] = [s \in Session |-> 0]]
  /\ announced' = [announced EXCEPT ![n] = {}]
  /\ pushed' = [pushed EXCEPT ![n] = {}]
  /\ task' = [task EXCEPT ![n] = [s \in Session |-> Idle]]
  /\ syncing' = [syncing EXCEPT ![n] = [m \in Node |-> 0]]
  /\ wire' = [s \in Session |-> [wire[s] EXCEPT ![n] = <<>>]]
  /\ OnDisk(n)
  /\ UNCHANGED link

-----------------------------------------------------------------------------
(* Opening a session *)

\* Neither queue changed since the last reconciliation, as far as n can tell.
NothingChanged(n, m) ==
  /\ lastReconciled[n][m] = [theirs |-> advert[m].epoch, ours |-> queueEpoch[n]]
  /\ m \notin peerInventoryTruncated[n]

\* Nothing of the session is on the air or in a handler.
Quiet(s) == \A n \in Node : wire[s][n] = <<>> /\ task[n][s] = Idle /\ <<s, n>> \notin closing

\* A session that no budget ever ends.                              (mutant)
DropExpiredNever(n, m, over) == over = {} /\ UNCHANGED <<faults, machine, announced, pushed>>

\* hasSessionWith forgets the sessions with m whose idle or duration budget has
\* passed, and only those.  Budgets are long against an exchange: one that is still
\* going on runs out of its budget only on a slow radio.
DropExpired(n, m, over) ==
  /\ over \subseteq With(n, m)
  /\ IF \A s \in over : Quiet(s) THEN UNCHANGED faults ELSE Fault("slow")
  /\ machine' = [machine EXCEPT ![n] = [s \in Session |-> IF s \in over THEN "retired" ELSE @[s]]]
  /\ announced' = [announced EXCEPT ![n] = @ \ over]
  /\ pushed' = [pushed EXCEPT ![n] = @ \ over]

\* connectPeer up to its first await.
StartOpening(n, m) ==
  \E s \in Session :
    /\ link[s] = Unopened /\ \A t \in Session : t < s => link[t] # Unopened
    /\ link' = [link EXCEPT ![s] = [from |-> n, to |-> m]]
    /\ connecting' = [connecting EXCEPT ![n] = @ \cup {m}]
    /\ task' = [task EXCEPT ![n][s] = [at |-> "opening"]]

\* An advertisement of m reaches n.
PeerObserved(n, m, over) ==
  /\ running[n] /\ running[m] /\ {n, m} \in Link
  /\ ~NothingChanged(n, m) /\ m \notin waiting[n] /\ n < m
  /\ DropExpired(n, m, over)
  /\ IF over = With(n, m) /\ m \notin connecting[n] /\ advert[m].accepting
     THEN StartOpening(n, m)
     ELSE UNCHANGED <<link, connecting, task>>
  /\ UNCHANGED <<device, lastReconciled, peerInventories, peerInventoryTruncated, waiting,
                 inFlight, openSessions, wire, closing, relay>>

\* syncPeerNow checks, then awaits the peer record, then connects.
SyncPeerNow(n, m) ==
  /\ running[n] /\ {n, m} \in Link /\ n # m /\ syncing[n][m] < MaxSync
  /\ Cardinality(Sessions(n)) < MaxOpen
  /\ DropExpired(n, m, With(n, m))
  /\ m \notin connecting[n]
  /\ syncing' = [syncing EXCEPT ![n][m] = @ + 1]
  /\ UNCHANGED <<device, contact, inFlight, task, radio, running, advert>>

SyncConnect(n, m) ==
  /\ syncing[n][m] > 0
  /\ syncing' = [syncing EXCEPT ![n][m] = @ - 1]
  /\ StartOpening(n, m)
  /\ UNCHANGED <<device, lastReconciled, peerInventories, peerInventoryTruncated, waiting,
                 machine, inFlight, announced, pushed, openSessions, wire, closing,
                 running, advert, faults>>

\* The link is up at both ends, and the other end learns of it at once.
OpenResolves(n, s) ==
  LET m == link[s].to IN
  /\ task[n][s].at = "opening" /\ running[m]
  /\ task' = [task EXCEPT ![n][s] = [at |-> "announcing"]]
  /\ openSessions' = [openSessions EXCEPT ![n] = @ \cup {s}, ![m] = @ \cup {s}]
  /\ machine' = [machine EXCEPT ![n][s] = "live", ![m][s] = "live"]
  /\ UNCHANGED <<device, contact, inFlight, announced, pushed, link, wire, closing, relay,
                 faults>>

\* The peer is out of reach, or the set-up times out.
OpenFails(n, s) ==
  /\ task[n][s].at = "opening"
  /\ IF running[link[s].to] THEN Fault("open") ELSE UNCHANGED faults
  /\ task' = [task EXCEPT ![n][s] = Idle]
  /\ Failed(n, link[s].to)
  /\ connecting' = [connecting EXCEPT ![n] = @ \ {link[s].to}]
  /\ UNCHANGED <<device, lastReconciled, peerInventories, peerInventoryTruncated, machine,
                 inFlight, announced, pushed, radio, relay>>

\* runSession: the initiator announces its inventory and leaves the rest to events.
Announce(n, s) ==
  /\ task[n][s].at = "announcing"
  /\ announced' = [announced EXCEPT ![n] = @ \cup {s}]
  /\ IF s \in openSessions[n]
     THEN (\E r \in Inventories(n) : wire' = Put(s, Peer(n, s), r)) /\ UNCHANGED waiting
     ELSE Failed(n, Peer(n, s)) /\ UNCHANGED wire
  /\ connecting' = [connecting EXCEPT ![n] = @ \ {Peer(n, s)}]
  /\ task' = [task EXCEPT ![n][s] = Idle]
  /\ UNCHANGED <<device, lastReconciled, peerInventories, peerInventoryTruncated, machine,
                 inFlight, pushed, link, openSessions, closing, relay, faults>>

-----------------------------------------------------------------------------
(* Records arrive *)

\* The adapter takes a record, which also marks the session as open again.
Arrives(n, s, kind) ==
  /\ running[n] /\ wire[s][n] # <<>> /\ Head(wire[s][n]).kind = kind
  /\ openSessions' = [openSessions EXCEPT ![n] = @ \cup {s}]

\* planSessionTransfer: held, not cooling, and not known to be at the peer.
Wanted(n, m, inventory) ==
  {p \in Offerable(n) :
     /\ inventory = None \/ p \notin inventory
     /\ m \notin knownHolders[n][p] /\ previousHop[n][p] # m
     /\ copy[n][p] < HopLimit[p]}

\* Each end pushes at most once per session, and not for one that has left the map.
BeginPush(n, s, inventory, theirs) ==
  IF s \in pushed[n]
  THEN task' = [task EXCEPT ![n][s] = Idle] /\ UNCHANGED pushed
  ELSE /\ task' = [task EXCEPT ![n][s] =
              [at |-> "pushing", theirs |-> theirs,
               offers |-> IF s \in Sessions(n) THEN Wanted(n, Peer(n, s), inventory) ELSE {}]]
       /\ pushed' = [pushed EXCEPT ![n] = @ \cup {s}]

\* absorbInventory up to its first await; the accepting end goes on to answer.
AbsorbInventory(n, s) ==
  LET r == Head(wire[s][n]) IN
  /\ Arrives(n, s, "inventory") /\ task[n][s] = Idle
  /\ wire' = [wire EXCEPT ![s][n] = Tail(@)]
  /\ peerInventories' = [peerInventories EXCEPT ![n][Peer(n, s)] = r.ids]
  /\ peerInventoryTruncated' = [peerInventoryTruncated EXCEPT ![n] =
       IF r.truncated THEN @ \cup {Peer(n, s)} ELSE @ \ {Peer(n, s)}]
  /\ IF s \in announced[n]
     THEN BeginPush(n, s, r.ids, r.epoch) /\ UNCHANGED announced
     ELSE /\ announced' = [announced EXCEPT ![n] = @ \cup {s}]
          /\ task' = [task EXCEPT ![n][s] = [at |-> "answering", theirs |-> r.epoch]]
          /\ UNCHANGED pushed
  /\ UNCHANGED <<device, lastReconciled, connecting, waiting, machine, inFlight, link, closing,
                 relay, faults>>

\* An answer that cannot be sent is reported and the push goes on.
Answer(n, s) ==
  /\ task[n][s].at = "answering"
  /\ IF s \in openSessions[n]
     THEN \E r \in Inventories(n) : wire' = Put(s, Peer(n, s), r)
     ELSE UNCHANGED wire
  /\ BeginPush(n, s, peerInventories[n][Peer(n, s)], task[n][s].theirs)
  /\ UNCHANGED <<device, contact, machine, inFlight, announced, link, openSessions, closing,
                 relay, faults>>

\* ingest (PacketCustody) in one step, then the receipt, then recordAcknowledged,
\* which counts any record of the session as an acknowledgement.  The receipt is best
\* effort: a close notice may come in while ingest runs, and then it is not sent.
ReceivePacket(n, s) ==
  LET r        == Head(wire[s][n])
      m        == Peer(n, s)
      accepted == r.hop < HopLimit[r.packet]
      inserted == accepted /\ copy[n][r.packet] = Absent
  IN
  /\ Arrives(n, s, "packet")
  /\ copy' = [copy EXCEPT ![n][r.packet] = IF inserted THEN r.hop ELSE @]
  /\ queueEpoch' = [queueEpoch EXCEPT ![n] = IF inserted THEN @ + 1 ELSE @]
  /\ previousHop' = [previousHop EXCEPT ![n][r.packet] = IF accepted THEN m ELSE @]
  /\ \/ /\ ~accepted \/ r.packet \notin Msg \/ <<s, n>> \in closing
        /\ wire' = [wire EXCEPT ![s][n] = Tail(@)]
     \/ /\ accepted /\ r.packet \in Msg
        /\ wire' = [wire EXCEPT ![s][n] = Tail(@),
                                ![s][m] = Append(@, PacketRecord(ReceiptFor(r.packet, n, s), 0))]
  /\ inFlight' = [inFlight EXCEPT ![n][s] = IF s \in Sessions(n) THEN Acknowledged(@) ELSE @]
  /\ UNCHANGED <<knownHolders, cooling, contact, machine, announced, pushed, task, link,
                 closing, relay, faults>>

\* A record for a stopped relay is not handled; one on the air may be lost.
LoseRecord(n, s) ==
  /\ wire[s][n] # <<>>
  /\ IF running[n] THEN Fault("lose") ELSE UNCHANGED faults
  /\ wire' = [wire EXCEPT ![s][n] = Tail(@)]
  /\ UNCHANGED <<device, contact, exchange, link, openSessions, closing, relay>>

-----------------------------------------------------------------------------
(* Pushing and closing *)

\* canSend, and an adapter that still has the session.
CanSend(n, s) ==
  machine[n][s] # "retired" /\ inFlight[n][s] < Window /\ s \in openSessions[n]

Send(n, s) ==
  /\ task[n][s].at = "pushing" /\ CanSend(n, s)
  /\ \E p \in task[n][s].offers :
       /\ wire' = Put(s, Peer(n, s), Outgoing(n, p))
       /\ knownHolders' = [knownHolders EXCEPT ![n][p] = @ \cup {Peer(n, s)}]
       /\ cooling' = [cooling EXCEPT ![n] = @ \cup {p}]
       /\ task' = [task EXCEPT ![n][s].offers = @ \ {p}]
  /\ inFlight' = [inFlight EXCEPT ![n][s] = @ + 1]
  /\ UNCHANGED <<copy, previousHop, queueEpoch, contact, machine, announced, pushed, link,
                 openSessions, closing, relay, faults>>

\* The push is over or cut short.  Either way the epochs count as reconciled, and
\* the initiator closes if its session is still in the map.
Reconcile(n, s) ==
  LET m == Peer(n, s) IN
  /\ task[n][s].at = "pushing"
  /\ task[n][s].offers = {} \/ ~CanSend(n, s)
  /\ lastReconciled' = [lastReconciled EXCEPT ![n][m] =
                          [theirs |-> task[n][s].theirs, ours |-> queueEpoch[n]]]
  /\ task' = [task EXCEPT ![n][s] = Idle]
  /\ IF link[s].from = n /\ s \in Sessions(n) /\ s \in openSessions[n]
     THEN SessionClosed(n, s) /\ closing' = closing \cup {<<s, m>>}
     ELSE UNCHANGED <<openSessions, machine, peerInventories, announced, pushed, waiting, closing>>
  /\ UNCHANGED <<device, peerInventoryTruncated, connecting, inFlight, link, wire, relay, faults>>

\* The other end closed; the notice may overtake records and handlers.
RemoteClosed(n, s) ==
  /\ <<s, n>> \in closing
  /\ closing' = closing \ {<<s, n>>}
  /\ IF s \in openSessions[n]
     THEN SessionClosed(n, s)
     ELSE UNCHANGED <<openSessions, machine, peerInventories, announced, pushed, waiting>>
  /\ UNCHANGED <<device, lastReconciled, peerInventoryTruncated, connecting, inFlight, task,
                 link, wire, relay, faults>>

BackoffPasses(n, m) ==
  /\ m \in waiting[n]
  /\ waiting' = [waiting EXCEPT ![n] = @ \ {m}]
  /\ UNCHANGED <<device, lastReconciled, peerInventories, peerInventoryTruncated, connecting,
                 exchange, radio, relay, faults>>

-----------------------------------------------------------------------------
Init ==
  /\ copy = [n \in Node |-> [p \in Packet |->
                IF p \in Stored THEN IF Origin[p] = n THEN 0 ELSE Absent ELSE Absent]]
  /\ knownHolders = [n \in Node |-> [p \in Packet |-> {}]]
  /\ previousHop = [n \in Node |-> [p \in Packet |-> Nobody]]
  /\ cooling = [n \in Node |-> {}]
  /\ queueEpoch = [n \in Node |-> 0]
  /\ running = [n \in Node |-> TRUE]
  /\ advert = [n \in Node |-> [epoch |-> 0, accepting |-> 0 < MaxOpen]]
  /\ lastReconciled = [n \in Node |-> [m \in Node |-> None]]
  /\ peerInventories = [n \in Node |-> [m \in Node |-> None]]
  /\ peerInventoryTruncated = [n \in Node |-> {}]
  /\ connecting = [n \in Node |-> {}]
  /\ waiting = [n \in Node |-> {}]
  /\ machine = [n \in Node |-> [s \in Session |-> "none"]]
  /\ inFlight = [n \in Node |-> [s \in Session |-> 0]]
  /\ announced = [n \in Node |-> {}]
  /\ pushed = [n \in Node |-> {}]
  /\ task = [n \in Node |-> [s \in Session |-> Idle]]
  /\ syncing = [n \in Node |-> [m \in Node |-> 0]]
  /\ link = [s \in Session |-> Unopened]
  /\ openSessions = [n \in Node |-> {}]
  /\ wire = [s \in Session |-> [n \in Node |-> <<>>]]
  /\ closing = {}
  /\ faults = 0

\* What an event loop does next with a session: none of it waits for anyone else.
Handler(n, s) ==
  \/ OpenResolves(n, s) \/ OpenFails(n, s) \/ Announce(n, s)
  \/ AbsorbInventory(n, s) \/ Answer(n, s) \/ ReceivePacket(n, s)
  \/ Send(n, s) \/ Reconcile(n, s) \/ RemoteClosed(n, s)

Environment ==
  \/ \E n \in Node, p \in Msg : Create(n, p)
  \/ \E n \in Node, p \in Packet : CoolDown(n, p)
  \/ \E n \in Node : RefreshAdvertisement(n) \/ Start(n) \/ Stop(n) \/ Crash(n)
  \/ \E n \in Node, s \in Session : LoseRecord(n, s)
  \/ \E n, m \in Node : BackoffPasses(n, m)

Next ==
  \/ \E n \in Node, s \in Session : Handler(n, s)
  \/ \E n, m \in Node : \E over \in SUBSET With(n, m) : PeerObserved(n, m, over)
  \/ \E n, m \in Node : SyncPeerNow(n, m) \/ SyncConnect(n, m)
  \/ Environment

Spec == Init /\ [][Next]_vars

\* Promises settle, records and close notices arrive, neighbours re-advertise, and
\* time passes.  Users, faults and a second attempt to open are owed nothing.
Fairness ==
  /\ \A n \in Node, s \in Session :
       /\ WF_vars(Handler(n, s))
       /\ WF_vars(~running[n] /\ LoseRecord(n, s))
  /\ \A n, m \in Node :
       /\ WF_vars(PeerObserved(n, m, {})) /\ WF_vars(PeerObserved(n, m, With(n, m)))
       /\ WF_vars(SyncConnect(n, m)) /\ WF_vars(BackoffPasses(n, m))
  /\ \A n \in Node, p \in Packet : WF_vars(CoolDown(n, p))

FairSpec == Spec /\ Fairness

-----------------------------------------------------------------------------
(* Properties *)

PacketRecords    == [kind : {"packet"}, packet : Packet, hop : Nat]
InventoryRecords == [kind : {"inventory"}, ids : SUBSET Packet, epoch : Nat, truncated : BOOLEAN]
Tasks ==
  [at : {"idle", "opening", "announcing"}] \cup [at : {"answering"}, theirs : Nat]
    \cup [at : {"pushing"}, theirs : Nat, offers : SUBSET Packet]

\* Every variable keeps its type.
TypeOK ==
  /\ copy \in [Node -> [Packet -> Nat \cup {Absent}]]
  /\ knownHolders \in [Node -> [Packet -> SUBSET Node]]
  /\ previousHop \in [Node -> [Packet -> Node \cup {Nobody}]]
  /\ cooling \in [Node -> SUBSET Packet]
  /\ queueEpoch \in [Node -> Nat]
  /\ running \in [Node -> BOOLEAN]
  /\ advert \in [Node -> [epoch : Nat, accepting : BOOLEAN]]
  /\ lastReconciled \in [Node -> [Node -> [theirs : Nat, ours : Nat] \cup {None}]]
  /\ peerInventories \in [Node -> [Node -> (SUBSET Packet) \cup {None}]]
  /\ peerInventoryTruncated \in [Node -> SUBSET Node]
  /\ connecting \in [Node -> SUBSET Node]
  /\ waiting \in [Node -> SUBSET Node]
  /\ machine \in [Node -> [Session -> {"none", "live", "retired"}]]
  /\ inFlight \in [Node -> [Session -> Nat]]
  /\ announced \in [Node -> SUBSET Session] /\ pushed \in [Node -> SUBSET Session]
  /\ task \in [Node -> [Session -> Tasks]]
  /\ syncing \in [Node -> [Node -> Nat]]
  /\ link \in [Session -> [from : Node, to : Node] \cup {Unopened}]
  /\ openSessions \in [Node -> SUBSET Session]
  /\ wire \in [Session -> [Node -> Seq(PacketRecords \cup InventoryRecords)]]
  /\ closing \subseteq Session \X Node
  /\ faults \in Nat

\* The mesh keeps the promise of MeshSpread: hop counts count relays, nobody has a
\* packet that no neighbour could have given it, and no receipt is forged by the order
\* of events (pushOffers, ingest, the receipt of the record-received handler).
Spread == INSTANCE MeshSpread
            WITH reach <- copy, Receipt <- Receipts,
                 About <- [r \in Receipts |-> r.about], By <- [r \in Receipts |-> r.by]
SpreadsByRelay == Spread!Spec

\* A link receipt means that another phone stored a copy: wherever a receipt is stored,
\* the node that issued it has the packet (relay-loop.ts, record-received handler).
ReceiptsAreTrue ==
  \A n \in Node, r \in Receipts : copy[n][r] # Absent => copy[r.by][r.about] # Absent

\* Whatever the lower-token end of a link has is sent to the other end in the end, or is
\* there already, although records, sessions and attempts to open are lost on the way
\* (backoff, hasSessionWith, the push in absorbInventory).
OfferedInTheEnd ==
  \A n, m \in Node, p \in Stored :
    ({n, m} \in Link /\ n < m /\ copy[n][p] # Absent)
      ~> (m \in knownHolders[n][p] \/ copy[m][p] # Absent)
=============================================================================
