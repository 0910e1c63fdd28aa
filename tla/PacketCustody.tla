---------------------------- MODULE PacketCustody ----------------------------
(***************************************************************************)
(* One device's packet log, seen-ID index and custody records, and every   *)
(* asynchronous activity of the node engine that reads or writes them:     *)
(*                                                                         *)
(*   - handlers: one per record that arrives (or is created locally), i.e. *)
(*     NodeEngine.ingest from the digest lookup to the applied actions;    *)
(*   - sessions: one push per relay session, RelayLoop.pushOffers with     *)
(*     NodeEngine.planSessionTransfer and recordTransfer;                  *)
(*   - the gateway uploader, GatewaySynchronizer.uploadBatch;              *)
(*   - housekeeping (maintain -> evictExpired) and process death.          *)
(*                                                                         *)
(* JavaScript runs each of them up to its next `await`, so a step below is *)
(* the code between two awaits of the SQLite repository (or of the link),  *)
(* and what an activity read before an await it carries in its own record  *)
(* (handler, session, gateway).  The repository is the phone's, on SQLite. *)
(*                                                                         *)
(* Time is a small clock, in the seconds of the demo epoch that packets    *)
(* and retention use; the same moment on the Unix clock is DemoEpoch later *)
(* and the code passes now one, now the other.  One unit is at least one   *)
(* retry cooldown, much longer than an ingest, so the clock waits for      *)
(* handlers in flight.                                                     *)
(***************************************************************************)
EXTENDS Naturals, FiniteSets

CONSTANTS
  Packet,            \* packet IDs
  Body, NoBody,      \* payload digests, and the absence of one
  Peer, NoPeer,      \* rotating tokens of the neighbours
  NoPacket,
  Handler,           \* ingest calls
  Session,           \* relay sessions in which this node pushes
  PeerOf,            \* the neighbour at the other end of a session
  Priority,          \* header.priority, 0 is the most urgent
  CopyBudget,        \* onward copies this node may make (CLASS_BUDGETS)
  Cooldown,          \* retryCooldownS, in clock units
  Retention,         \* policy.retentionS, in clock units
  ExpiresAt,         \* header.expiresAt
  SeenRetention,     \* SEEN_ID_RETENTION_S
  Own,               \* packets whose source is this device
  Relayable,         \* policy.relay # 'never'
  Uploadable,        \* policy.upload # 'never' and not backend-sourced
  DemoEpoch,         \* DEMO_EPOCH_MS: Unix time of the demo epoch's zero
  MaxStoredPackets, MaxUploadBatch,
  MaxTime            \* bound on the clock

ASSUME CustodyConstants ==
  /\ IsFiniteSet(Packet)
  /\ NoBody \notin Body /\ NoPeer \notin Peer /\ NoPacket \notin Packet
  /\ PeerOf \in [Session -> Peer]
  /\ Priority \in [Packet -> 0..7]
  /\ CopyBudget \in [Packet -> Nat] /\ Cooldown \in [Packet -> Nat]
  /\ Retention \in [Packet -> Nat] /\ ExpiresAt \in [Packet -> Nat]
  /\ SeenRetention \in Nat /\ DemoEpoch \in Nat
  /\ Own \subseteq Packet /\ Relayable \subseteq Packet /\ Uploadable \subseteq Packet
  /\ MaxStoredPackets \in Nat /\ MaxUploadBatch \in Nat /\ MaxTime \in Nat

\* Every packet the builders make lives at most 6 h (CLASS_BUDGETS.ttlS); a
\* seen ID is kept for 12 h.
ASSUME SeenOutlivesPackets == \A p \in Packet : ExpiresAt[p] <= SeenRetention

\* The demo epoch begins in 2025 and no retention is that long.
ASSUME EpochsFarApart == \A p \in Packet : Retention[p] <= DemoEpoch

QueueFullCutoff == 2   \* validator gate 15: admitted to a full queue up to here

VARIABLES
  now,
  seen,      \* seen_packets: digest per known packet ID
  seenAt,    \* when: seen_packets.seen_at_ms and packets.stored_at_ms, which
             \* hold Unix time, DemoEpoch later
  held,      \* IDs with a row in packets
  custody,   \* packets.custody_json
  retainTo,  \* packets.retention_until_s
  applied,   \* times the packet's map/incident/file action ran on live state
  prevHop,   \* previousHopByPacket
  handler, session, gateway,
  sentTo,    \* history: peers a copy has been written to
  backend    \* packets the backend accepted or already had

store  == <<seen, seenAt, held, custody, retainTo>>
vars   == <<now, store, applied, prevHop, handler, session, gateway, sentTo, backend>>

-----------------------------------------------------------------------------
(* Custody records *)

CustodyRecord ==
  [state : {"created-locally", "stored", "sent"}, remaining : Nat, copies : Nat,
   eligibleAt : Nat, holders : SUBSET Peer,
   upload : {"not-eligible", "queued", "uploaded"}]

\* Mutant: the policy's word is stored as the upload state.
NewCustodyRawUpload(p) ==
  [state |-> "stored", remaining |-> CopyBudget[p], copies |-> 0, eligibleAt |-> 0,
   holders |-> {}, upload |-> IF p \in Uploadable THEN "queued" ELSE "never"]

NewCustody(p) ==
  [state |-> IF p \in Own THEN "created-locally" ELSE "stored",
   remaining |-> IF p \in Relayable THEN CopyBudget[p] ELSE 0,
   copies |-> 0, eligibleAt |-> 0, holders |-> {},
   upload |-> IF p \in Uploadable THEN "queued" ELSE "not-eligible"]

\* What custody holds where there is no row, and a read that has not happened.
NoCustody ==
  [state |-> "stored", remaining |-> 0, copies |-> 0, eligibleAt |-> 0,
   holders |-> {}, upload |-> "not-eligible"]

AfterTransfer(c, p, peer) ==
  [c EXCEPT !.state = "sent", !.copies = c.copies + 1,
            !.remaining = IF c.remaining = 0 THEN 0 ELSE c.remaining - 1,
            !.eligibleAt = now + Cooldown[p],
            !.holders = c.holders \cup {peer}]

RelayableNow == {p \in held : custody[p].remaining > 0 /\ custody[p].eligibleAt <= now}

-----------------------------------------------------------------------------
(* Deleting rows: the seen ID stays unless it has aged out as well. *)

Delete(gone) ==
  /\ held' = held \ gone
  /\ custody' = [p \in Packet |-> IF p \in gone THEN NoCustody ELSE custody[p]]
  /\ retainTo' = [p \in Packet |-> IF p \in gone THEN 0 ELSE retainTo[p]]

\* evictExpired compares both columns with the one clock it is given.
Expired(clock) == {p \in held : retainTo[p] <= clock}

\* Mutant: an evicted packet's ID is pruned with it.
ForgottenAtOnce(left, clock) == {p \in Packet \ left : seen[p] # NoBody}

\* seen_at older than the retention, and no packet row left.
Forgotten(left, clock) ==
  {p \in Packet \ left : seen[p] # NoBody /\ seenAt[p] + DemoEpoch + SeenRetention < clock}

Forget(ids) ==
  /\ seen' = [p \in Packet |-> IF p \in ids THEN NoBody ELSE seen[p]]
  /\ seenAt' = [p \in Packet |-> IF p \in ids THEN 0 ELSE seenAt[p]]

EvictExpired(clock) ==
  /\ Delete(Expired(clock))
  /\ Forget(Forgotten(held \ Expired(clock), clock))

-----------------------------------------------------------------------------
(* Ingest *)

Resting == [pc |-> "idle", packet |-> NoPacket, body |-> NoBody, from |-> NoPeer]
Finished == [Resting EXCEPT !.pc = "done"]

InFlight ==
  [pc : {"lookup", "room", "commit", "apply"},
   packet : Packet, body : Body, from : Peer \cup {NoPeer}]

HandlerRecord == {Resting, Finished} \cup InFlight

Goto(h, pc) == handler' = [handler EXCEPT ![h].pc = pc]
Finish(h)   == handler' = [handler EXCEPT ![h] = Finished]

\* A record arrives from a peer, or is created locally (NoPeer), and passes
\* the validator: no conflicting digest known, not expired, room in the queue.
\* A record that fails a gate changes nothing and is not represented.
Validate(h, p, b, peer) ==
  /\ handler[h].pc = "idle"
  /\ peer = NoPeer \/ p \notin Own \/ seen[p] # NoBody   \* a peer has it from here
  /\ seen[p] \in {NoBody, b}
  /\ now < ExpiresAt[p]
  /\ ~(Cardinality(held) >= MaxStoredPackets /\ Priority[p] > QueueFullCutoff)
  /\ handler' = [handler EXCEPT ![h] = [pc |-> "lookup", packet |-> p, body |-> b, from |-> peer]]
  /\ UNCHANGED <<now, store, applied, prevHop, session, gateway, sentTo, backend>>

RememberHop(h) ==
  LET r == handler[h] IN
  prevHop' = IF r.from = NoPeer THEN prevHop ELSE [prevHop EXCEPT ![r.packet] = r.from]

\* insert() looks the ID up again: another handler may have stored it since.
Lookup(h) ==
  LET r == handler[h] IN
  /\ r.pc = "lookup"
  /\ \/ seen[r.packet] = NoBody /\ Goto(h, "room") /\ UNCHANGED prevHop
     \/ seen[r.packet] = r.body /\ Finish(h) /\ RememberHop(h)      \* duplicate
     \/ seen[r.packet] \notin {NoBody, r.body} /\ Finish(h) /\ UNCHANGED prevHop  \* conflict
  /\ UNCHANGED <<now, store, applied, session, gateway, sentTo, backend>>

\* At capacity insert() evicts on the Unix clock.  Retention is on the demo
\* clock, so that leaves no row, and evictOne, which is for a log still at
\* capacity after it, has nothing to choose from.
MakeRoom(h) ==
  /\ handler[h].pc = "room"
  /\ \/ Cardinality(held) < MaxStoredPackets /\ UNCHANGED store
     \/ Cardinality(held) >= MaxStoredPackets /\ EvictExpired(now + DemoEpoch)
  /\ Goto(h, "commit")
  /\ UNCHANGED <<now, applied, prevHop, session, gateway, sentTo, backend>>

\* Mutant: INSERT OR REPLACE in place of INSERT.
CommitOverwriting(h) ==
  LET r == handler[h]  p == r.packet IN
  /\ r.pc = "commit"
  /\ seen' = [seen EXCEPT ![p] = r.body] /\ seenAt' = [seenAt EXCEPT ![p] = now]
  /\ held' = held \cup {p} /\ custody' = [custody EXCEPT ![p] = NewCustody(p)]
  /\ retainTo' = [retainTo EXCEPT ![p] = now + Retention[p]]
  /\ Goto(h, "apply")
  /\ UNCHANGED <<now, applied, prevHop, session, gateway, sentTo, backend>>

\* The transaction.  seen_packets.packet_id is a primary key: if the ID was
\* stored meanwhile the insert throws and nothing of it remains.
Commit(h) ==
  LET r == handler[h]  p == r.packet IN
  /\ r.pc = "commit"
  /\ \/ /\ seen[p] = NoBody
        /\ seen' = [seen EXCEPT ![p] = r.body]
        /\ seenAt' = [seenAt EXCEPT ![p] = now]
        /\ held' = held \cup {p}
        /\ custody' = [custody EXCEPT ![p] = NewCustody(p)]
        /\ retainTo' = [retainTo EXCEPT ![p] = now + Retention[p]]
        /\ Goto(h, "apply")
     \/ seen[p] # NoBody /\ Finish(h) /\ UNCHANGED store
  /\ UNCHANGED <<now, applied, prevHop, session, gateway, sentTo, backend>>

\* After 'inserted': previous hop, then the file, map and incident actions.
Apply(h) ==
  /\ handler[h].pc = "apply"
  /\ applied' = [applied EXCEPT ![handler[h].packet] = @ + 1]
  /\ RememberHop(h)
  /\ Finish(h)
  /\ UNCHANGED <<now, store, session, gateway, sentTo, backend>>

-----------------------------------------------------------------------------
(* Pushing to a peer *)

PushRecord ==
  [pc : {"idle", "pushing", "sent", "read", "done"}, offers : SUBSET Packet,
   packet : Packet \cup {NoPacket}, read : CustodyRecord]

NoPush == [pc |-> "idle", offers |-> {}, packet |-> NoPacket, read |-> NoCustody]
PushOver == [NoPush EXCEPT !.pc = "done"]

\* forwardingUtility's gates; inventory is what the peer said it holds.
Wanted(p, peer, inventory) ==
  /\ p \notin inventory
  /\ peer \notin custody[p].holders
  /\ prevHop[p] # peer

\* pushOffers takes its plan ONCE, from one listRelayable snapshot.
Plan(s, inventory) ==
  /\ session[s].pc = "idle"
  /\ session' = [session EXCEPT ![s] =
       [NoPush EXCEPT !.pc = "pushing",
                      !.offers = {p \in RelayableNow : Wanted(p, PeerOf[s], inventory)}]]
  /\ UNCHANGED <<now, store, applied, prevHop, handler, gateway, sentTo, backend>>

\* Most urgent offer next; one whose row is gone is skipped.
NextOffer(s, p) ==
  p \in session[s].offers /\ \A q \in session[s].offers : Priority[p] <= Priority[q]

\* Mutant: a send that threw is accounted like one that succeeded.
SendIgnoringFailure(s, p) ==
  /\ session[s].pc = "pushing" /\ NextOffer(s, p) /\ p \in held
  /\ session' = [session EXCEPT ![s].pc = "sent", ![s].packet = p, ![s].offers = @ \ {p}]
  /\ sentTo' \in {sentTo, [sentTo EXCEPT ![p] = @ \cup {PeerOf[s]}]}
  /\ UNCHANGED <<now, store, applied, prevHop, handler, gateway, backend>>

Send(s, p) ==
  /\ session[s].pc = "pushing" /\ NextOffer(s, p)
  /\ \/ /\ p \in held
        /\ session' = [session EXCEPT ![s].pc = "sent", ![s].packet = p, ![s].offers = @ \ {p}]
        /\ sentTo' = [sentTo EXCEPT ![p] = @ \cup {PeerOf[s]}]
     \/ /\ p \notin held
        /\ session' = [session EXCEPT ![s].offers = @ \ {p}]
        /\ UNCHANGED sentTo
  /\ UNCHANGED <<now, store, applied, prevHop, handler, gateway, backend>>

\* recordTransfer, first half: getCustody.
ReadCustody(s) ==
  LET p == session[s].packet IN
  /\ session[s].pc = "sent"
  /\ session' = IF p \in held
                THEN [session EXCEPT ![s].pc = "read", ![s].read = custody[p]]
                ELSE [session EXCEPT ![s].pc = "pushing", ![s].packet = NoPacket]
  /\ UNCHANGED <<now, store, applied, prevHop, handler, gateway, sentTo, backend>>

\* Second half: updateCustody(afterTransfer(<the record read before>)); an
\* UPDATE of a row that has gone touches nothing.
WriteCustody(s) ==
  LET p == session[s].packet IN
  /\ session[s].pc = "read"
  /\ custody' = IF p \in held
                THEN [custody EXCEPT ![p] = AfterTransfer(session[s].read, p, PeerOf[s])]
                ELSE custody
  /\ session' = [session EXCEPT ![s] = [NoPush EXCEPT !.pc = "pushing", !.offers = session[s].offers]]
  /\ UNCHANGED <<now, seen, seenAt, held, retainTo, applied, prevHop, handler, gateway, sentTo, backend>>

\* Nothing left, the flow-control window is shut, or the send failed.
EndPush(s) ==
  /\ session[s].pc = "pushing"
  /\ session' = [session EXCEPT ![s] = PushOver]
  /\ UNCHANGED <<now, store, applied, prevHop, handler, gateway, sentTo, backend>>

-----------------------------------------------------------------------------
(* Uploading *)

UploadRecord ==
  [pc : {"idle", "posting", "marking", "read"}, batch : SUBSET Packet,
   packet : Packet \cup {NoPacket}, read : CustodyRecord]

NoUpload == [pc |-> "idle", batch |-> {}, packet |-> NoPacket, read |-> NoCustody]

Queued == {p \in held : custody[p].upload = "queued"}

\* listUploadQueue(limit): SQLite returns the oldest rows, stored_at order.
UploadBatch(batch) ==
  /\ batch \subseteq Queued
  /\ Cardinality(batch) <= MaxUploadBatch
  /\ batch # Queued => Cardinality(batch) = MaxUploadBatch
  /\ \A p \in batch, q \in Queued \ batch : seenAt[p] <= seenAt[q]

ListUploads(batch) ==
  /\ gateway.pc = "idle"
  /\ batch # {} /\ UploadBatch(batch)
  /\ gateway' = [gateway EXCEPT !.pc = "posting", !.batch = batch]
  /\ UNCHANGED <<now, store, applied, prevHop, handler, session, sentTo, backend>>

\* Mutant: every item of an answered batch is marked, whatever its outcome.
PostMarkingAll(taken, answered) ==
  /\ gateway.pc = "posting" /\ taken \subseteq gateway.batch
  /\ backend' = backend \cup taken
  /\ gateway' = IF answered THEN [gateway EXCEPT !.pc = "marking"] ELSE NoUpload
  /\ UNCHANGED <<now, store, applied, prevHop, handler, session, sentTo>>

\* The backend accepts some items (the rest it finds invalid), and its answer
\* arrives or is lost; a lost answer throws out of uploadBatch.
Post(taken, answered) ==
  /\ gateway.pc = "posting"
  /\ taken \subseteq gateway.batch
  /\ backend' = backend \cup taken
  /\ gateway' = IF answered /\ taken # {}
                THEN [gateway EXCEPT !.pc = "marking", !.batch = taken]
                ELSE NoUpload
  /\ UNCHANGED <<now, store, applied, prevHop, handler, session, sentTo>>

ReadForUpload(p) ==
  /\ gateway.pc = "marking" /\ p \in gateway.batch
  /\ gateway' = IF p \in held
                THEN [gateway EXCEPT !.pc = "read", !.packet = p, !.read = custody[p]]
                ELSE IF gateway.batch = {p} THEN NoUpload
                ELSE [gateway EXCEPT !.batch = @ \ {p}]
  /\ UNCHANGED <<now, store, applied, prevHop, handler, session, sentTo, backend>>

MarkUploaded ==
  LET p == gateway.packet  rest == gateway.batch \ {p} IN
  /\ gateway.pc = "read"
  /\ custody' = IF p \in held
                THEN [custody EXCEPT ![p] = [gateway.read EXCEPT !.upload = "uploaded"]]
                ELSE custody
  /\ gateway' = IF rest = {} THEN NoUpload ELSE [NoUpload EXCEPT !.pc = "marking", !.batch = rest]
  /\ UNCHANGED <<now, seen, seenAt, held, retainTo, applied, prevHop, handler, session, sentTo, backend>>

-----------------------------------------------------------------------------
(* Housekeeping, time, and process death *)

\* Housekeeping evicts on the demo clock, and so prunes no seen ID.
Maintain ==
  /\ EvictExpired(now)
  /\ UNCHANGED <<now, applied, prevHop, handler, session, gateway, sentTo, backend>>

Tick ==
  /\ now < MaxTime
  /\ \A h \in Handler : handler[h].pc \in {"idle", "done"}
  /\ now' = now + 1
  /\ UNCHANGED <<store, applied, prevHop, handler, session, gateway, sentTo, backend>>

\* The process dies; the next one replays the packet log into empty state
\* (rebuildMapFromStoredPackets).  The database survives.
Restart ==
  /\ handler' = [h \in Handler |-> IF handler[h].pc = "idle" THEN Resting ELSE Finished]
  /\ session' = [s \in Session |-> IF session[s].pc = "idle" THEN NoPush ELSE PushOver]
  /\ gateway' = NoUpload
  /\ prevHop' = [p \in Packet |-> NoPeer]
  /\ applied' = [p \in Packet |-> IF p \in held THEN 1 ELSE 0]
  /\ UNCHANGED <<now, store, sentTo, backend>>

Init ==
  /\ now = 0
  /\ seen = [p \in Packet |-> NoBody] /\ seenAt = [p \in Packet |-> 0]
  /\ held = {} /\ retainTo = [p \in Packet |-> 0]
  /\ custody = [p \in Packet |-> NoCustody]
  /\ applied = [p \in Packet |-> 0] /\ prevHop = [p \in Packet |-> NoPeer]
  /\ handler = [h \in Handler |-> Resting] /\ session = [s \in Session |-> NoPush]
  /\ gateway = NoUpload
  /\ sentTo = [p \in Packet |-> {}] /\ backend = {}

Ingest(h) ==
  \/ \E p \in Packet, b \in Body, peer \in Peer \cup {NoPeer} : Validate(h, p, b, peer)
  \/ Lookup(h) \/ MakeRoom(h) \/ Commit(h) \/ Apply(h)

Push(s) ==
  \/ \E inventory \in SUBSET Packet : Plan(s, inventory)
  \/ \E p \in Packet : Send(s, p)
  \/ ReadCustody(s) \/ WriteCustody(s) \/ EndPush(s)

Upload ==
  \/ \E batch \in SUBSET Packet : ListUploads(batch)
  \/ \E taken \in SUBSET Packet, answered \in BOOLEAN : Post(taken, answered)
  \/ \E p \in Packet : ReadForUpload(p)
  \/ MarkUploaded

Next ==
  \/ \E h \in Handler : Ingest(h)
  \/ \E s \in Session : Push(s)
  \/ Upload
  \/ Maintain \/ Tick \/ Restart

Spec == Init /\ [][Next]_vars

-----------------------------------------------------------------------------
(* Properties *)

\* Every variable keeps its type; in particular no activity writes back a record with
\* a value the repository does not know (newCustody maps the policy's words).
TypeOK ==
  /\ now \in 0..MaxTime
  /\ seen \in [Packet -> Body \cup {NoBody}] /\ seenAt \in [Packet -> Nat]
  /\ held \in SUBSET Packet /\ retainTo \in [Packet -> Nat]
  /\ custody \in [Packet -> CustodyRecord]
  /\ applied \in [Packet -> Nat] /\ prevHop \in [Packet -> Peer \cup {NoPeer}]
  /\ handler \in [Handler -> HandlerRecord]
  /\ session \in [Session -> PushRecord]
  /\ gateway \in UploadRecord
  /\ sentTo \in [Packet -> SUBSET Peer] /\ backend \in SUBSET Packet

\* The copies left after some number of them, had every one been counted.
Left(p, copies) ==
  IF p \in Relayable /\ copies < CopyBudget[p] THEN CopyBudget[p] - copies ELSE 0

\* The two copy counters of a custody record never disagree, although the
\* record is read, kept across awaits and written back whole by sessions and by
\* the gateway (recordTransfer, uploadBatch), and afterTransfer clamps at zero.
CountersAgree == \A p \in held : custody[p].remaining = Left(p, custody[p].copies)

\* A peer is listed as a holder, and so is never offered the packet again, only
\* if a copy was written to it: no lost update may invent a holder.
HoldersWereSent == \A p \in held : custody[p].holders \subseteq sentTo[p]

\* A packet leaves the upload queue only when the backend took it or had it,
\* whatever stale record was written back in between.
UploadedIsDelivered == \A p \in held : custody[p].upload = "uploaded" => p \in backend

\* Every stored packet has run its actions once in the live state, or its
\* handler is about to run them; none runs twice, for all the copies that
\* arrive together, evictions, aged seen IDs and restarts (REL-006).
AppliedOnce ==
  \A p \in Packet :
    /\ applied[p] <= 1
    /\ p \in held => applied[p] = 1 \/ \E h \in Handler : handler[h].pc = "apply" /\ handler[h].packet = p

DigestKept ==
  \A p \in Packet : seen[p] # NoBody /\ seen'[p] # seen[p] =>
    seen'[p] = NoBody /\ now > ExpiresAt[p]

\* The first digest stored under an ID stands: concurrent copies with another
\* digest never replace it, and it is forgotten only once the packet is dead.
FirstDigestStands == [][DigestKept]_vars

\* What the three custody invariants say of one record.
Sound(p, c) ==
  /\ c.remaining = Left(p, c.copies)
  /\ c.holders \subseteq sentTo[p]
  /\ c.upload = "uploaded" => p \in backend

\* Inductive: every record is sound, the copies read before an await included,
\* and what a session or the uploader is about to add to one is true.
RecordsSound ==
  /\ \A p \in held : Sound(p, custody[p])
  /\ \A s \in Session :
       /\ session[s].pc \in {"sent", "read"} =>
            session[s].packet \in Packet /\ PeerOf[s] \in sentTo[session[s].packet]
       /\ session[s].pc = "read" => Sound(session[s].packet, session[s].read)
  /\ gateway.pc \in {"marking", "read"} => gateway.batch \subseteq backend
  /\ gateway.pc = "read" =>
       gateway.packet \in gateway.batch /\ Sound(gateway.packet, gateway.read)

\* Inductive: an ingest in flight is of a packet still alive, so its seen ID
\* cannot age out under it, and an ID forgotten after it was applied is dead.
IngestsSound ==
  /\ \A p \in Packet :
       /\ p \in held => seen[p] # NoBody
       /\ applied[p] <= 1
       /\ applied[p] # 0 /\ seen[p] = NoBody => now >= ExpiresAt[p]
       /\ p \in held /\ applied[p] = 0 =>
            \E h \in Handler : handler[h].pc = "apply" /\ handler[h].packet = p
  /\ \A h \in Handler :
       /\ handler[h] \in InFlight =>
            now < ExpiresAt[handler[h].packet]
       /\ handler[h].pc = "apply" =>
            /\ seen[handler[h].packet] # NoBody
            /\ applied[handler[h].packet] = 0
            /\ \A g \in Handler \ {h} :
                 ~(handler[g].pc = "apply" /\ handler[g].packet = handler[h].packet)
=============================================================================
