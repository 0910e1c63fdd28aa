------------------------ MODULE PacketCustodyProofs ------------------------
(***************************************************************************)
(* Theorems about PacketCustody, for every set of packets, peers, handlers *)
(* and sessions and every value of the budgets.                            *)
(*                                                                         *)
(* Three inductive invariants, each proved from the ones before it: the    *)
(* types (TypeOK), what custody records say (RecordsSound) and what the    *)
(* seen-ID index says of ingests in flight (IngestsSound).  Each proof has *)
(* one lemma per activity and one step per action of that activity.        *)
(***************************************************************************)
EXTENDS PacketCustody, TLAPS

-----------------------------------------------------------------------------
(* Custody records *)

\* A new record is a record.
LEMMA NewCustodyType ==
  ASSUME NEW p \in Packet
  PROVE  NewCustody(p) \in CustodyRecord
  BY CustodyConstants DEF NewCustody, CustodyRecord

\* So is the record that stands for no row.
LEMMA NoCustodyType == NoCustody \in CustodyRecord
  BY DEF NoCustody, CustodyRecord

\* afterTransfer: the record stays a record, and which fields it changes.
LEMMA AfterTransferType ==
  ASSUME NEW c \in CustodyRecord, NEW p \in Packet, NEW peer \in Peer, now \in Nat
  PROVE  /\ AfterTransfer(c, p, peer) \in CustodyRecord
         /\ AfterTransfer(c, p, peer).copies = c.copies + 1
         /\ AfterTransfer(c, p, peer).remaining = IF c.remaining = 0 THEN 0 ELSE c.remaining - 1
         /\ AfterTransfer(c, p, peer).holders = c.holders \cup {peer}
         /\ AfterTransfer(c, p, peer).upload = c.upload
<1> DEFINE left == IF c.remaining = 0 THEN 0 ELSE c.remaining - 1
           till == now + Cooldown[p]
           more == c.copies + 1
           with == c.holders \cup {peer}
<1>1. c.remaining \in Nat /\ c.copies \in Nat /\ c.holders \in SUBSET Peer /\ Cooldown[p] \in Nat
  BY CustodyConstants DEF CustodyRecord
<1>2. left \in Nat /\ till \in Nat /\ more \in Nat /\ with \in SUBSET Peer
  BY <1>1
<1>3. AfterTransfer(c, p, peer) =
        [c EXCEPT !.state = "sent", !.copies = more, !.remaining = left,
                  !.eligibleAt = till, !.holders = with]
  BY DEF AfterTransfer
<1> HIDE DEF left, till, more, with
<1>4. /\ AfterTransfer(c, p, peer) \in CustodyRecord
      /\ AfterTransfer(c, p, peer).copies = more
      /\ AfterTransfer(c, p, peer).remaining = left
      /\ AfterTransfer(c, p, peer).holders = with
      /\ AfterTransfer(c, p, peer).upload = c.upload
  BY <1>2, <1>3 DEF CustodyRecord
<1> QED BY <1>4 DEF left, more, with

\* Marking a record uploaded changes the upload field and nothing else.
LEMMA UploadedType ==
  ASSUME NEW c \in CustodyRecord
  PROVE  /\ [c EXCEPT !.upload = "uploaded"] \in CustodyRecord
         /\ [c EXCEPT !.upload = "uploaded"].copies = c.copies
         /\ [c EXCEPT !.upload = "uploaded"].remaining = c.remaining
         /\ [c EXCEPT !.upload = "uploaded"].holders = c.holders
         /\ [c EXCEPT !.upload = "uploaded"].upload = "uploaded"
  BY DEF CustodyRecord

\* Deleting rows keeps the types.
LEMMA DeleteType ==
  ASSUME NEW gone \in SUBSET Packet, TypeOK, Delete(gone)
  PROVE  /\ held' \in SUBSET Packet
         /\ custody' \in [Packet -> CustodyRecord]
         /\ retainTo' \in [Packet -> Nat]
  BY NoCustodyType DEF Delete, TypeOK

\* So does pruning seen IDs.
LEMMA ForgetType ==
  ASSUME NEW ids, TypeOK, Forget(ids)
  PROVE  /\ seen' \in [Packet -> Body \cup {NoBody}]
         /\ seenAt' \in [Packet -> Nat]
  BY DEF Forget, TypeOK

\* The records activities start from and end with.
LEMMA RestingTypes ==
  /\ Resting \in HandlerRecord /\ Finished \in HandlerRecord
  /\ NoPush \in PushRecord /\ PushOver \in PushRecord /\ NoUpload \in UploadRecord
  BY NoCustodyType DEF Resting, Finished, HandlerRecord, NoPush, PushOver, PushRecord,
     NoUpload, UploadRecord

\* Where the program counter says so, the handler carries a packet and a body.
LEMMA InFlightPc ==
  ASSUME TypeOK, NEW h \in Handler,
         handler[h].pc \in {"lookup", "room", "commit", "apply"}
  PROVE  handler[h] \in InFlight
  BY DEF TypeOK, HandlerRecord, Resting, Finished

\* A handler in flight moves on to another point of the code, or finishes.
LEMMA HandlerSteps ==
  ASSUME TypeOK, NEW h \in Handler, handler[h] \in InFlight,
         \/ \E pc \in {"lookup", "room", "commit", "apply"} : Goto(h, pc)
         \/ Finish(h)
  PROVE  handler' \in [Handler -> HandlerRecord]
<1>1. CASE Finish(h)
  BY <1>1, RestingTypes DEF Finish, TypeOK
<1>2. ASSUME NEW pc \in {"lookup", "room", "commit", "apply"}, Goto(h, pc)
      PROVE  handler' \in [Handler -> HandlerRecord]
  <2>1. [handler[h] EXCEPT !.pc = pc] \in InFlight
    BY DEF InFlight
  <2> QED BY <1>2, <2>1 DEF Goto, TypeOK, HandlerRecord
<1> QED BY <1>1, <1>2

\* evictExpired is given the time on one of two clocks.
Clocks == {now, now + DemoEpoch}

\* Making room leaves the store alone, or evicts on the Unix clock.
LEMMA RoomCases ==
  ASSUME NEW h \in Handler, MakeRoom(h)
  PROVE  UNCHANGED store \/ \E clock \in Clocks : EvictExpired(clock)
  BY DEF MakeRoom, Clocks

\* Evicting on either clock keeps the types of the store.
LEMMA EvictType ==
  ASSUME TypeOK, NEW clock, EvictExpired(clock)
  PROVE  /\ held' \in SUBSET Packet
         /\ custody' \in [Packet -> CustodyRecord]
         /\ retainTo' \in [Packet -> Nat]
         /\ seen' \in [Packet -> Body \cup {NoBody}]
         /\ seenAt' \in [Packet -> Nat]
<1>1. Expired(clock) \in SUBSET Packet
  BY DEF Expired, TypeOK
<1> QED BY <1>1, DeleteType, ForgetType DEF EvictExpired

-----------------------------------------------------------------------------
(* Type correctness *)

LEMMA TypeInit == Init => TypeOK
  BY CustodyConstants, NoCustodyType, RestingTypes DEF Init, TypeOK

LEMMA IngestType ==
  ASSUME TypeOK, NEW h \in Handler, Ingest(h)
  PROVE  TypeOK'
<1> USE CustodyConstants
<1>1. ASSUME NEW p \in Packet, NEW b \in Body, NEW peer \in Peer \cup {NoPeer},
             Validate(h, p, b, peer)
      PROVE  TypeOK'
  <2>1. [pc |-> "lookup", packet |-> p, body |-> b, from |-> peer] \in HandlerRecord
    BY DEF HandlerRecord, InFlight
  <2> QED BY <1>1, <2>1 DEF Validate, TypeOK, store
<1>2. CASE Lookup(h)
  <2>0. handler[h] \in InFlight
    BY <1>2, InFlightPc DEF Lookup
  <2>1. handler' \in [Handler -> HandlerRecord]
    BY <1>2, <2>0, HandlerSteps DEF Lookup
  <2>2. prevHop' \in [Packet -> Peer \cup {NoPeer}]
    BY <1>2, <2>0 DEF Lookup, RememberHop, TypeOK, InFlight
  <2> QED BY <1>2, <2>1, <2>2 DEF Lookup, TypeOK, store
<1>3. CASE MakeRoom(h)
  <2>0. handler[h] \in InFlight
    BY <1>3, InFlightPc DEF MakeRoom
  <2>1. UNCHANGED <<now, applied, prevHop, session, gateway, sentTo, backend>>
    BY <1>3 DEF MakeRoom
  <2>2. handler' \in [Handler -> HandlerRecord]
    BY <1>3, <2>0, HandlerSteps DEF MakeRoom
  <2>3. CASE UNCHANGED store
    BY <2>1, <2>2, <2>3 DEF TypeOK, store
  <2>4. CASE \E clock \in Clocks : EvictExpired(clock)
    BY <2>1, <2>2, <2>4, EvictType DEF TypeOK
  <2> QED BY <1>3, <2>3, <2>4, RoomCases
<1>4. CASE Commit(h)
  <2>0. handler[h] \in InFlight
    BY <1>4, InFlightPc DEF Commit
  <2>1. handler' \in [Handler -> HandlerRecord]
    BY <1>4, <2>0, HandlerSteps DEF Commit
  <2>2. CASE UNCHANGED store
    BY <1>4, <2>1, <2>2 DEF Commit, TypeOK, store
  <2>3. CASE ~UNCHANGED store
    <3> DEFINE p == handler[h].packet
    <3>1. p \in Packet /\ handler[h].body \in Body
      BY <2>0 DEF InFlight
    <3>2. /\ seen' = [seen EXCEPT ![p] = handler[h].body]
          /\ seenAt' = [seenAt EXCEPT ![p] = now]
          /\ held' = held \cup {p}
          /\ custody' = [custody EXCEPT ![p] = NewCustody(p)]
          /\ retainTo' = [retainTo EXCEPT ![p] = now + Retention[p]]
          /\ UNCHANGED <<now, applied, prevHop, session, gateway, sentTo, backend>>
      BY <1>4, <2>3 DEF Commit
    <3>3. now + Retention[p] \in Nat /\ NewCustody(p) \in CustodyRecord
      BY <3>1, NewCustodyType DEF TypeOK
    <3> HIDE DEF p
    <3> QED BY <2>1, <3>1, <3>2, <3>3 DEF TypeOK
  <2> QED BY <2>2, <2>3
<1>5. CASE Apply(h)
  <2>0. handler[h] \in InFlight
    BY <1>5, InFlightPc DEF Apply
  <2>1. handler' \in [Handler -> HandlerRecord]
    BY <1>5, <2>0, HandlerSteps DEF Apply
  <2>2. prevHop' \in [Packet -> Peer \cup {NoPeer}]
    BY <1>5, <2>0 DEF Apply, RememberHop, TypeOK, InFlight
  <2>3. applied' \in [Packet -> Nat]
    BY <1>5, <2>0 DEF Apply, TypeOK, InFlight
  <2> QED BY <1>5, <2>1, <2>2, <2>3 DEF Apply, TypeOK, store
<1> QED BY <1>1, <1>2, <1>3, <1>4, <1>5 DEF Ingest

LEMMA PushType ==
  ASSUME TypeOK, NEW s \in Session, Push(s)
  PROVE  TypeOK'
<1>0. session[s] \in PushRecord
  BY DEF TypeOK
<1>1. ASSUME NEW inventory \in SUBSET Packet, Plan(s, inventory)
      PROVE  TypeOK'
  <2> DEFINE offers == {p \in RelayableNow : Wanted(p, PeerOf[s], inventory)}
  <2>1. offers \in SUBSET Packet
    BY DEF RelayableNow, TypeOK
  <2> HIDE DEF offers
  <2>2. [NoPush EXCEPT !.pc = "pushing", !.offers = offers] \in PushRecord
    BY <2>1, RestingTypes DEF PushRecord
  <2> QED BY <1>1, <2>2 DEF Plan, TypeOK, store, offers
<1>2. ASSUME NEW p \in Packet, Send(s, p)
      PROVE  TypeOK'
  <2>1. session[s].offers \ {p} \in SUBSET Packet
    BY <1>0 DEF PushRecord
  <2>2. session' \in [Session -> PushRecord]
    BY <1>0, <1>2, <2>1 DEF Send, TypeOK, PushRecord
  <2>3. sentTo' \in [Packet -> SUBSET Peer]
    BY <1>2, CustodyConstants DEF Send, TypeOK
  <2> QED BY <1>2, <2>2, <2>3 DEF Send, TypeOK, store
<1>3. CASE ReadCustody(s)
  <2>1. session[s].packet \in held => custody[session[s].packet] \in CustodyRecord
    BY DEF TypeOK
  <2>2. session' \in [Session -> PushRecord]
    BY <1>0, <1>3, <2>1 DEF ReadCustody, TypeOK, PushRecord
  <2> QED BY <1>3, <2>2 DEF ReadCustody, TypeOK, store
<1>4. CASE WriteCustody(s)
  <2>1. now \in Nat
    BY CustodyConstants DEF TypeOK
  <2>2. session[s].read \in CustodyRecord /\ PeerOf[s] \in Peer
    BY <1>0, CustodyConstants DEF PushRecord
  <2>3. \A p \in held : AfterTransfer(session[s].read, p, PeerOf[s]) \in CustodyRecord
    BY <2>1, <2>2, AfterTransferType DEF TypeOK
  <2>4. custody' \in [Packet -> CustodyRecord]
    BY <1>4, <2>3 DEF WriteCustody, TypeOK
  <2>5. [NoPush EXCEPT !.pc = "pushing", !.offers = session[s].offers] \in PushRecord
    BY <1>0, RestingTypes DEF PushRecord
  <2> QED BY <1>4, <2>4, <2>5 DEF WriteCustody, TypeOK
<1>5. CASE EndPush(s)
  BY <1>5, RestingTypes DEF EndPush, TypeOK, store
<1> QED BY <1>1, <1>2, <1>3, <1>4, <1>5 DEF Push

LEMMA UploadType ==
  ASSUME TypeOK, Upload
  PROVE  TypeOK'
<1>0. gateway \in UploadRecord
  BY DEF TypeOK
<1>1. ASSUME NEW batch \in SUBSET Packet, ListUploads(batch)
      PROVE  TypeOK'
  <2>1. gateway' \in UploadRecord
    BY <1>0, <1>1 DEF ListUploads, UploadRecord
  <2> QED BY <1>1, <2>1 DEF ListUploads, TypeOK, store
<1>2. ASSUME NEW taken \in SUBSET Packet, NEW answered \in BOOLEAN, Post(taken, answered)
      PROVE  TypeOK'
  <2>1. gateway' \in UploadRecord
    BY <1>0, <1>2, RestingTypes DEF Post, UploadRecord
  <2> QED BY <1>2, <2>1 DEF Post, TypeOK, store
<1>3. ASSUME NEW p \in Packet, ReadForUpload(p)
      PROVE  TypeOK'
  <2>1. custody[p] \in CustodyRecord /\ gateway.batch \ {p} \in SUBSET Packet
    BY <1>0 DEF TypeOK, UploadRecord
  <2>2. gateway' \in UploadRecord
    BY <1>0, <1>3, <2>1, RestingTypes DEF ReadForUpload, UploadRecord
  <2> QED BY <1>3, <2>2 DEF ReadForUpload, TypeOK, store
<1>4. CASE MarkUploaded
  <2>1. [gateway.read EXCEPT !.upload = "uploaded"] \in CustodyRecord
    BY <1>0, UploadedType DEF UploadRecord
  <2>2. custody' \in [Packet -> CustodyRecord]
    BY <1>4, <2>1 DEF MarkUploaded, TypeOK
  <2> DEFINE rest == gateway.batch \ {gateway.packet}
  <2>3. rest \in SUBSET Packet
    BY <1>0 DEF UploadRecord
  <2> HIDE DEF rest
  <2>4. [NoUpload EXCEPT !.pc = "marking", !.batch = rest] \in UploadRecord
    BY <2>3, RestingTypes DEF UploadRecord
  <2>5. gateway' \in UploadRecord
    BY <1>4, <2>4, RestingTypes DEF MarkUploaded, rest
  <2> QED BY <1>4, <2>2, <2>5 DEF MarkUploaded, TypeOK
<1> QED BY <1>1, <1>2, <1>3, <1>4 DEF Upload

LEMMA HousekeepingType ==
  ASSUME TypeOK, Maintain \/ Tick \/ Restart
  PROVE  TypeOK'
<1>1. CASE Maintain
  BY <1>1, EvictType DEF Maintain, TypeOK
<1>2. CASE Tick
  BY <1>2, CustodyConstants DEF Tick, TypeOK, store
<1>3. CASE Restart
  BY <1>3, RestingTypes DEF Restart, TypeOK, store
<1> QED BY <1>1, <1>2, <1>3

\* Type correctness: every variable keeps its type in every reachable state.
THEOREM TypeCorrect == Spec => []TypeOK
<1>1. TypeOK /\ [Next]_vars => TypeOK'
  <2> SUFFICES ASSUME TypeOK, [Next]_vars PROVE TypeOK'
    OBVIOUS
  <2>1. CASE UNCHANGED vars
    BY <2>1 DEF vars, store, TypeOK
  <2> QED BY <2>1, IngestType, PushType, UploadType, HousekeepingType DEF Next
<1> QED BY <1>1, TypeInit, PTL DEF Spec
-----------------------------------------------------------------------------
(* Custody records stay sound *)

\* A new record is sound: it has made no copy, names no holder and is not
\* uploaded.
LEMMA NewCustodySound ==
  ASSUME NEW p \in Packet
  PROVE  Sound(p, NewCustody(p))
  BY CustodyConstants DEF Sound, NewCustody, Left

\* A transfer to a peer that was written to keeps a record sound: the clamp at
\* zero and the count of copies move together.
LEMMA AfterTransferSound ==
  ASSUME NEW p \in Packet, NEW c \in CustodyRecord, NEW peer \in Peer, now \in Nat,
         Sound(p, c), peer \in sentTo[p]
  PROVE  Sound(p, AfterTransfer(c, p, peer))
<1> DEFINE d == AfterTransfer(c, p, peer)
<1>1. /\ d.copies = c.copies + 1
      /\ d.remaining = IF c.remaining = 0 THEN 0 ELSE c.remaining - 1
      /\ d.holders = c.holders \cup {peer}
      /\ d.upload = c.upload
  BY AfterTransferType
<1>2. c.copies \in Nat /\ CopyBudget[p] \in Nat
  BY CustodyConstants DEF CustodyRecord
<1> HIDE DEF d
<1>3. d.remaining = Left(p, d.copies)
  BY <1>1, <1>2 DEF Sound, Left
<1>4. d.holders \subseteq sentTo[p] /\ (d.upload = "uploaded" => p \in backend)
  BY <1>1 DEF Sound
<1> QED BY <1>3, <1>4 DEF Sound, d

\* Marking a delivered packet uploaded keeps a record sound.
LEMMA UploadedSound ==
  ASSUME NEW p \in Packet, NEW c \in CustodyRecord, Sound(p, c), p \in backend
  PROVE  Sound(p, [c EXCEPT !.upload = "uploaded"])
  BY UploadedType DEF Sound

\* A step that touches neither the rows' records, nor what sessions and the
\* uploader carry, nor the histories.
LEMMA RecordsUntouched ==
  ASSUME RecordsSound,
         held' \subseteq held, \A p \in held' : custody'[p] = custody[p],
         UNCHANGED <<session, gateway, sentTo, backend>>
  PROVE  RecordsSound'
  BY DEF RecordsSound, Sound, Left

\* Deleting rows touches no record that stays.
LEMMA DeleteKeeps ==
  ASSUME NEW gone, Delete(gone), TypeOK
  PROVE  held' \subseteq held /\ \A p \in held' : custody'[p] = custody[p]
  BY DEF Delete, TypeOK

LEMMA IngestRecords ==
  ASSUME TypeOK, RecordsSound, NEW h \in Handler, Ingest(h)
  PROVE  RecordsSound'
<1>1. CASE UNCHANGED <<held, custody, session, gateway, sentTo, backend>>
  BY <1>1, RecordsUntouched
<1>2. CASE MakeRoom(h)
  <2>1. UNCHANGED <<session, gateway, sentTo, backend>>
    BY <1>2 DEF MakeRoom
  <2>2. CASE UNCHANGED store
    BY <1>1, <2>1, <2>2 DEF store
  <2>3. CASE \E clock \in Clocks : EvictExpired(clock)
    BY <2>1, <2>3, DeleteKeeps, RecordsUntouched DEF EvictExpired
  <2> QED BY <1>2, <2>2, <2>3, RoomCases
<1>3. CASE Commit(h)
  <2> DEFINE q == handler[h].packet
  <2>1. q \in Packet
    BY <1>3, InFlightPc DEF Commit, InFlight
  <2>2. CASE UNCHANGED store
    BY <1>1, <1>3, <2>2 DEF Commit, store
  <2>3. CASE ~UNCHANGED store
    <3>1. /\ held' = held \cup {q} /\ custody' = [custody EXCEPT ![q] = NewCustody(q)]
          /\ UNCHANGED <<session, gateway, sentTo, backend>>
      BY <1>3, <2>3 DEF Commit
    <3> HIDE DEF q
    <3>2. \A p \in held' : Sound(p, custody'[p])
      BY <2>1, <3>1, NewCustodySound DEF RecordsSound, TypeOK
    <3> QED BY <3>1, <3>2 DEF RecordsSound, Sound, Left
  <2> QED BY <2>2, <2>3
<1>4. \/ UNCHANGED <<held, custody, session, gateway, sentTo, backend>>
      \/ MakeRoom(h) \/ Commit(h)
  BY DEF Ingest, Validate, Lookup, Apply, store
<1> QED BY <1>1, <1>2, <1>3, <1>4

LEMMA PushRecords ==
  ASSUME TypeOK, RecordsSound, NEW s \in Session, Push(s)
  PROVE  RecordsSound'
<1>0. /\ session \in [Session -> PushRecord] /\ session[s] \in PushRecord
      /\ PeerOf[s] \in Peer /\ now \in Nat
  BY CustodyConstants DEF TypeOK
<1>1. ASSUME NEW inventory \in SUBSET Packet, Plan(s, inventory)
      PROVE  RecordsSound'
  <2>1. session'[s].pc = "pushing" /\ \A t \in Session \ {s} : session'[t] = session[t]
    BY <1>0, <1>1 DEF Plan, NoPush
  <2>2. UNCHANGED <<held, custody, gateway, sentTo, backend>>
    BY <1>1 DEF Plan, store
  <2> QED BY <2>1, <2>2 DEF RecordsSound, Sound, Left
<1>2. ASSUME NEW p \in Packet, Send(s, p)
      PROVE  RecordsSound'
  <2>1. UNCHANGED <<held, custody, gateway, backend>>
    BY <1>2 DEF Send, store
  <2>2. \A q \in Packet : sentTo[q] \subseteq sentTo'[q]
    BY <1>2 DEF Send, TypeOK
  <2>3. \A t \in Session \ {s} : session'[t] = session[t]
    BY <1>0, <1>2 DEF Send
  <2>4. \/ session'[s].pc = "sent" /\ session'[s].packet = p /\ PeerOf[s] \in sentTo'[p]
        \/ session'[s].pc = "pushing"
    BY <1>0, <1>2 DEF Send, TypeOK, PushRecord
  <2>5. (\A q \in held : Sound(q, custody[q]))'
    BY <2>1, <2>2 DEF RecordsSound, TypeOK, Sound, Left
  <2>6. (gateway.pc = "read" =>
           gateway.packet \in gateway.batch /\ Sound(gateway.packet, gateway.read))'
    BY <2>1, <2>2 DEF RecordsSound, TypeOK, UploadRecord, Sound, Left
  <2>7. ASSUME NEW t \in Session \ {s}
        PROVE  /\ session'[t].pc \in {"sent", "read"} =>
                    session'[t].packet \in Packet /\ PeerOf[t] \in sentTo'[session'[t].packet]
               /\ (session[t].pc = "read" => Sound(session[t].packet, session[t].read))'
    BY <2>1, <2>2, <2>3 DEF RecordsSound, Sound, Left
  <2> QED BY <2>1, <2>4, <2>5, <2>6, <2>7 DEF RecordsSound
<1>3. CASE ReadCustody(s)
  <2> DEFINE q == session[s].packet
  <2>1. UNCHANGED <<held, custody, gateway, sentTo, backend>>
    BY <1>3 DEF ReadCustody, store
  <2>2. \A t \in Session \ {s} : session'[t] = session[t]
    BY <1>0, <1>3 DEF ReadCustody
  <2>3. q \in Packet /\ PeerOf[s] \in sentTo[q]
    BY <1>3 DEF ReadCustody, RecordsSound
  <2>4. \/ /\ q \in held /\ session'[s].pc = "read"
           /\ session'[s].packet = q /\ session'[s].read = custody[q]
        \/ session'[s].pc = "pushing"
    BY <1>0, <1>3 DEF ReadCustody, PushRecord
  <2> HIDE DEF q
  <2> QED BY <2>1, <2>2, <2>3, <2>4 DEF RecordsSound, Sound, Left
<1>4. CASE WriteCustody(s)
  <2> DEFINE q == session[s].packet
             d == AfterTransfer(session[s].read, q, PeerOf[s])
  <2>1. UNCHANGED <<held, gateway, sentTo, backend>>
    BY <1>4 DEF WriteCustody
  <2>2. q \in Packet /\ PeerOf[s] \in sentTo[q] /\ Sound(q, session[s].read)
    BY <1>4 DEF WriteCustody, RecordsSound
  <2>3. Sound(q, d)
    BY <1>0, <2>2, AfterTransferSound DEF PushRecord
  <2>4. session'[s].pc = "pushing" /\ \A t \in Session \ {s} : session'[t] = session[t]
    BY <1>0, <1>4 DEF WriteCustody, NoPush
  <2>5. \A p \in held : custody'[p] = IF p = q THEN d ELSE custody[p]
    BY <1>4 DEF WriteCustody, TypeOK
  <2> HIDE DEF q, d
  <2>6. \A p \in held : Sound(p, custody'[p])
    BY <2>3, <2>5 DEF RecordsSound
  <2> QED BY <2>1, <2>4, <2>6 DEF RecordsSound, Sound, Left
<1>5. CASE EndPush(s)
  <2>1. session'[s].pc = "done" /\ \A t \in Session \ {s} : session'[t] = session[t]
    BY <1>0, <1>5 DEF EndPush, PushOver, NoPush
  <2>2. UNCHANGED <<held, custody, gateway, sentTo, backend>>
    BY <1>5 DEF EndPush, store
  <2> QED BY <2>1, <2>2 DEF RecordsSound, Sound, Left
<1> QED BY <1>1, <1>2, <1>3, <1>4, <1>5 DEF Push

LEMMA UploadRecords ==
  ASSUME TypeOK, RecordsSound, Upload
  PROVE  RecordsSound'
<1>0. gateway \in UploadRecord
  BY DEF TypeOK
<1>1. ASSUME NEW batch \in SUBSET Packet, ListUploads(batch)
      PROVE  RecordsSound'
  <2>1. gateway'.pc = "posting" /\ UNCHANGED <<held, custody, session, sentTo, backend>>
    BY <1>0, <1>1 DEF ListUploads, store, UploadRecord
  <2> QED BY <2>1 DEF RecordsSound, Sound, Left
<1>2. ASSUME NEW taken \in SUBSET Packet, NEW answered \in BOOLEAN, Post(taken, answered)
      PROVE  RecordsSound'
  <2>1. backend' = backend \cup taken /\ UNCHANGED <<held, custody, session, sentTo>>
    BY <1>2 DEF Post, store
  <2>2. \/ gateway'.pc = "marking" /\ gateway'.batch = taken
        \/ gateway'.pc = "idle"
    BY <1>0, <1>2 DEF Post, NoUpload, UploadRecord
  <2> QED BY <2>1, <2>2 DEF RecordsSound, Sound, Left
<1>3. ASSUME NEW p \in Packet, ReadForUpload(p)
      PROVE  RecordsSound'
  <2>1. UNCHANGED <<held, custody, session, sentTo, backend>>
    BY <1>3 DEF ReadForUpload, store
  <2>2. p \in gateway.batch /\ gateway.batch \subseteq backend
    BY <1>3 DEF ReadForUpload, RecordsSound
  <2>3. \/ /\ p \in held /\ gateway'.pc = "read" /\ gateway'.batch = gateway.batch
           /\ gateway'.packet = p /\ gateway'.read = custody[p]
        \/ gateway'.pc = "idle"
        \/ gateway'.pc = "marking" /\ gateway'.batch = gateway.batch \ {p}
    BY <1>0, <1>3 DEF ReadForUpload, NoUpload, UploadRecord
  <2> QED BY <2>1, <2>2, <2>3 DEF RecordsSound, Sound, Left
<1>4. CASE MarkUploaded
  <2> DEFINE q == gateway.packet
             d == [gateway.read EXCEPT !.upload = "uploaded"]
  <2>1. UNCHANGED <<held, session, sentTo, backend>>
    BY <1>4 DEF MarkUploaded
  <2>2. q \in gateway.batch /\ q \in backend /\ Sound(q, gateway.read)
    BY <1>4 DEF MarkUploaded, RecordsSound
  <2>3. q \in held => Sound(q, d)
    BY <1>0, <2>2, UploadedSound DEF UploadRecord, TypeOK
  <2>4. \A p \in held : custody'[p] = IF p = q THEN d ELSE custody[p]
    BY <1>4 DEF MarkUploaded, TypeOK
  <2>5. \/ gateway'.pc = "idle"
        \/ gateway'.pc = "marking" /\ gateway'.batch = gateway.batch \ {q}
    BY <1>4 DEF MarkUploaded, NoUpload
  <2>6. gateway.batch \subseteq backend
    BY <1>4 DEF MarkUploaded, RecordsSound
  <2> HIDE DEF q, d
  <2>7. \A p \in held : Sound(p, custody'[p])
    BY <2>3, <2>4 DEF RecordsSound
  <2> QED BY <2>1, <2>5, <2>6, <2>7 DEF RecordsSound, Sound, Left
<1> QED BY <1>1, <1>2, <1>3, <1>4 DEF Upload

LEMMA HousekeepingRecords ==
  ASSUME TypeOK, RecordsSound, Maintain \/ Tick \/ Restart
  PROVE  RecordsSound'
<1>1. CASE Maintain
  BY <1>1, DeleteKeeps, RecordsUntouched DEF Maintain, EvictExpired
<1>2. CASE Tick
  BY <1>2, RecordsUntouched DEF Tick, store
<1>3. CASE Restart
  <2>1. \A s \in Session : session'[s].pc \in {"idle", "done"}
    BY <1>3 DEF Restart, NoPush, PushOver
  <2>2. gateway'.pc = "idle" /\ UNCHANGED <<held, custody, sentTo, backend>>
    BY <1>3 DEF Restart, NoUpload, store
  <2> QED BY <2>1, <2>2 DEF RecordsSound, Sound, Left
<1> QED BY <1>1, <1>2, <1>3

\* Every custody record stays sound, whatever sessions and the gateway read
\* before an await and write back after it.
THEOREM RecordsStaySound == Spec => []RecordsSound
<1>1. Init => RecordsSound
  BY DEF Init, RecordsSound, NoPush, NoUpload
<1>2. TypeOK /\ RecordsSound /\ [Next]_vars => RecordsSound'
  <2> SUFFICES ASSUME TypeOK, RecordsSound, [Next]_vars PROVE RecordsSound'
    OBVIOUS
  <2>1. CASE UNCHANGED vars
    BY <2>1, RecordsUntouched DEF vars, store
  <2> QED BY <2>1, IngestRecords, PushRecords, UploadRecords, HousekeepingRecords DEF Next
<1> QED BY <1>1, <1>2, TypeCorrect, PTL DEF Spec

\* copyBudgetRemaining and copiesMade never disagree about the budget.
THEOREM CountersAlwaysAgree == Spec => []CountersAgree
<1>1. RecordsSound => CountersAgree
  BY DEF RecordsSound, CountersAgree, Sound
<1> QED BY <1>1, RecordsStaySound, PTL

\* A known holder was sent a copy.
THEOREM HoldersAlwaysSent == Spec => []HoldersWereSent
<1>1. RecordsSound => HoldersWereSent
  BY DEF RecordsSound, HoldersWereSent, Sound
<1> QED BY <1>1, RecordsStaySound, PTL

\* A packet marked uploaded is at the backend.
THEOREM UploadedAlwaysDelivered == Spec => []UploadedIsDelivered
<1>1. RecordsSound => UploadedIsDelivered
  BY DEF RecordsSound, UploadedIsDelivered, Sound
<1> QED BY <1>1, RecordsStaySound, PTL
-----------------------------------------------------------------------------
(* Ingests stay sound *)

\* Dropping rows and pruning seen IDs: an ID with a row left keeps its digest,
\* and an ID that loses it belongs to an expired packet, because on both clocks
\* IDs are kept longer than any packet lives.
LEMMA StoreShrinks ==
  ASSUME TypeOK, NEW clock \in Clocks, EvictExpired(clock)
  PROVE  /\ held' \subseteq held /\ \A p \in held' : seen'[p] = seen[p]
         /\ \A p \in Packet :
              seen'[p] = seen[p] \/ (seen'[p] = NoBody /\ now > ExpiresAt[p])
<1> DEFINE gone == Expired(clock)
           F == Forgotten(held \ gone, clock)
<1>1. held' = held \ gone
  BY DEF EvictExpired, Delete
<1>2. \A p \in Packet : seen'[p] = IF p \in F THEN NoBody ELSE seen[p]
  BY DEF EvictExpired, Forget
<1>3. \A p \in F : p \in Packet /\ p \notin held \ gone /\ now > ExpiresAt[p]
  <2> SUFFICES ASSUME NEW p \in F
               PROVE  p \in Packet /\ p \notin held \ gone /\ now > ExpiresAt[p]
    OBVIOUS
  <2>1. /\ p \in Packet /\ p \notin held \ gone
        /\ seenAt[p] + DemoEpoch + SeenRetention < clock
    BY DEF Forgotten
  <2>2. /\ seenAt[p] \in Nat /\ SeenRetention \in Nat /\ ExpiresAt[p] \in Nat
        /\ now \in Nat /\ DemoEpoch \in Nat
    BY <2>1, CustodyConstants DEF TypeOK
  <2>3. ExpiresAt[p] <= SeenRetention
    BY <2>1, SeenOutlivesPackets
  <2>4. clock = now \/ clock = now + DemoEpoch
    BY DEF Clocks
  <2> QED BY <2>1, <2>2, <2>3, <2>4
<1> HIDE DEF F, gone
<1>4. held \subseteq Packet
  BY DEF TypeOK
<1> QED BY <1>1, <1>2, <1>3, <1>4

\* A step that leaves the store as it was, or shrinks it, and in which no
\* handler reaches or leaves "apply", keeps ingests sound.
LEMMA IngestsKept ==
  ASSUME TypeOK, IngestsSound, UNCHANGED <<now, applied>>,
         held' \subseteq held, \A p \in held' : seen'[p] = seen[p],
         \A p \in Packet : seen'[p] = seen[p] \/ (seen'[p] = NoBody /\ now > ExpiresAt[p]),
         \A g \in Handler :
           /\ handler[g].pc = "apply" => handler'[g] = handler[g]
           /\ handler'[g].pc = "apply" => handler[g].pc = "apply"
           /\ handler'[g] \in InFlight => now < ExpiresAt[handler'[g].packet]
  PROVE  IngestsSound'
<1>1. ASSUME NEW p \in Packet
      PROVE  /\ p \in held' => seen'[p] # NoBody
             /\ applied'[p] <= 1
             /\ applied'[p] # 0 /\ seen'[p] = NoBody => now' >= ExpiresAt[p]
             /\ p \in held' /\ applied'[p] = 0 =>
                  \E h \in Handler : handler'[h].pc = "apply" /\ handler'[h].packet = p
  <2>1. now \in Nat /\ ExpiresAt[p] \in Nat
    BY CustodyConstants DEF TypeOK
  <2>2. p \in held' => seen'[p] # NoBody
    BY DEF IngestsSound
  <2>3. applied'[p] <= 1
    BY DEF IngestsSound
  <2>4. applied'[p] # 0 /\ seen'[p] = NoBody => now' >= ExpiresAt[p]
    BY <2>1 DEF IngestsSound
  <2>5. p \in held' /\ applied'[p] = 0 =>
          \E h \in Handler : handler'[h].pc = "apply" /\ handler'[h].packet = p
    BY DEF IngestsSound
  <2> QED BY <2>2, <2>3, <2>4, <2>5
<1>2. ASSUME NEW h \in Handler, handler'[h].pc = "apply"
      PROVE  /\ seen'[handler'[h].packet] # NoBody
             /\ applied'[handler'[h].packet] = 0
             /\ \A g \in Handler \ {h} :
                  ~(handler'[g].pc = "apply" /\ handler'[g].packet = handler'[h].packet)
  <2>1. handler[h].pc = "apply" /\ handler'[h] = handler[h]
    BY <1>2
  <2>2. handler[h] \in InFlight /\ handler[h].packet \in Packet
    BY <2>1, InFlightPc DEF InFlight
  <2>3. now < ExpiresAt[handler[h].packet] /\ now \in Nat /\ ExpiresAt[handler[h].packet] \in Nat
    BY <2>2, CustodyConstants DEF IngestsSound, TypeOK
  <2>4. seen'[handler[h].packet] = seen[handler[h].packet]
    BY <2>2, <2>3
  <2> QED BY <2>1, <2>4 DEF IngestsSound
<1>3. \A g \in Handler : handler'[g] \in InFlight => now' < ExpiresAt[handler'[g].packet]
  OBVIOUS
<1> QED BY <1>1, <1>2, <1>3 DEF IngestsSound, InFlight

LEMMA IngestIngests ==
  ASSUME TypeOK, IngestsSound, NEW h \in Handler, Ingest(h)
  PROVE  IngestsSound'
<1>0. handler \in [Handler -> HandlerRecord]
  BY DEF TypeOK
<1> DEFINE Quiet ==
      /\ \A g \in Handler \ {h} : handler'[g] = handler[g]
      /\ handler[h].pc # "apply" /\ handler'[h].pc # "apply"
      /\ handler'[h] \in InFlight => now < ExpiresAt[handler'[h].packet]
      /\ UNCHANGED <<now, applied>>
<1>1. Quiet /\ UNCHANGED store => IngestsSound'
  BY IngestsKept DEF store, IngestsSound
<1>2. ASSUME NEW p \in Packet, NEW b \in Body, NEW peer \in Peer \cup {NoPeer},
             Validate(h, p, b, peer)
      PROVE  IngestsSound'
  <2>1. Quiet
    BY <1>0, <1>2 DEF Validate
  <2> QED BY <1>1, <1>2, <2>1 DEF Validate
<1>3. ASSUME handler[h].pc \in {"lookup", "room", "commit"},
             Finish(h) \/ Goto(h, "room") \/ Goto(h, "commit"), UNCHANGED <<now, applied>>
      PROVE  Quiet
  <2>1. handler[h] \in InFlight /\ now < ExpiresAt[handler[h].packet]
    BY <1>3, InFlightPc DEF IngestsSound
  <2>2. CASE Finish(h)
    BY <1>0, <1>3, <2>2 DEF Finish, Finished, Resting, InFlight
  <2>3. CASE Goto(h, "room") \/ Goto(h, "commit")
    BY <1>0, <1>3, <2>1, <2>3 DEF Goto, InFlight
  <2> QED BY <1>3, <2>2, <2>3
<1>4. CASE Lookup(h)
  <2>1. Quiet
    BY <1>3, <1>4 DEF Lookup
  <2> QED BY <1>1, <1>4, <2>1 DEF Lookup
<1>5. CASE MakeRoom(h)
  <2>1. Quiet
    BY <1>3, <1>5 DEF MakeRoom
  <2>2. CASE UNCHANGED store
    BY <1>1, <2>1, <2>2
  <2>3. ASSUME NEW clock \in Clocks, EvictExpired(clock)
        PROVE  IngestsSound'
    BY <2>1, <2>3, StoreShrinks, IngestsKept DEF IngestsSound
  <2> QED BY <1>5, <2>2, <2>3, RoomCases
<1>6. CASE Commit(h)
  <2>1. CASE Finish(h) /\ UNCHANGED store
    BY <1>1, <1>3, <1>6, <2>1 DEF Commit
  <2>2. CASE ~(Finish(h) /\ UNCHANGED store)
    <3> DEFINE q == handler[h].packet
    <3>1. handler[h] \in InFlight /\ q \in Packet /\ handler[h].body \in Body
      BY <1>6, InFlightPc DEF Commit, InFlight
    <3>2. /\ seen[q] = NoBody /\ seen' = [seen EXCEPT ![q] = handler[h].body]
          /\ held' = held \cup {q} /\ UNCHANGED <<now, applied>>
          /\ Goto(h, "apply")
      BY <1>6, <2>2 DEF Commit
    <3>3. /\ handler'[h].pc = "apply" /\ handler'[h].packet = q
          /\ \A g \in Handler \ {h} : handler'[g] = handler[g]
      BY <1>0, <3>1, <3>2 DEF Goto, InFlight
    <3>4. now < ExpiresAt[q] /\ now \in Nat /\ ExpiresAt[q] \in Nat
      BY <3>1, CustodyConstants DEF IngestsSound, TypeOK
    <3>5. applied[q] = 0
      BY <3>1, <3>2, <3>4 DEF IngestsSound
    <3>6. \A p \in Packet : seen'[p] = IF p = q THEN handler[h].body ELSE seen[p]
      BY <3>2 DEF TypeOK
    <3>7. handler[h].body # NoBody
      BY <3>1, CustodyConstants
    <3>8. \A g \in Handler \ {h} : ~(handler[g].pc = "apply" /\ handler[g].packet = q)
      BY <3>2 DEF IngestsSound
    <3>9. \A g \in Handler : handler[g].pc = "apply" => handler[g].packet \in Packet
      BY InFlightPc DEF InFlight
    <3> HIDE DEF q
    <3>10. ASSUME NEW p \in Packet
           PROVE  /\ p \in held' => seen'[p] # NoBody
                  /\ applied'[p] <= 1
                  /\ applied'[p] # 0 /\ seen'[p] = NoBody => now' >= ExpiresAt[p]
                  /\ p \in held' /\ applied'[p] = 0 =>
                       \E g \in Handler : handler'[g].pc = "apply" /\ handler'[g].packet = p
      <4>1. CASE p = q
        BY <3>2, <3>3, <3>5, <3>6, <3>7, <4>1
      <4>2. CASE p # q
        <5>1. seen'[p] = seen[p] /\ (p \in held' <=> p \in held)
          BY <3>2, <3>6, <4>2
        <5>2. p \in held /\ applied[p] = 0 =>
                \E g \in Handler \ {h} : handler[g].pc = "apply" /\ handler[g].packet = p
          BY <1>6 DEF IngestsSound, Commit
        <5> QED BY <3>2, <3>3, <5>1, <5>2 DEF IngestsSound
      <4> QED BY <4>1, <4>2
    <3>11. ASSUME NEW f \in Handler
           PROVE  /\ handler'[f] \in InFlight => now' < ExpiresAt[handler'[f].packet]
                  /\ handler'[f].pc = "apply" =>
                       /\ seen'[handler'[f].packet] # NoBody
                       /\ applied'[handler'[f].packet] = 0
                       /\ \A g \in Handler \ {f} :
                            ~(handler'[g].pc = "apply" /\ handler'[g].packet = handler'[f].packet)
      <4>1. CASE f = h
        BY <3>1, <3>2, <3>3, <3>4, <3>5, <3>6, <3>7, <3>8, <4>1
      <4>2. CASE f # h
        BY <3>2, <3>3, <3>6, <3>7, <3>8, <3>9, <4>2 DEF IngestsSound
      <4> QED BY <4>1, <4>2
    <3> QED BY <3>10, <3>11 DEF IngestsSound, InFlight
  <2> QED BY <2>1, <2>2
<1>7. CASE Apply(h)
  <2> DEFINE q == handler[h].packet
  <2>1. handler[h] \in InFlight /\ q \in Packet
    BY <1>7, InFlightPc DEF Apply, InFlight
  <2>2. /\ handler'[h].pc = "done" /\ handler'[h] \notin InFlight
        /\ \A g \in Handler \ {h} : handler'[g] = handler[g]
    BY <1>0, <1>7 DEF Apply, Finish, Finished, Resting, InFlight
  <2>3. /\ seen[q] # NoBody /\ applied[q] = 0
        /\ \A g \in Handler \ {h} : ~(handler[g].pc = "apply" /\ handler[g].packet = q)
    BY <1>7 DEF Apply, IngestsSound
  <2>4. \A p \in Packet : applied'[p] = IF p = q THEN 1 ELSE applied[p]
    BY <1>7, <2>3 DEF Apply, TypeOK
  <2>5. UNCHANGED <<now, seen, held>>
    BY <1>7 DEF Apply, store
  <2>6. \A g \in Handler : handler[g].pc = "apply" => handler[g].packet \in Packet
    BY InFlightPc DEF InFlight
  <2> HIDE DEF q
  <2>7. ASSUME NEW p \in Packet
        PROVE  /\ p \in held' => seen'[p] # NoBody
               /\ applied'[p] <= 1
               /\ applied'[p] # 0 /\ seen'[p] = NoBody => now' >= ExpiresAt[p]
               /\ p \in held' /\ applied'[p] = 0 =>
                    \E g \in Handler : handler'[g].pc = "apply" /\ handler'[g].packet = p
    <3>1. CASE p = q
      BY <2>3, <2>4, <2>5, <3>1
    <3>2. CASE p # q
      BY <2>2, <2>4, <2>5, <3>2 DEF IngestsSound, q
    <3> QED BY <3>1, <3>2
  <2>8. ASSUME NEW f \in Handler
        PROVE  /\ handler'[f] \in InFlight => now' < ExpiresAt[handler'[f].packet]
               /\ handler'[f].pc = "apply" =>
                    /\ seen'[handler'[f].packet] # NoBody
                    /\ applied'[handler'[f].packet] = 0
                    /\ \A g \in Handler \ {f} :
                         ~(handler'[g].pc = "apply" /\ handler'[g].packet = handler'[f].packet)
    BY <2>2, <2>3, <2>4, <2>5, <2>6 DEF IngestsSound
  <2> QED BY <2>7, <2>8 DEF IngestsSound, InFlight
<1> QED BY <1>2, <1>4, <1>5, <1>6, <1>7 DEF Ingest

LEMMA OtherIngests ==
  ASSUME TypeOK, IngestsSound,
         UNCHANGED vars \/ (\E s \in Session : Push(s)) \/ Upload
           \/ Maintain \/ Tick \/ Restart
  PROVE  IngestsSound'
<1>1. CASE UNCHANGED <<now, seen, held, applied, handler>>
  BY <1>1 DEF IngestsSound, InFlight
<1>2. CASE Maintain
  <2>1. UNCHANGED <<now, applied, handler>> /\ EvictExpired(now) /\ now \in Clocks
    BY <1>2 DEF Maintain, Clocks
  <2> QED BY <2>1, StoreShrinks, IngestsKept DEF IngestsSound
<1>3. CASE Tick
  <2>1. \A h \in Handler : handler[h] \notin InFlight /\ handler[h].pc # "apply"
    BY <1>3 DEF Tick, InFlight
  <2>2. now' = now + 1 /\ now \in Nat /\ UNCHANGED <<seen, held, applied, handler>>
    BY <1>3 DEF Tick, store, TypeOK
  <2>3. \A p \in Packet : ExpiresAt[p] \in Nat
    BY CustodyConstants
  <2> QED BY <2>1, <2>2, <2>3 DEF IngestsSound, InFlight
<1>4. CASE Restart
  <2>1. \A h \in Handler : handler'[h].pc \in {"idle", "done"}
    BY <1>4 DEF Restart, Resting, Finished
  <2>2. \A h \in Handler : handler'[h] \notin InFlight
    BY <2>1 DEF InFlight
  <2>3. \A p \in Packet : applied'[p] = IF p \in held THEN 1 ELSE 0
    BY <1>4 DEF Restart
  <2>4. UNCHANGED <<now, seen, held>>
    BY <1>4 DEF Restart, store
  <2> QED BY <2>1, <2>2, <2>3, <2>4 DEF IngestsSound, InFlight
<1>5. ASSUME NEW s \in Session, Push(s)
      PROVE  IngestsSound'
  BY <1>1, <1>5 DEF Push, Plan, Send, ReadCustody, WriteCustody, EndPush, store
<1>6. CASE Upload
  BY <1>1, <1>6 DEF Upload, ListUploads, Post, ReadForUpload, MarkUploaded, store
<1>7. CASE UNCHANGED vars
  BY <1>1, <1>7 DEF vars, store
<1> QED BY <1>2, <1>3, <1>4, <1>5, <1>6, <1>7

\* Ingests in flight and the seen-ID index stay consistent, for any number of
\* concurrent ingests, evictions and restarts.
THEOREM IngestsStaySound == Spec => []IngestsSound
<1>1. Init => IngestsSound
  BY DEF Init, IngestsSound, Resting, InFlight
<1>2. TypeOK /\ IngestsSound /\ [Next]_vars => IngestsSound'
  BY IngestIngests, OtherIngests DEF Next
<1> QED BY <1>1, <1>2, TypeCorrect, PTL DEF Spec

\* A stored packet's actions run exactly once in the live state.
THEOREM AlwaysAppliedOnce == Spec => []AppliedOnce
<1>1. TypeOK /\ IngestsSound => AppliedOnce
  BY DEF TypeOK, IngestsSound, AppliedOnce
<1> QED BY <1>1, TypeCorrect, IngestsStaySound, PTL
-----------------------------------------------------------------------------
(* Action properties *)

\* The steps that do not touch the store's rows or the seen-ID index.
LEMMA RowsKept ==
  ASSUME TypeOK, \/ UNCHANGED vars \/ (\E s \in Session : Push(s)) \/ Upload
                 \/ Tick \/ Restart
  PROVE  UNCHANGED <<seen, held>>
<1>1. ASSUME NEW s \in Session, Push(s)
      PROVE  UNCHANGED <<seen, held>>
  BY <1>1 DEF Push, Plan, Send, ReadCustody, WriteCustody, EndPush, store
<1>2. CASE Upload
  BY <1>2 DEF Upload, ListUploads, Post, ReadForUpload, MarkUploaded, store
<1>3. CASE UNCHANGED vars \/ Tick \/ Restart
  BY <1>3 DEF vars, Tick, Restart, store
<1> QED BY <1>1, <1>2, <1>3

\* A stored digest is never replaced, only forgotten after the packet's life.
THEOREM FirstDigestAlwaysStands == Spec => FirstDigestStands
<1>1. TypeOK /\ [Next]_vars => [DigestKept]_vars
  <2> SUFFICES ASSUME TypeOK, [Next]_vars PROVE DigestKept
    OBVIOUS
  <2>1. CASE UNCHANGED seen
    BY <2>1 DEF DigestKept
  <2>2. ASSUME NEW clock \in Clocks, EvictExpired(clock)
        PROVE  DigestKept
    BY <2>2, StoreShrinks DEF DigestKept
  <2>3. ASSUME NEW h \in Handler, Ingest(h)
        PROVE  DigestKept
    <3>1. CASE MakeRoom(h)
      BY <2>1, <2>2, <3>1, RoomCases DEF store
    <3>2. CASE Commit(h)
      <4>1. UNCHANGED seen \/ (seen[handler[h].packet] = NoBody
                                 /\ seen' = [seen EXCEPT ![handler[h].packet] = handler[h].body])
        BY <3>2 DEF Commit, store
      <4> QED BY <2>1, <4>1 DEF DigestKept, TypeOK
    <3> QED BY <2>1, <2>3, <3>1, <3>2 DEF Ingest, Validate, Lookup, Apply, store
  <2>4. CASE Maintain
    BY <2>2, <2>4 DEF Maintain, Clocks
  <2> QED BY <2>1, <2>3, <2>4, RowsKept DEF Next
<1> QED BY <1>1, TypeCorrect, PTL DEF Spec, FirstDigestStands
=============================================================================
