--------------------------- MODULE DispatchProofs ---------------------------
(***************************************************************************)
(* Proofs about DispatchDesk, for any responders, incidents, objects and   *)
(* uploads, any number of deaths and a log of any length.  The last part is *)
(* about what a restart makes of the log: the library's fold, of one more  *)
(* packet, is the reducer's step on the fold of the rest.  The induction   *)
(* theorems take an operator, which the provers cannot instantiate; the    *)
(* induction here is on the smallest element of a set of counterexamples.  *)
(***************************************************************************)
EXTENDS DispatchDesk, WellFoundedInduction, TLAPS

Holdings == {Free} \cup {Responder(s, i) : s \in Statuses \ {"available"}, i \in Incidents}
Versions == {Record(0, None)} \cup {Record(v, c) : v \in 1..MaxVersion, c \in Contents}
DeskTypes == {"RESPONDER_ASSIGNED"} \cup {PacketType(a) : a \in Actions}

IsDeskPacket(p) == p.source = Desk /\ p.about \in Incidents /\ p.ref \in Responders /\ p.type \in DeskTypes

\* The log is a sequence of packets that phones or the desk made.
LogShape ==
  /\ \E S : log \in Seq(S)
  /\ Len(log) <= MaxPackets
  /\ \A k \in DOMAIN log : log[k] \in FieldPackets \/ IsDeskPacket(log[k])

NoticeSet == {Notice(o, v, c) : o \in Objects, v \in 1..MaxVersion, c \in Contents \cup {None}}

\* What a request that was cut may leave of one responder.
Announced(r) == \A s \in PathTo(responders[r].status) : Step(r, PacketType(s), responders[r].incident) \in outbound

Trails(r) ==
  responders[r] # Free =>
    \E k \in DOMAIN log :
      /\ IsOf(log[k], r)
      /\ log[k].about = responders[r].incident
      /\ log[k].type \in LastTypes(responders[r].status)
      /\ \A j \in DOMAIN log : j > k => ~IsOf(log[j], r)

\* The inductive invariant: the shapes, and the three relations between what
\* the desk shows and what is stored and queued.
IInv ==
  /\ up \in BOOLEAN /\ deaths \in 0..MaxDeaths /\ (~up => incidents = NoIncidents)
  /\ LogShape
  /\ notices \subseteq NoticeSet
  /\ responders \in [Responders -> Holdings]
  /\ records \in [Objects -> Versions]
  /\ \A r \in Responders : Announced(r) /\ Trails(r)
  /\ RecordsFollowNotices

-----------------------------------------------------------------------------
(* Statuses and types *)

\* A responder's status is available exactly when nothing holds the responder.
LEMMA HoldingFacts ==
  ASSUME NEW h \in Holdings
  PROVE  /\ h.status \in Statuses
         /\ h # Free => h.status # "available" /\ h.incident \in Incidents /\ h = Responder(h.status, h.incident)
         /\ h = Free => h.status = "available" /\ h.incident = None
  BY DEF Holdings, Free, Responder, Statuses

\* Each action follows the status it is taken in by one step.
LEMMA ActionFacts ==
  ASSUME NEW action \in Actions
  PROVE  /\ PacketType(action) \in DeskTypes
         /\ Before(action) \in Statuses \ {"available"}
         /\ PacketType(action) \in LastTypes(Before(action))
         /\ action # "resolved" =>
              action \in Statuses \ {"available"} /\ PathTo(action) = PathTo(Before(action)) \cup {action}
<1>1. PacketType(action) \in DeskTypes BY DEF DeskTypes
<1>2. PacketType(action) \in LastTypes(Before(action)) BY DEF LastTypes
<1> QED BY <1>1, <1>2 DEF Actions, Before, Statuses, PathTo

LEMMA StatusFacts ==
  /\ PathTo("available") = {} /\ PathTo("assigned") = {"assigned"}
  /\ PacketType("assigned") = "RESPONDER_ASSIGNED"
  /\ "assigned" \in Statuses \ {"available"}
  /\ \A s \in Statuses : PacketType(s) \in LastTypes(s)
  BY DEF PathTo, PacketType, Statuses, LastTypes

\* How far a request got says whether the process lives.
LEMMA CutFacts ==
  ASSUME NEW progress, Cut(progress), deaths \in 0..MaxDeaths
  PROVE  up' = (progress = "done") /\ up' \in BOOLEAN /\ deaths' \in 0..MaxDeaths
  BY BoundsAssumption DEF Cut

\* Storing a packet appends it to the log.
LEMMA StoreFacts ==
  ASSUME NEW p, NEW progress, Store(p, progress), LogShape
  PROVE  /\ \E S : log' \in Seq(S)
         /\ Len(log) \in Nat /\ Len(log)' <= MaxPackets
         /\ DOMAIN log' = DOMAIN log \cup {Len(log) + 1}
         /\ \A k \in DOMAIN log : k < Len(log) + 1
         /\ log'[Len(log) + 1] = p
         /\ \A k \in DOMAIN log : log'[k] = log[k]
         /\ incidents' = (IF progress = "done" THEN ApplyToIncidents(incidents, p) ELSE NoIncidents)
<1>1. PICK S : log \in Seq(S) BY DEF LogShape
<1> DEFINE T == S \cup {p}
<1>2. log \in Seq(T) /\ p \in T BY <1>1
<1>3. log' = Append(log, p) /\ Len(log) < MaxPackets BY DEF Store
<1>4. log' \in Seq(T) BY <1>2, <1>3
<1> HIDE DEF T
<1>5. Len(log') = Len(log) + 1 BY <1>2, <1>3
<1>6. Len(log) \in Nat BY <1>2
<1>7. DOMAIN log = 1..Len(log) /\ DOMAIN log' = 1..Len(log') BY <1>2, <1>4
<1>8. log'[Len(log) + 1] = p /\ \A k \in 1..Len(log) : log'[k] = log[k] BY <1>2, <1>3, <1>6
<1> QED BY <1>3, <1>4, <1>5, <1>6, <1>7, <1>8, BoundsAssumption DEF Store

-----------------------------------------------------------------------------
(* One responder at a time *)

\* A packet that is not of responder r leaves what is known of r as it is.
LEMMA OtherTrails ==
  ASSUME NEW p, NEW progress, Store(p, progress), LogShape, NEW r \in Responders,
         ~IsOf(p, r), responders'[r] = responders[r], Trails(r)
  PROVE  Trails(r)'
<1>1. CASE responders[r] = Free BY <1>1 DEF Trails
<1>2. CASE responders[r] # Free
  <2>1. PICK k \in DOMAIN log :
          /\ IsOf(log[k], r)
          /\ log[k].about = responders[r].incident
          /\ log[k].type \in LastTypes(responders[r].status)
          /\ \A j \in DOMAIN log : j > k => ~IsOf(log[j], r)
    BY <1>2 DEF Trails
  <2>2. k \in DOMAIN log' /\ log'[k] = log[k] BY StoreFacts
  <2>3. \A j \in DOMAIN log' : j > k => ~IsOf(log'[j], r)
    BY <2>1, StoreFacts
  <2> QED BY <2>1, <2>2, <2>3 DEF Trails
<1> QED BY <1>1, <1>2

\* The packet just stored is the last one of its responder.
LEMMA NewTrails ==
  ASSUME NEW p, NEW progress, Store(p, progress), LogShape, NEW r \in Responders,
         IsOf(p, r),
         responders'[r] # Free =>
           p.about = responders'[r].incident /\ p.type \in LastTypes(responders'[r].status)
  PROVE  Trails(r)'
<1> DEFINE k == Len(log) + 1
<1>1. k \in DOMAIN log' /\ log'[k] = p BY StoreFacts
<1>2. \A j \in DOMAIN log' : ~(j > k) BY StoreFacts
<1> HIDE DEF k
<1> QED BY <1>1, <1>2 DEF Trails

\* The log keeps its shape when a packet of a phone or of the desk is stored.
LEMMA LogKept ==
  ASSUME NEW p, NEW progress, Store(p, progress), LogShape, p \in FieldPackets \/ IsDeskPacket(p)
  PROVE  LogShape'
<1>1. \A k \in DOMAIN log' : log'[k] \in FieldPackets \/ IsDeskPacket(log'[k])
  BY StoreFacts DEF LogShape
<1> QED BY <1>1, StoreFacts DEF LogShape

\* What was announced stays announced.
LEMMA AnnouncedKept ==
  ASSUME NEW r \in Responders, Announced(r), responders'[r] = responders[r], outbound \subseteq outbound'
  PROVE  Announced(r)'
BY DEF Announced

\* A packet of the desk about a responder, as the desk builds it.
LEMMA StatePacketFacts ==
  ASSUME NEW r \in Responders, NEW type \in DeskTypes, NEW i \in Incidents
  PROVE  LET p == StatePacket(r, type, i)
         IN  IsDeskPacket(p) /\ IsOf(p, r) /\ p.about = i /\ p.type = type /\ p.ref = r
BY DEF StatePacket, Build, IsDeskPacket, IsOf

\* Records are as well off as before when only more is queued.
LEMMA RecordsKept ==
  ASSUME RecordsFollowNotices, records' = records, notices' = notices, outbound \subseteq outbound'
  PROVE  RecordsFollowNotices'
BY DEF RecordsFollowNotices

\* A request about a responder keeps the invariant, however far it gets, if its
\* packet may follow the responder's status and what is written goes with it.
LEMMA MoveKeeps ==
  ASSUME IInv, NEW r \in Responders, NEW type \in DeskTypes, NEW i \in Incidents, NEW after \in Holdings,
         NEW progress \in Progress, MoveResponder(r, type, i, after, progress),
         responders[r] # Free => i = responders[r].incident /\ type \in LastTypes(responders[r].status),
         after # Free =>
           /\ after.incident = i /\ type = PacketType(after.status) /\ type \in LastTypes(after.status)
           /\ PathTo(after.status) = PathTo(responders[r].status) \cup {after.status}
  PROVE  IInv'
<1> DEFINE p == StatePacket(r, type, i)
<1>1. LogShape /\ deaths \in 0..MaxDeaths /\ responders \in [Responders -> Holdings]
  BY DEF IInv
<1>2. /\ up /\ Cut(progress) /\ Store(p, progress)
      /\ outbound' = (IF progress = "stored" THEN outbound ELSE outbound \cup {Step(r, type, i)})
      /\ responders' = (IF progress = "done" THEN [responders EXCEPT ![r] = after] ELSE responders)
      /\ notices' = notices /\ records' = records
  BY DEF MoveResponder, Written
<1>3. up' \in BOOLEAN /\ deaths' \in 0..MaxDeaths /\ (up' = (progress = "done"))
  BY <1>1, <1>2, CutFacts
<1>4. ~up' => incidents' = NoIncidents
  BY <1>1, <1>2, <1>3, StoreFacts
<1>5. IsDeskPacket(p) /\ IsOf(p, r) /\ p.about = i /\ p.type = type /\ p.ref = r
  BY StatePacketFacts
<1> HIDE DEF p
<1>6. LogShape'
  BY <1>1, <1>2, <1>5, LogKept
<1>7. responders' \in [Responders -> Holdings]
  BY <1>1, <1>2
<1>8. outbound \subseteq outbound' BY <1>2
<1>9. RecordsFollowNotices' BY <1>2, <1>8, RecordsKept DEF IInv
<1>10. ASSUME NEW q \in Responders PROVE Announced(q)' /\ Trails(q)'
  <2>1. Announced(q) /\ Trails(q) BY DEF IInv
  <2>2. CASE q # r
    <3>1. responders'[q] = responders[q] BY <1>1, <1>2, <2>2
    <3>2. ~IsOf(p, q) BY <1>5, <2>2 DEF IsOf
    <3> QED BY <1>1, <1>2, <1>8, <2>1, <3>1, <3>2, AnnouncedKept, OtherTrails
  <2>3. CASE q = r /\ progress # "done"
    <3>1. responders'[q] = responders[q] BY <1>2, <2>3
    <3>2. Announced(q)' BY <1>8, <2>1, <3>1, AnnouncedKept
    <3>3. Trails(q)' BY <1>1, <1>2, <1>5, <2>3, <3>1, NewTrails
    <3> QED BY <3>2, <3>3
  <2>4. CASE q = r /\ progress = "done"
    <3>1. responders'[q] = after BY <1>1, <1>2, <2>4
    <3>2. Trails(q)' BY <1>1, <1>2, <1>5, <2>4, <3>1, NewTrails
    <3>3. CASE after = Free
      <4>1. PathTo(responders'[q].status) = {} BY <3>1, <3>3, HoldingFacts, StatusFacts
      <4> QED BY <3>2, <4>1 DEF Announced
    <3>4. CASE after # Free
      <4>1. \A s \in PathTo(responders[r].status) : Step(r, PacketType(s), i) \in outbound
        <5>1. CASE responders[r] = Free
          BY <1>1, <5>1, HoldingFacts, StatusFacts
        <5>2. CASE responders[r] # Free
          BY <2>1, <2>4, <5>2 DEF Announced
        <5> QED BY <5>1, <5>2
      <4>2. Step(r, PacketType(after.status), i) \in outbound' BY <1>2, <2>4, <3>4
      <4>3. \A s \in PathTo(after.status) : Step(r, PacketType(s), after.incident) \in outbound'
        BY <1>8, <3>4, <4>1, <4>2
      <4> QED BY <2>4, <3>1, <3>2, <4>3 DEF Announced
    <3> QED BY <3>3, <3>4
  <2> QED BY <2>2, <2>3, <2>4
<1> QED BY <1>2, <1>3, <1>4, <1>6, <1>7, <1>9, <1>10 DEF IInv

\* An assignment starts from a responder whom nothing holds.
LEMMA AssignKeeps ==
  ASSUME IInv, NEW r \in Responders, NEW i \in Incidents, NEW progress \in Progress,
         AssignResponder(r, i, progress)
  PROVE  IInv'
<1> DEFINE after == Responder("assigned", i)
<1>1. responders[r] = Free /\ MoveResponder(r, "RESPONDER_ASSIGNED", i, after, progress)
  BY DEF AssignResponder, IsAvailable
<1>2. after \in Holdings /\ after.incident = i /\ after.status = "assigned"
  BY StatusFacts DEF Holdings, Responder
<1>3. PathTo(responders[r].status) = {} BY <1>1, StatusFacts DEF Free, Responder
<1>4. "RESPONDER_ASSIGNED" \in DeskTypes BY DEF DeskTypes
<1>5. "RESPONDER_ASSIGNED" \in LastTypes("assigned") BY StatusFacts
<1> HIDE DEF after
<1> QED BY <1>1, <1>2, <1>3, <1>4, <1>5, StatusFacts, MoveKeeps

\* An action takes a responder one step on, or lets go of the responder.
LEMMA ActKeeps ==
  ASSUME IInv, NEW r \in Responders, NEW action \in Actions, NEW progress \in Progress,
         UpdateResponderState(r, action, progress)
  PROVE  IInv'
<1> DEFINE i == responders[r].incident
<1> DEFINE type == PacketType(action)
<1> DEFINE after == After(action, i)
<1>1. responders[r].status = Before(action) /\ MoveResponder(r, type, i, after, progress)
  BY DEF UpdateResponderState, Takes
<1>2. responders[r] \in Holdings BY DEF IInv
<1>3. responders[r] # Free /\ i \in Incidents
  BY <1>1, <1>2, ActionFacts, HoldingFacts
<1>4. type \in DeskTypes /\ type \in LastTypes(responders[r].status)
  BY <1>1, ActionFacts
<1>5. after \in Holdings
  BY <1>3, ActionFacts DEF After, Holdings
<1>6. after # Free =>
        /\ after.incident = i /\ type = PacketType(after.status) /\ type \in LastTypes(after.status)
        /\ PathTo(after.status) = PathTo(responders[r].status) \cup {after.status}
  <2>1. SUFFICES ASSUME action # "resolved"
                 PROVE  after # Free =>
        /\ after.incident = i /\ type = PacketType(after.status) /\ type \in LastTypes(after.status)
        /\ PathTo(after.status) = PathTo(responders[r].status) \cup {after.status}
    BY DEF After
  <2>2. after.status = action /\ after.incident = i BY <2>1 DEF After, Responder
  <2>3. action \in Statuses BY <2>1, ActionFacts
  <2> QED BY <1>1, <2>1, <2>2, <2>3, ActionFacts, StatusFacts
<1> HIDE DEF i, type, after
<1>7. i = responders[r].incident BY DEF i
<1> QED BY <1>1, <1>3, <1>4, <1>5, <1>6, <1>7, MoveKeeps

\* A packet of a phone is not of the desk, so no responder's record lags further.
LEMMA IngestKeeps ==
  ASSUME IInv, NEW p \in FieldPackets, NEW progress \in Progress, Ingest(p, progress)
  PROVE  IInv'
<1>1. LogShape /\ deaths \in 0..MaxDeaths BY DEF IInv
<1>2. /\ Cut(progress) /\ Store(p, progress)
      /\ notices' = notices /\ outbound' = outbound /\ responders' = responders /\ records' = records
  BY DEF Ingest
<1>3. up' \in BOOLEAN /\ deaths' \in 0..MaxDeaths /\ (up' = (progress = "done"))
  BY <1>1, <1>2, CutFacts
<1>4. ~up' => incidents' = NoIncidents BY <1>1, <1>2, <1>3, StoreFacts
<1>5. LogShape' BY <1>1, <1>2, LogKept
<1>6. \A r \in Responders : Announced(r)' /\ Trails(r)'
  <2>1. TAKE r \in Responders
  <2>2. Announced(r) /\ Trails(r) BY DEF IInv
  <2>3. ~IsOf(p, r) BY FieldAssumption DEF IsOf
  <2> QED BY <1>1, <1>2, <2>2, <2>3, AnnouncedKept, OtherTrails
<1>7. RecordsFollowNotices' BY <1>2, RecordsKept DEF IInv
<1> QED BY <1>2, <1>3, <1>4, <1>5, <1>6, <1>7 DEF IInv

\* Steps that leave the log and the responders alone leave alone what the desk
\* shows of them.
LEMMA RespondersKept ==
  ASSUME IInv, log' = log, responders' = responders, outbound \subseteq outbound'
  PROVE  LogShape' /\ (\A r \in Responders : Announced(r)' /\ Trails(r)')
<1>1. LogShape' BY DEF IInv, LogShape
<1>2. ASSUME NEW r \in Responders PROVE Announced(r)' /\ Trails(r)'
  <2>1. Announced(r) /\ Trails(r) BY DEF IInv
  <2>2. Announced(r)' BY <2>1, AnnouncedKept
  <2>3. Trails(r)' BY <2>1 DEF Trails
  <2> QED BY <2>2, <2>3
<1> QED BY <1>1, <1>2

-----------------------------------------------------------------------------
(* Records *)

\* A request about a record keeps the invariant, however far it gets: the next
\* version is one more than the desk's, which no notice was ahead of by more.
LEMMA PublishKeeps ==
  ASSUME IInv, NEW o \in Objects, NEW c \in Contents, NEW progress \in Progress,
         PublishRecord(o, c, progress)
  PROVE  IInv'
<1> DEFINE v == records[o].version + 1
<1> DEFINE n == Notice(o, v, Said(o, c))
<1>1. deaths \in 0..MaxDeaths /\ records \in [Objects -> Versions] /\ RecordsFollowNotices
  BY DEF IInv
<1>2. /\ v <= MaxVersion /\ Cut(progress)
      /\ notices' = notices \cup {n}
      /\ outbound' = (IF progress = "stored" THEN outbound ELSE outbound \cup {n})
      /\ records' = (IF progress = "done" THEN [records EXCEPT ![o] = Record(v, c)] ELSE records)
      /\ incidents' = (IF progress = "done" THEN incidents ELSE NoIncidents)
      /\ log' = log /\ responders' = responders
  BY DEF PublishRecord, Revised
<1>3. \A q \in Objects : records[q].version \in Nat /\ records[q] \in Versions
  BY <1>1, BoundsAssumption DEF Versions, Record
<1>4. v \in 1..MaxVersion BY <1>2, <1>3, BoundsAssumption
<1>5. n \in NoticeSet BY <1>4 DEF NoticeSet, Said
<1>6. Record(v, c) \in Versions /\ Record(v, c).version = v /\ Record(v, c).content = c
  BY <1>4 DEF Versions, Record
<1>7. n.object = o /\ n.version = v BY DEF Notice
<1>8. outbound \subseteq outbound' BY <1>2
<1>9. records' \in [Objects -> Versions] BY <1>1, <1>2, <1>6
<1>10. RecordsFollowNotices'
  <2>1. ASSUME NEW q \in Objects
        PROVE  /\ records'[q].version > 1 \/ (q \notin Seeded /\ records'[q].version = 1) =>
                    Notice(q, records'[q].version, Said(q, records'[q].content)) \in outbound'
               /\ \A m \in notices' : m.object = q => m.version <= records'[q].version + 1
    <3> HIDE DEF v
    <3>0. v = records[o].version + 1 BY DEF v
    <3>1. CASE q # o
      <4>1. records'[q] = records[q] BY <1>1, <1>2, <3>1
      <4>2. n.object # q BY <1>7, <3>1
      <4> HIDE DEF n
      <4> QED BY <1>1, <1>2, <1>8, <4>1, <4>2 DEF RecordsFollowNotices
    <3>2. CASE q = o /\ progress # "done"
      <4>1. records'[q] = records[q] BY <1>2, <3>2
      <4> HIDE DEF n
      <4>2. n.version <= records[q].version + 1 BY <1>3, <1>7, <3>0, <3>2
      <4> QED BY <1>1, <1>2, <1>8, <4>1, <4>2 DEF RecordsFollowNotices
    <3>3. CASE q = o /\ progress = "done"
      <4>1. records'[q] = Record(v, c) BY <1>1, <1>2, <3>3
      <4>2. records'[q].version = v /\ records'[q].content = c BY <1>6, <4>1
      <4>3. Notice(q, v, Said(q, c)) \in outbound' BY <1>2, <3>3
      <4> HIDE DEF n
      <4>4. \A m \in notices : m.object = q => m.version <= v BY <1>1, <3>0, <3>3 DEF RecordsFollowNotices
      <4>5. v \in Nat BY <1>4
      <4>6. \A m \in notices : m.object = q => m.version <= v + 1
        <5>1. TAKE m \in notices
        <5>2. m \in NoticeSet BY DEF IInv
        <5>3. m.version \in Nat BY <5>2, BoundsAssumption DEF NoticeSet, Notice
        <5> QED BY <4>4, <4>5, <5>3
      <4>7. n.version <= v + 1 BY <1>7, <4>5
      <4> QED BY <1>2, <4>2, <4>3, <4>6, <4>7
    <3> QED BY <3>1, <3>2, <3>3
  <2> QED BY <2>1 DEF RecordsFollowNotices
<1>11. up' \in BOOLEAN /\ deaths' \in 0..MaxDeaths /\ (~up' => incidents' = NoIncidents)
  BY <1>1, <1>2, CutFacts
<1>12. LogShape' /\ (\A r \in Responders : Announced(r)' /\ Trails(r)')
  BY <1>2, <1>8, RespondersKept
<1>13. notices' \subseteq NoticeSet BY <1>2, <1>5 DEF IInv
<1>14. responders' \in [Responders -> Holdings] BY <1>2 DEF IInv
<1> QED BY <1>9, <1>10, <1>11, <1>12, <1>13, <1>14 DEF IInv

-----------------------------------------------------------------------------
(* Death and start *)

LEMMA DieKeeps ==
  ASSUME IInv, Die PROVE IInv'
<1>1. /\ Cut("stored") /\ incidents' = NoIncidents /\ log' = log /\ notices' = notices
      /\ outbound' = outbound /\ responders' = responders /\ records' = records
  BY DEF Die
<1>2. up' \in BOOLEAN /\ deaths' \in 0..MaxDeaths BY <1>1, CutFacts DEF IInv
<1>3. LogShape' /\ (\A r \in Responders : Announced(r)' /\ Trails(r)') BY <1>1, RespondersKept
<1>4. RecordsFollowNotices' BY <1>1, RecordsKept DEF IInv
<1> QED BY <1>1, <1>2, <1>3, <1>4 DEF IInv

\* Start keeps a responder as it was or lets it go.
LEMMA StartKeeps ==
  ASSUME IInv, Start PROVE IInv'
<1>1. /\ up' = TRUE /\ log' = log /\ notices' = notices /\ outbound' = outbound
      /\ records' = records /\ deaths' = deaths
      /\ responders' = [r \in Responders |-> IF Stale(responders[r], incidents') THEN Free ELSE responders[r]]
  BY DEF Start
<1>2. responders \in [Responders -> Holdings] BY DEF IInv
<1>3. \A r \in Responders : responders'[r] = Free \/ responders'[r] = responders[r] BY <1>1
<1>4. responders' \in [Responders -> Holdings] BY <1>1, <1>2 DEF Holdings
<1>5. LogShape' BY <1>1 DEF IInv, LogShape
<1>6. ASSUME NEW r \in Responders PROVE Announced(r)' /\ Trails(r)'
  <2>1. Announced(r) /\ Trails(r) BY DEF IInv
  <2>2. CASE responders'[r] = Free
    <3>1. PathTo(responders'[r].status) = {} BY <2>2, StatusFacts DEF Free, Responder
    <3> QED BY <2>2, <3>1 DEF Announced, Trails
  <2>3. CASE responders'[r] = responders[r]
    <3>1. Announced(r)' BY <1>1, <2>1, <2>3 DEF Announced
    <3>2. Trails(r)' BY <1>1, <2>1, <2>3 DEF Trails
    <3> QED BY <3>1, <3>2
  <2> QED BY <1>3, <2>2, <2>3
<1>7. RecordsFollowNotices' BY <1>1, RecordsKept DEF IInv
<1> QED BY <1>1, <1>4, <1>5, <1>6, <1>7 DEF IInv

-----------------------------------------------------------------------------
(* Theorems *)

LEMMA DispatchInit == Init => IInv
<1> SUFFICES ASSUME Init PROVE IInv
  OBVIOUS
<1>1. LogShape
  <2>1. log = <<>> BY DEF Init
  <2>2. log \in Seq({}) BY <2>1
  <2>3. Len(log) = 0 /\ DOMAIN log = {} BY <2>1
  <2> QED BY <2>2, <2>3, BoundsAssumption DEF LogShape
<1>2. responders \in [Responders -> Holdings] /\ \A r \in Responders : responders[r] = Free
  BY DEF Init, Holdings
<1>3. \A r \in Responders : Announced(r) /\ Trails(r)
  BY <1>2, HoldingFacts, StatusFacts DEF Announced, Trails, Holdings
<1>4. PICK c \in Contents : records = [o \in Objects |-> IF o \in Seeded THEN Record(1, c) ELSE Record(0, None)]
  BY DEF Init
<1>5. \A o \in Objects : records[o].version = (IF o \in Seeded THEN 1 ELSE 0)
  BY <1>4 DEF Record
<1>6. RecordsFollowNotices BY <1>5 DEF RecordsFollowNotices, Init
<1>7. records \in [Objects -> Versions]
  <2>1. 1 \in 1..MaxVersion BY BoundsAssumption
  <2> QED BY <1>4, <2>1 DEF Versions
<1> QED BY <1>1, <1>2, <1>3, <1>6, <1>7, BoundsAssumption DEF Init, IInv

LEMMA DispatchStep == IInv /\ [Next]_vars => IInv'
<1> SUFFICES ASSUME IInv, [Next]_vars PROVE IInv'
  OBVIOUS
<1>1. ASSUME NEW progress \in Progress, NEW p \in FieldPackets, Ingest(p, progress) PROVE IInv'
  BY <1>1, IngestKeeps
<1>2. ASSUME NEW progress \in Progress, NEW r \in Responders, NEW i \in Incidents, AssignResponder(r, i, progress)
      PROVE  IInv'
  BY <1>2, AssignKeeps
<1>3. ASSUME NEW progress \in Progress, NEW r \in Responders, NEW action \in Actions,
             UpdateResponderState(r, action, progress)
      PROVE  IInv'
  BY <1>3, ActKeeps
<1>4. ASSUME NEW progress \in Progress, NEW o \in Objects, NEW c \in Contents,
             UpdateRegionalRecord(o, c, progress) \/ CreateRegionalCentre(o, c, progress)
      PROVE  IInv'
  BY <1>4, PublishKeeps DEF UpdateRegionalRecord, CreateRegionalCentre
<1>5. ASSUME Die PROVE IInv' BY <1>5, DieKeeps
<1>6. ASSUME Start PROVE IInv' BY <1>6, StartKeeps
<1>7. ASSUME UNCHANGED vars PROVE IInv'
  <2>1. /\ up' = up /\ deaths' = deaths /\ incidents' = incidents /\ log' = log /\ notices' = notices
        /\ outbound' = outbound /\ responders' = responders /\ records' = records
    BY <1>7 DEF vars
  <2>2. LogShape' /\ (\A r \in Responders : Announced(r)' /\ Trails(r)') BY <2>1, RespondersKept
  <2>3. RecordsFollowNotices' BY <2>1, RecordsKept DEF IInv
  <2> QED BY <2>1, <2>2, <2>3 DEF IInv
<1> QED BY <1>1, <1>2, <1>3, <1>4, <1>5, <1>6, <1>7 DEF Next

\* The desk's invariant: whatever requests run and wherever deaths cut them,
\* what the desk shows of responders and records lags what was published by at
\* most the one step that was cut.
THEOREM DispatchInvariant == Spec => []IInv
<1>1. Init => IInv BY DispatchInit
<1>2. IInv /\ [Next]_vars => IInv' BY DispatchStep
<1> QED BY <1>1, <1>2, PTL DEF Spec

\* Every variable keeps its shape.
THEOREM DispatchTypeCorrect == Spec => []TypeOK
<1>1. IInv => TypeOK
  BY DEF IInv, LogShape, TypeOK, NoticeSet, Holdings, Versions, IsDeskPacket, DeskTypes
<1> QED BY <1>1, DispatchInvariant, PTL

\* No step is shown at the desk that was not queued for the field first.
THEOREM StepsAreAnnounced == Spec => []HeldIsAnnounced
<1>1. IInv => HeldIsAnnounced BY DEF IInv, HeldIsAnnounced, Announced
<1> QED BY <1>1, DispatchInvariant, PTL

\* After any deaths the desk is at most one step behind what it has published.
THEOREM DeskLagsOneStep == Spec => []DeskTrailsField
<1>1. IInv => DeskTrailsField BY DEF IInv, DeskTrailsField, Trails
<1> QED BY <1>1, DispatchInvariant, PTL

\* The desk's records never fall behind their notices by more than one version.
THEOREM RecordVersionsHold == Spec => []RecordsFollowNotices
<1>1. IInv => RecordsFollowNotices BY DEF IInv
<1> QED BY <1>1, DispatchInvariant, PTL

\* A start never leaves a responder with a closed or unknown incident.
THEOREM StartReconciles == Spec => StartReleases
<1> DEFINE Released ==
      ~up /\ up' =>
        \A r \in Responders : responders'[r] # Free =>
          LET inc == incidents'[responders'[r].incident]
          IN  inc # None /\ inc.state \notin {"resolved", "cancelled", "expired"}
<1>1. IInv /\ [Next]_vars => [Released]_vars
  <2> SUFFICES ASSUME IInv, Next, ~up, up' PROVE Released
    BY DEF vars
  <2>1. Start
    BY DEF Next, Ingest, AssignResponder, UpdateResponderState, MoveResponder, UpdateRegionalRecord,
           CreateRegionalCentre, PublishRecord, Die
  <2>2. SUFFICES ASSUME NEW r \in Responders, responders'[r] # Free
                 PROVE  LET inc == incidents'[responders'[r].incident]
                        IN  inc # None /\ inc.state \notin {"resolved", "cancelled", "expired"}
    OBVIOUS
  <2>3. responders'[r] = (IF Stale(responders[r], incidents') THEN Free ELSE responders[r])
    BY <2>1 DEF Start
  <2>4. responders'[r] = responders[r] /\ ~Stale(responders[r], incidents') BY <2>2, <2>3
  <2>5. responders[r] \in Holdings BY DEF IInv
  <2>6. responders[r].incident # None BY <2>2, <2>4, <2>5, HoldingFacts, NoneAssumption
  <2> QED BY <2>4, <2>6 DEF Stale, ClosedStates
<1> QED BY <1>1, DispatchInvariant, PTL DEF Spec, StartReleases

-----------------------------------------------------------------------------
(* What a restart rebuilds *)

\* A set of natural numbers has a smallest one.
LEMMA Smallest ==
  ASSUME NEW T \in SUBSET Nat, T # {}
  PROVE  \E x \in T : \A y \in T : x <= y
<1>1. IsWellFoundedOn(OpToRel(<, Nat), Nat)
  BY NatLessThanWellFounded
<1>2. PICK x \in T : \A y \in T : ~(<<y, x>> \in OpToRel(<, Nat))
  BY <1>1, WFMin
<1>3. \A y \in T : ~(y < x)
  BY <1>2 DEF OpToRel
<1> QED BY <1>3

LEMMA MaxFacts ==
  ASSUME NEW m \in Nat, NEW t \in SUBSET (1..m), t # {}
  PROVE  Max(t) \in t /\ \A y \in t : y <= Max(t)
<1> DEFINE D == {d \in Nat : m - d \in t}
<1>1. D # {}
  <2>1. PICK y \in t : TRUE
    OBVIOUS
  <2>2. y \in 1..m
    OBVIOUS
  <2>3. m - y \in Nat /\ m - (m - y) = y
    BY <2>2
  <2> QED BY <2>1, <2>3
<1>2. PICK u \in D : \A v \in D : u <= v
  BY <1>1, Smallest
<1>3. m - u \in t
  BY <1>2
<1>4. ASSUME NEW y \in t PROVE m - u >= y
  <2>1. y \in 1..m
    OBVIOUS
  <2>2. m - y \in Nat /\ m - (m - y) = y
    BY <2>1
  <2>3. m - y \in D
    BY <2>2
  <2> QED BY <1>2, <2>1, <2>2, <2>3
<1> QED BY <1>3, <1>4 DEF Max

LEMMA IntervalFacts ==
  ASSUME NEW n \in Nat, n # 0
  PROVE  Max(1..n) = n /\ (1..n) \ {n} = 1..(n - 1) /\ 1..n # {}
<1>1. n \in 1..n
  OBVIOUS
<1>2. Max(1..n) \in 1..n /\ \A y \in 1..n : y <= Max(1..n)
  BY <1>1, MaxFacts
<1>3. Max(1..n) = n
  BY <1>1, <1>2
<1>4. ASSUME NEW y PROVE y \in (1..n) \ {n} <=> y \in 1..(n - 1)
  OBVIOUS
<1> QED BY <1>1, <1>3, <1>4

\* The fold of the library, over the indices up to m.
IsFold(s, m, f) ==
  f = [t \in SUBSET (1..m) |->
         IF t = {} THEN NoIncidents ELSE ApplyToIncidents(f[t \ {Max(t)}], s[Max(t)])]

LEMMA ReplayedIs ==
  ASSUME NEW S, NEW s \in Seq(S)
  PROVE  Replayed(s) = (CHOOSE f : IsFold(s, Len(s), f))[1..Len(s)]
<1>1. DOMAIN s = 1..Len(s)
  OBVIOUS
<1> QED BY <1>1 DEF Replayed, FoldLeft, MapThenFoldSet, IsFold

\* One more index.
LEMMA FoldGrows ==
  ASSUME NEW s, NEW m \in Nat, NEW f, IsFold(s, m, f)
  PROVE  \E g : IsFold(s, m + 1, g)
<1> DEFINE g == [t \in SUBSET (1..(m + 1)) |->
                  IF t = {} THEN NoIncidents ELSE ApplyToIncidents(f[t \ {Max(t)}], s[Max(t)])]
<1>1. f = [t \in SUBSET (1..m) |->
             IF t = {} THEN NoIncidents ELSE ApplyToIncidents(f[t \ {Max(t)}], s[Max(t)])]
  BY DEF IsFold
<1>2. ASSUME NEW t \in SUBSET (1..m) PROVE g[t] = f[t]
  <2>1. t \in SUBSET (1..(m + 1))
    OBVIOUS
  <2>2. f[t] = IF t = {} THEN NoIncidents ELSE ApplyToIncidents(f[t \ {Max(t)}], s[Max(t)])
    BY <1>1
  <2> QED BY <2>1, <2>2
<1>3. ASSUME NEW t \in SUBSET (1..(m + 1)), t # {} PROVE t \ {Max(t)} \in SUBSET (1..m)
  <2> DEFINE x == Max(t)
  <2>1. m + 1 \in Nat
    OBVIOUS
  <2>2. x \in t /\ \A y \in t : y <= x
    BY <1>3, <2>1, MaxFacts
  <2> HIDE DEF x
  <2>3. ASSUME NEW y \in t, y # x PROVE y \in 1..m
    BY <2>2, <2>3
  <2>4. t \ {x} \in SUBSET (1..m)
    BY <2>3
  <2> QED BY <2>4 DEF x
<1>4. ASSUME NEW t \in SUBSET (1..(m + 1))
      PROVE  g[t] = IF t = {} THEN NoIncidents ELSE ApplyToIncidents(g[t \ {Max(t)}], s[Max(t)])
  BY <1>2, <1>3
<1>5. g = [t \in SUBSET (1..(m + 1)) |-> g[t]]
  OBVIOUS
<1> HIDE DEF g
<1>6. g = [t \in SUBSET (1..(m + 1)) |->
             IF t = {} THEN NoIncidents ELSE ApplyToIncidents(g[t \ {Max(t)}], s[Max(t)])]
  BY <1>4, <1>5
<1> QED BY <1>6 DEF IsFold

LEMMA FoldExists ==
  ASSUME NEW s, NEW m \in Nat
  PROVE  \E f : IsFold(s, m, f)
<1> SUFFICES ASSUME ~\E f : IsFold(s, m, f) PROVE FALSE
  OBVIOUS
<1> DEFINE T == {k \in Nat : ~\E f : IsFold(s, k, f)}
<1>1. PICK k \in T : \A j \in T : k <= j
  BY Smallest
<1>2. k # 0
  <2> DEFINE f == [t \in SUBSET (1..0) |-> NoIncidents]
  <2>1. \A t \in SUBSET (1..0) : t = {}
    OBVIOUS
  <2>2. IsFold(s, 0, f)
    BY <2>1 DEF IsFold
  <2> QED BY <1>1, <2>2
<1>3. k - 1 \in Nat /\ (k - 1) + 1 = k
  BY <1>1, <1>2
<1>4. k - 1 \notin T
  BY <1>1, <1>3
<1>5. \E f : IsFold(s, k - 1, f)
  BY <1>3, <1>4
<1> QED BY <1>1, <1>3, <1>5, FoldGrows

Begins(s, u, m) == \A i \in 1..m : u[i] = s[i]

\* Two sequences with a beginning in common are folded alike so far.
LEMMA FoldsAgree ==
  ASSUME NEW s, NEW u, NEW m \in Nat, NEW n \in Nat, m <= n, Begins(s, u, m),
         NEW f, NEW g, IsFold(s, m, f), IsFold(u, n, g)
  PROVE  f[1..m] = g[1..m]
<1> SUFFICES ASSUME f[1..m] # g[1..m] PROVE FALSE
  OBVIOUS
<1> DEFINE T == {k \in 0..m : f[1..k] # g[1..k]}
<1>1. PICK k \in T : \A j \in T : k <= j
  <2>1. T \in SUBSET Nat /\ m \in T
    OBVIOUS
  <2> QED BY <2>1, Smallest
<1>2. 1..k \in SUBSET (1..m) /\ 1..k \in SUBSET (1..n)
  BY <1>1
<1>3. /\ f[1..k] = IF 1..k = {} THEN NoIncidents ELSE ApplyToIncidents(f[(1..k) \ {Max(1..k)}], s[Max(1..k)])
      /\ g[1..k] = IF 1..k = {} THEN NoIncidents ELSE ApplyToIncidents(g[(1..k) \ {Max(1..k)}], u[Max(1..k)])
  BY <1>2 DEF IsFold
<1>4. k # 0
  <2>1. k = 0 => 1..k = {}
    OBVIOUS
  <2> QED BY <1>1, <1>3, <2>1
<1>5. Max(1..k) = k
  BY <1>1, <1>4, IntervalFacts
<1>6. (1..k) \ {k} = 1..(k - 1) /\ k - 1 \in 0..m /\ k - 1 < k /\ k \in 1..m /\ 1..k # {}
  <2>1. k \in Nat /\ k <= m
    BY <1>1
  <2>2. (1..k) \ {k} = 1..(k - 1) /\ 1..k # {}
    BY <1>4, <2>1, IntervalFacts
  <2> QED BY <1>4, <2>1, <2>2
<1>7. f[1..(k - 1)] = g[1..(k - 1)]
  BY <1>1, <1>6
<1>8. u[k] = s[k]
  BY <1>6 DEF Begins
<1> QED BY <1>1, <1>3, <1>5, <1>6, <1>7, <1>8

LEMMA ReplayOfAppend ==
  ASSUME NEW S, NEW s \in Seq(S), NEW x \in S
  PROVE  Replayed(Append(s, x)) = ApplyToIncidents(Replayed(s), x)
<1> DEFINE u == Append(s, x)
<1> PICK n \in Nat : n = Len(s)
  OBVIOUS
<1>1. u \in Seq(S) /\ Len(u) = n + 1 /\ u[n + 1] = x /\ \A i \in 1..n : u[i] = s[i]
  OBVIOUS
<1> HIDE DEF u
<1> DEFINE f == CHOOSE f : IsFold(s, n, f)
           g == CHOOSE g : IsFold(u, n + 1, g)
<1>2. IsFold(s, n, f)
  <2>1. \E a : IsFold(s, n, a)
    BY FoldExists
  <2> QED BY <2>1
<1>3. IsFold(u, n + 1, g)
  <2>1. n + 1 \in Nat
    OBVIOUS
  <2>2. \E a : IsFold(u, n + 1, a)
    BY <2>1, FoldExists
  <2> QED BY <2>2
<1>4. Replayed(s) = f[1..n] /\ Replayed(u) = g[1..(n + 1)]
  <2>1. Replayed(s) = (CHOOSE h : IsFold(s, Len(s), h))[1..Len(s)]
    BY ReplayedIs
  <2>2. Replayed(u) = (CHOOSE h : IsFold(u, Len(u), h))[1..Len(u)]
    BY <1>1, ReplayedIs
  <2> QED BY <1>1, <2>1, <2>2
<1> HIDE DEF f, g
<1>5. f[1..n] = g[1..n]
  <2>1. n + 1 \in Nat /\ n <= n + 1
    OBVIOUS
  <2>2. Begins(s, u, n)
    BY <1>1 DEF Begins
  <2> QED BY <1>2, <1>3, <2>1, <2>2, FoldsAgree
<1>6. /\ 1..(n + 1) \in SUBSET (1..(n + 1)) /\ 1..(n + 1) # {} /\ (1..(n + 1)) \ {n + 1} = 1..n
  <2>1. n + 1 \in Nat /\ n + 1 # 0 /\ (n + 1) - 1 = n
    OBVIOUS
  <2> QED BY <2>1, IntervalFacts
<1>7. Max(1..(n + 1)) = n + 1
  <2>1. n + 1 \in Nat /\ n + 1 # 0
    OBVIOUS
  <2> QED BY <2>1, IntervalFacts
<1>8. g[1..(n + 1)] = ApplyToIncidents(g[1..n], u[n + 1])
  BY <1>3, <1>6, <1>7 DEF IsFold
<1> QED BY <1>1, <1>4, <1>5, <1>8 DEF u

LEMMA ReplayOfNothing == Replayed(<<>>) = NoIncidents
<1>e. <<>> \in Seq(Nat) /\ Len(<<>>) = 0
  OBVIOUS
<1> PICK e \in Seq(Nat) : e = <<>>
  BY <1>e
<1>0. Len(e) = 0
  BY <1>e
<1> DEFINE f == CHOOSE f : IsFold(e, 0, f)
<1>1. IsFold(e, 0, f)
  <2>1. \E a : IsFold(e, 0, a)
    BY FoldExists
  <2> QED BY <2>1
<1>2. Replayed(e) = f[1..0]
  BY <1>0, ReplayedIs
<1> HIDE DEF f
<1>3. 1..0 = {} /\ {} \in SUBSET (1..0)
  OBVIOUS
<1>4. f[{}] = NoIncidents
  BY <1>1, <1>3 DEF IsFold
<1> QED BY <1>2, <1>3, <1>4

\* A request that stored and reduced its packet, and one that stored it and died.
LEMMA StoreRebuilds ==
  ASSUME LogShape, up, RebuiltExactly, NEW p, NEW progress, Store(p, progress), Cut(progress)
  PROVE  RebuiltExactly'
<1>1. PICK S : log \in Seq(S)
  BY DEF LogShape
<1> DEFINE T == S \cup {p}
<1>2. log \in Seq(T) /\ p \in T
  BY <1>1
<1> HIDE DEF T
<1>3. Replayed(Append(log, p)) = ApplyToIncidents(Replayed(log), p)
  BY <1>2, ReplayOfAppend
<1>4. log' = Append(log, p)
  BY DEF Store
<1>5. CASE progress = "done"
  <2>1. incidents' = ApplyToIncidents(incidents, p)
    BY <1>5 DEF Store
  <2>2. Replayed(log)' = Replayed(Append(log, p))
    BY <1>4 DEF Replayed
  <2> QED BY <1>3, <2>1, <2>2 DEF RebuiltExactly
<1>6. CASE progress # "done"
  BY <1>6 DEF Cut, RebuiltExactly
<1> QED BY <1>5, <1>6

LEMMA RebuiltStep ==
  ASSUME IInv, RebuiltExactly, [Next]_vars
  PROVE  RebuiltExactly'
<1>0. LogShape
  BY DEF IInv
<1>1. ASSUME NEW progress \in Progress, NEW p \in FieldPackets, Ingest(p, progress)
      PROVE  RebuiltExactly'
  BY <1>0, <1>1, StoreRebuilds DEF Ingest
<1>2. ASSUME NEW progress \in Progress, NEW r, NEW type, NEW i, NEW after,
             MoveResponder(r, type, i, after, progress)
      PROVE  RebuiltExactly'
  BY <1>0, <1>2, StoreRebuilds DEF MoveResponder
<1>3. ASSUME NEW progress \in Progress, NEW r \in Responders, NEW i \in Incidents,
             AssignResponder(r, i, progress)
      PROVE  RebuiltExactly'
  BY <1>2, <1>3 DEF AssignResponder
<1>4. ASSUME NEW progress \in Progress, NEW r \in Responders, NEW action \in Actions,
             UpdateResponderState(r, action, progress)
      PROVE  RebuiltExactly'
  BY <1>2, <1>4 DEF UpdateResponderState
<1>5. ASSUME NEW progress \in Progress, NEW o, NEW c, PublishRecord(o, c, progress)
      PROVE  RebuiltExactly'
  <2>1. /\ up /\ log' = log /\ up' = (progress = "done")
        /\ incidents' = IF progress = "done" THEN incidents ELSE NoIncidents
    BY <1>5 DEF PublishRecord, Cut
  <2>2. Replayed(log)' = Replayed(log)
    BY <2>1 DEF Replayed
  <2> QED BY <2>1, <2>2 DEF RebuiltExactly
<1>6. CASE Die
  BY <1>6 DEF Die, Cut, RebuiltExactly
<1>7. CASE Start
  <2>1. incidents' = Replayed(log) /\ log' = log
    BY <1>7 DEF Start
  <2>2. Replayed(log)' = Replayed(log)
    BY <2>1 DEF Replayed
  <2> QED BY <2>1, <2>2 DEF RebuiltExactly
<1>8. CASE UNCHANGED vars
  <2>1. log' = log /\ up' = up /\ incidents' = incidents
    BY <1>8 DEF vars
  <2>2. Replayed(log)' = Replayed(log)
    BY <2>1 DEF Replayed
  <2> QED BY <2>1, <2>2 DEF RebuiltExactly
<1> QED BY <1>1, <1>3, <1>4, <1>5, <1>6, <1>7, <1>8
        DEF Next, UpdateRegionalRecord, CreateRegionalCentre

\* A running process holds exactly what a restart would rebuild from its log,
\* whatever requests ran or were cut, and however long the log is.
THEOREM LogRebuildsIncidents == Spec => []RebuiltExactly
<1>1. Init => RebuiltExactly
  BY ReplayOfNothing DEF Init, RebuiltExactly
<1>2. IInv /\ RebuiltExactly /\ [Next]_vars => RebuiltExactly'
  BY RebuiltStep
<1> QED BY <1>1, <1>2, DispatchInvariant, PTL DEF Spec
=============================================================================
