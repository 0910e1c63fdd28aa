------------------------- MODULE DeviceViewsProofs -------------------------
(***************************************************************************)
(* For any packets, handlers, clock readings and number of restarts, the   *)
(* incidents and the map are the same function of the packets applied, in  *)
(* whatever order they came: the newest report is shown, a cancel closes,  *)
(* a closing record wins over its own version.                             *)
(*                                                                         *)
(* The invariant is kept per incident and per map object, as a relation    *)
(* between the record and the set of packets it was given (IncidentOK) or  *)
(* one operation it was offered (ObjectOK), so that one lemma each covers  *)
(* the ingest and the replay (IInv).  On top of it: types (TypeInv), the   *)
(* start-up that runs alone and the handlers that together hold what the   *)
(* views have not been given yet (StartInv), and the persisted mirror.     *)
(***************************************************************************)
EXTENDS DeviceViews, FiniteSetTheorems, TLAPS

Reports(i, done) == {p \in done : p.about = i /\ p.type \in {"SOS_CREATE", "SOS_UPDATE"}}

IncidentOK(i, inc, done) ==
  /\ inc = None => \A p \in done : p.about = i => ~UpdatesIncident(p)
  /\ inc # None =>
       /\ \A p \in done : p.about = i /\ p.type = "SOS_CANCEL" => inc.state \in ClosedStates
       /\ Reports(i, done) = {} => inc.latest = 0
       /\ Reports(i, done) # {} =>
            /\ inc.report \in Reports(i, done)
            /\ inc.latest = inc.report.seq
            /\ \A p \in Reports(i, done) : p.seq <= inc.latest

ObjectOK(object, op) ==
  /\ object # None
  /\ op.version <= object.version
  /\ op.closes => object.gone \/ op.version < object.version

\* What the handlers and the log may hold.
Holdings ==
  /\ \A row \in log \cup replay : row.p \in Packets
  /\ DOMAIN handler = Handlers
  /\ \A h \in Handlers :
       /\ handler[h].todo \in Seq(AllOps)
       /\ handler[h].at \in {"stored", "views"} => handler[h].p \in Packets

ViewTypes ==
  /\ incidents \in [Incidents -> IncidentRecord \cup {None}]
  /\ map \in [Keys -> MapObject \cup {None}]
  /\ applied \subseteq Packets
  /\ offered \subseteq AllOps

\* The object on the map is the one some packet's operation built.
BuiltBy(object, op) == op.by = object.by /\ op.closes = object.gone

IncidentsOK == \A i \in Incidents : IncidentOK(i, incidents[i], applied)
MapOK ==
  /\ \A op \in offered : ObjectOK(map[op.key], op)
  /\ \A k \in Keys : map[k] # None => \E op \in AllOps : op.key = k /\ BuiltBy(map[k], op)

\* The inductive invariant.
IInv == Holdings /\ ViewTypes /\ IncidentsOK /\ MapOK

-----------------------------------------------------------------------------
(* The reducer *)

\* A new incident is well formed.
LEMMA FreshType ==
  ASSUME NEW p \in Packets
  PROVE  Fresh(p) \in IncidentRecord /\ Fresh(p) # None /\ Fresh(p).latest = 0
<1>1. (p.source = Self) \in BOOLEAN
  OBVIOUS
<1>2. p.createdAt \in Nat
  BY PacketsAssumption
<1> DEFINE mine == p.source = Self
<1>3. [state |-> "draft", latest |-> 0, report |-> None, responder |-> None,
       facts |-> {}, updated |-> p.createdAt, own |-> mine] \in IncidentRecord
  <2> HIDE DEF mine
  <2>1. mine \in BOOLEAN
    BY <1>1 DEF mine
  <2> QED BY <1>2, <2>1 DEF IncidentRecord, IncidentState
<1>4. Fresh(p) \in IncidentRecord
  BY <1>3 DEF Fresh
<1> QED BY <1>4, NoneAssumption DEF Fresh

\* Moves stay in the table's states, never leave a closed state, and a cancel closes.
LEMMA MoveFacts ==
  ASSUME NEW state \in IncidentState, NEW p \in Packets
  PROVE  /\ Move(state, p) \in IncidentState
         /\ state \in ClosedStates => Move(state, p) \in ClosedStates
         /\ p.type = "SOS_CANCEL" => Move(state, p) \in ClosedStates
<1>1. StateOf(p.type) \in {"cancelled", "assigned", "accepted", "active", "en-route", "arrived",
                           "resolved", "unchanged"}
  BY DEF StateOf
<1>2. p.type = "SOS_CANCEL" => StateOf(p.type) = "cancelled"
  BY DEF StateOf
<1>3. ALLOWED_NEXT[state] \subseteq IncidentState
  BY DEF ALLOWED_NEXT, IncidentState
<1>4. state \in ClosedStates => ALLOWED_NEXT[state] \subseteq {"reopened"}
  BY DEF ALLOWED_NEXT, IncidentState, ClosedStates
<1>5. state \notin ClosedStates => "cancelled" \in ALLOWED_NEXT[state]
  BY DEF ALLOWED_NEXT, IncidentState, ClosedStates
<1> QED BY <1>1, <1>2, <1>3, <1>4, <1>5 DEF Move, ClosedStates, IncidentState

\* What a record does to the victim's data.
LEMMA ReportedFacts ==
  ASSUME NEW inc \in IncidentRecord, NEW p \in Packets
  PROVE  LET r == Reported(inc, p) IN
         /\ r \in IncidentRecord
         /\ inc.state \in ClosedStates => r.state \in ClosedStates
         /\ IF p.type \in {"SOS_CREATE", "SOS_UPDATE"} /\ p.seq > inc.latest
            THEN r.report = p /\ r.latest = p.seq
            ELSE r.report = inc.report /\ r.latest = inc.latest
<1>1. p.seq \in Nat /\ inc.latest \in Nat
  BY PacketsAssumption DEF IncidentRecord
<1>2. CASE p.type \in {"SOS_CREATE", "SOS_UPDATE"} /\ ~Superseded(inc.latest, p)
  <2> DEFINE st == IF p.type = "SOS_CREATE" /\ inc.state \in {"draft", "created"} THEN "active" ELSE inc.state
  <2>1. st \in IncidentState /\ (inc.state \in ClosedStates => st \in ClosedStates)
    BY DEF IncidentRecord, IncidentState, ClosedStates
  <2>2. Reported(inc, p) = [inc EXCEPT !.report = p, !.latest = p.seq, !.state = st]
    BY <1>2 DEF Reported
  <2> HIDE DEF st
  <2>3. Reported(inc, p) \in IncidentRecord
    BY <1>1, <2>1, <2>2 DEF IncidentRecord
  <2>4. Reported(inc, p).state = st /\ Reported(inc, p).report = p /\ Reported(inc, p).latest = p.seq
    BY <2>2 DEF IncidentRecord
  <2>5. p.seq > inc.latest
    BY <1>1, <1>2 DEF Superseded, EmergencyTypes
  <2> QED BY <1>2, <2>1, <2>3, <2>4, <2>5
<1>3. CASE ~(p.type \in {"SOS_CREATE", "SOS_UPDATE"} /\ ~Superseded(inc.latest, p))
  BY <1>1, <1>3 DEF Reported, Superseded, EmergencyTypes
<1> QED BY <1>2, <1>3

\* The whole reducer: types, closing, and the newest report.
LEMMA ReduceFacts ==
  ASSUME NEW inc \in IncidentRecord, NEW p \in Packets
  PROVE  LET r == Reduce(inc, p) IN
         /\ r \in IncidentRecord
         /\ inc.state \in ClosedStates => r.state \in ClosedStates
         /\ p.type = "SOS_CANCEL" => r.state \in ClosedStates
         /\ IF p.type \in {"SOS_CREATE", "SOS_UPDATE"} /\ p.seq > inc.latest
            THEN r.report = p /\ r.latest = p.seq
            ELSE r.report = inc.report /\ r.latest = inc.latest
<1> DEFINE q == Reported(inc, p)
<1> DEFINE r == Reduce(inc, p)
<1>1. q \in IncidentRecord /\ (inc.state \in ClosedStates => q.state \in ClosedStates)
  BY ReportedFacts
<1>2. q.state \in IncidentState
  BY <1>1 DEF IncidentRecord
<1>3. r.state = Move(q.state, p) /\ r.report = q.report /\ r.latest = q.latest
  BY <1>1 DEF Reduce, IncidentRecord
<1>4. Assigned(q.responder, p) \in {x.ref : x \in Packets} \cup {None}
  BY <1>1 DEF Assigned, IncidentRecord
<1>5. p.type \in MessageType /\ p.createdAt \in Nat
  BY PacketsAssumption
<1>6. r \in IncidentRecord
  <2>1. Move(q.state, p) \in IncidentState
    BY <1>2, MoveFacts
  <2>2. (IF p.type \in {"SOS_UPDATE", "RESPONDER_DECLINED"} THEN q.facts ELSE q.facts \cup {p.type})
          \in SUBSET MessageType
    BY <1>1, <1>5 DEF IncidentRecord
  <2>3. (IF p.createdAt > q.updated THEN p.createdAt ELSE q.updated) \in Nat
    BY <1>1, <1>5 DEF IncidentRecord
  <2> QED BY <1>1, <1>4, <2>1, <2>2, <2>3 DEF Reduce, IncidentRecord
<1> HIDE DEF q, r
<1>7. /\ inc.state \in ClosedStates => r.state \in ClosedStates
      /\ p.type = "SOS_CANCEL" => r.state \in ClosedStates
  BY <1>1, <1>2, <1>3, MoveFacts
<1>8. IF p.type \in {"SOS_CREATE", "SOS_UPDATE"} /\ p.seq > inc.latest
      THEN r.report = p /\ r.latest = p.seq
      ELSE r.report = inc.report /\ r.latest = inc.latest
  BY <1>3, ReportedFacts DEF q
<1> QED BY <1>6, <1>7, <1>8 DEF r

\* An incident and the set of packets it was given stay in step.
LEMMA ApplyKeepsIncidents ==
  ASSUME NEW incs \in [Incidents -> IncidentRecord \cup {None}], NEW done \in SUBSET Packets,
         \A i \in Incidents : IncidentOK(i, incs[i], done),
         NEW p \in Packets
  PROVE  LET after == ApplyToIncidents(incs, p) IN
         /\ after \in [Incidents -> IncidentRecord \cup {None}]
         /\ \A i \in Incidents : IncidentOK(i, after[i], done \cup {p})
<1> DEFINE after == ApplyToIncidents(incs, p)
<1>0. p.type \in {"SOS_CREATE", "SOS_UPDATE", "SOS_CANCEL"} => UpdatesIncident(p)
  BY DEF UpdatesIncident, EmergencyTypes
<1>1. CASE ~UpdatesIncident(p)
  <2>1. after = incs
    BY <1>1 DEF ApplyToIncidents
  <2>2. ASSUME NEW i \in Incidents PROVE IncidentOK(i, incs[i], done \cup {p})
    <3>1. Reports(i, done \cup {p}) = Reports(i, done)
      BY <1>0, <1>1 DEF Reports
    <3> QED BY <1>0, <1>1, <3>1 DEF IncidentOK
  <2> QED BY <2>1, <2>2
<1>2. CASE UpdatesIncident(p)
  <2> DEFINE j == p.about
  <2> DEFINE inc == IF incs[j] = None THEN Fresh(p) ELSE incs[j]
  <2>1. j \in Incidents
    BY <1>2 DEF Incidents
  <2>2. inc \in IncidentRecord
    BY <2>1, FreshType
  <2>3. after = [incs EXCEPT ![j] = Reduce(inc, p)]
    BY <1>2 DEF ApplyToIncidents
  <2>4. Reduce(inc, p) \in IncidentRecord
    BY <2>2, ReduceFacts
  <2>5. after \in [Incidents -> IncidentRecord \cup {None}]
    BY <2>1, <2>3, <2>4
  <2>6. ASSUME NEW i \in Incidents, i # j PROVE IncidentOK(i, after[i], done \cup {p})
    <3>1. Reports(i, done \cup {p}) = Reports(i, done)
      BY <2>6 DEF Reports
    <3>2. after[i] = incs[i]
      BY <2>1, <2>3, <2>6
    <3> QED BY <2>6, <3>1, <3>2 DEF IncidentOK
  <2>7. IncidentOK(j, after[j], done \cup {p})
    <3> DEFINE r == Reduce(inc, p)
    <3>1. after[j] = r /\ r # None
      BY <2>1, <2>3, <2>4, NoneAssumption
    <3>2. \A q \in done : q.about = j /\ q.type = "SOS_CANCEL" => inc.state \in ClosedStates
      <4>1. CASE incs[j] = None
        BY <2>1, <4>1 DEF IncidentOK, UpdatesIncident, EmergencyTypes
      <4>2. CASE incs[j] # None
        BY <2>1, <4>2 DEF IncidentOK
      <4> QED BY <4>1, <4>2
    <3>3. \A q \in done \cup {p} : q.about = j /\ q.type = "SOS_CANCEL" => r.state \in ClosedStates
      BY <2>2, <3>2, ReduceFacts
    <3>4. /\ Reports(j, done) = {} => inc.latest = 0
          /\ Reports(j, done) # {} =>
               /\ inc.report \in Reports(j, done)
               /\ inc.latest = inc.report.seq
               /\ \A q \in Reports(j, done) : q.seq <= inc.latest
      <4>1. CASE incs[j] = None
        <5>1. Reports(j, done) = {}
          BY <2>1, <4>1 DEF IncidentOK, UpdatesIncident, EmergencyTypes, Reports
        <5> QED BY <4>1, <5>1, FreshType
      <4>2. CASE incs[j] # None
        BY <2>1, <4>2 DEF IncidentOK
      <4> QED BY <4>1, <4>2
    <3>5. IF p.type \in {"SOS_CREATE", "SOS_UPDATE"} /\ p.seq > inc.latest
          THEN r.report = p /\ r.latest = p.seq
          ELSE r.report = inc.report /\ r.latest = inc.latest
      BY <2>2, ReduceFacts
    <3>6. p.seq \in Nat /\ inc.latest \in Nat /\ (p.type \in {"SOS_CREATE", "SOS_UPDATE"} => p.seq > 0)
      BY <2>2, PacketsAssumption DEF IncidentRecord, EmergencyTypes
    <3>7. \A q \in Reports(j, done) : q.seq \in Nat
      BY PacketsAssumption DEF Reports
    <3> HIDE DEF inc, r
    <3>8. /\ Reports(j, done \cup {p}) = {} => r.latest = 0
          /\ Reports(j, done \cup {p}) # {} =>
               /\ r.report \in Reports(j, done \cup {p})
               /\ r.latest = r.report.seq
               /\ \A q \in Reports(j, done \cup {p}) : q.seq <= r.latest
      <4>1. CASE p.type \in {"SOS_CREATE", "SOS_UPDATE"}
        <5>1. Reports(j, done \cup {p}) = Reports(j, done) \cup {p}
          BY <4>1 DEF Reports
        <5>2. CASE p.seq > inc.latest
          BY <3>4, <3>5, <3>6, <3>7, <4>1, <5>1, <5>2
        <5>3. CASE ~(p.seq > inc.latest)
          <6>1. Reports(j, done) # {}
            BY <3>4, <3>6, <4>1, <5>3
          <6> QED BY <3>4, <3>5, <3>6, <4>1, <5>1, <5>3, <6>1
        <5> QED BY <5>2, <5>3
      <4>2. CASE p.type \notin {"SOS_CREATE", "SOS_UPDATE"}
        <5>1. Reports(j, done \cup {p}) = Reports(j, done)
          BY <4>2 DEF Reports
        <5> QED BY <3>4, <3>5, <4>2, <5>1
      <4> QED BY <4>1, <4>2
    <3> QED BY <3>1, <3>3, <3>8 DEF IncidentOK
  <2> QED BY <2>5, <2>6, <2>7
<1> QED BY <1>1, <1>2

-----------------------------------------------------------------------------
(* The projection *)

OpKinds == {"incident", "responder", "peer", "object", "hazard", "route"}

OpsOf(p) ==
  {Op(p, kind, id, closes, keeps) :
     kind \in OpKinds, id \in {p.about, p.ref, p.source}, closes \in BOOLEAN, keeps \in BOOLEAN}

\* A packet has no, one or two operations, and two are on different keys.
LEMMA OperationsShape ==
  ASSUME NEW p \in Packets
  PROVE  \/ MapOperations(p) = <<>>
         \/ \E a \in OpsOf(p) : MapOperations(p) = <<a>>
         \/ \E a, b \in OpsOf(p) : MapOperations(p) = <<a, b>> /\ a.key # b.key
<1>1. /\ TRUE \in BOOLEAN /\ FALSE \in BOOLEAN
      /\ p.about \in {p.about, p.ref, p.source} /\ p.ref \in {p.about, p.ref, p.source}
      /\ p.source \in {p.about, p.ref, p.source}
      /\ "incident" \in OpKinds /\ "responder" \in OpKinds /\ "peer" \in OpKinds /\ "object" \in OpKinds
      /\ MapKind(p.type) \in OpKinds
  BY DEF MapKind, OpKinds
<1> DEFINE moved == Op(p, "incident", p.about, FALSE, TRUE)
           at    == Op(p, "responder", p.ref, FALSE, FALSE)
           shown == Op(p, "incident", p.about, FALSE, FALSE)
           ended == Op(p, "incident", p.about, TRUE, TRUE)
           peer  == Op(p, "peer", p.source, FALSE, FALSE)
           thing == Op(p, MapKind(p.type), p.about, FALSE, FALSE)
           grave == Op(p, "object", p.about, TRUE, TRUE)
<1>2. {moved, at, shown, ended, peer, thing, grave} \subseteq OpsOf(p)
  <2>1. \A kind \in OpKinds, id \in {p.about, p.ref, p.source}, closes \in BOOLEAN, keeps \in BOOLEAN :
          Op(p, kind, id, closes, keeps) \in OpsOf(p)
    BY DEF OpsOf
  <2>2. moved \in OpsOf(p)
    BY <1>1, <2>1, Zenon
  <2>3. at \in OpsOf(p)
    BY <1>1, <2>1, Zenon
  <2>4. shown \in OpsOf(p)
    BY <1>1, <2>1, Zenon
  <2>5. ended \in OpsOf(p)
    BY <1>1, <2>1, Zenon
  <2>6. peer \in OpsOf(p)
    BY <1>1, <2>1, Zenon
  <2>7. thing \in OpsOf(p)
    BY <1>1, <2>1, Zenon
  <2>8. grave \in OpsOf(p)
    BY <1>1, <2>1, Zenon
  <2> HIDE DEF moved, at, shown, ended, peer, thing, grave
  <2> QED BY <2>2, <2>3, <2>4, <2>5, <2>6, <2>7, <2>8
<1>3. moved.key # at.key
  BY DEF Op, Key
<1>4. MapOperations(p) \in {<<>>, <<moved, at>>, <<moved>>, <<shown>>, <<ended>>, <<peer>>, <<thing>>, <<grave>>}
  BY DEF MapOperations
<1> HIDE DEF moved, at, shown, ended, peer, thing, grave
<1> QED BY <1>2, <1>3, <1>4

WellFormedOps(p) ==
  /\ Range(MapOperations(p)) \subseteq OpsOf(p) \cap AllOps
  /\ MapOperations(p) \in Seq(AllOps)
  /\ \A a, b \in Range(MapOperations(p)) : a.key = b.key => a = b

LEMMA OperationsFacts ==
  ASSUME NEW p \in Packets
  PROVE  WellFormedOps(p)
<1>1. Range(MapOperations(p)) \subseteq AllOps
  BY DEF AllOps
<1>2. CASE MapOperations(p) = <<>>
  BY <1>1, <1>2 DEF Range, WellFormedOps
<1>3. ASSUME NEW a \in OpsOf(p), MapOperations(p) = <<a>> PROVE WellFormedOps(p)
  BY <1>1, <1>3 DEF Range, WellFormedOps
<1>4. ASSUME NEW a \in OpsOf(p), NEW b \in OpsOf(p), MapOperations(p) = <<a, b>>, a.key # b.key
      PROVE  WellFormedOps(p)
  BY <1>1, <1>4 DEF Range, WellFormedOps
<1> QED BY <1>2, <1>3, <1>4, OperationsShape

\* Two operations of one packet on one key are the same operation.
LEMMA OpFacts ==
  /\ \A op \in AllOps : /\ op.key \in Keys /\ op.version \in Nat /\ op.asOf \in Nat /\ op.expires \in Nat
                        /\ op.by \in {p.id : p \in Packets} /\ op.closes \in BOOLEAN /\ op.keeps \in BOOLEAN
  /\ \A a, b \in AllOps : a.by = b.by /\ a.key = b.key => a = b
<1>1. ASSUME NEW op \in AllOps
      PROVE  \E p \in Packets : op \in Range(MapOperations(p)) /\ op \in OpsOf(p)
  <2>1. PICK p \in Packets : op \in Range(MapOperations(p))
    BY DEF AllOps
  <2> QED BY <2>1, OperationsFacts DEF WellFormedOps
<1>2. ASSUME NEW p \in Packets, NEW op \in OpsOf(p)
      PROVE  /\ op.version \in Nat /\ op.asOf \in Nat /\ op.expires \in Nat
             /\ op.by = p.id /\ op.closes \in BOOLEAN /\ op.keeps \in BOOLEAN
  BY PacketsAssumption DEF OpsOf, Op
<1>3. ASSUME NEW a \in AllOps, NEW b \in AllOps, a.by = b.by, a.key = b.key PROVE a = b
  <2>1. PICK p \in Packets : a \in Range(MapOperations(p)) /\ a \in OpsOf(p)
    BY <1>1
  <2>2. PICK q \in Packets : b \in Range(MapOperations(q)) /\ b \in OpsOf(q)
    BY <1>1
  <2>3. p = q
    BY <1>2, <1>3, <2>1, <2>2, PacketsAssumption
  <2> QED BY <1>3, <2>1, <2>2, <2>3, OperationsFacts DEF WellFormedOps
<1> QED BY <1>1, <1>2, <1>3 DEF Keys

\* One operation on one object.
LEMMA ProjectedFacts ==
  ASSUME NEW op \in AllOps, NEW object \in MapObject \cup {None},
         object # None => \E x \in AllOps : x.key = op.key /\ BuiltBy(object, x)
  PROVE  LET after == Projected(object, op) IN
         /\ after \in MapObject
         /\ \E x \in AllOps : x.key = op.key /\ BuiltBy(after, x)
         /\ ObjectOK(after, op)
         /\ \A x \in AllOps : ObjectOK(object, x) => ObjectOK(after, x)
<1>1. /\ op.version \in Nat /\ op.asOf \in Nat /\ op.expires \in Nat
      /\ op.by \in {p.id : p \in Packets} /\ op.closes \in BOOLEAN /\ op.keeps \in BOOLEAN
  BY OpFacts
<1>2. object # None => object \in MapObject /\ object.version \in Nat /\ object.gone \in BOOLEAN
  BY DEF MapObject
<1>3. CASE Ignored(object, op)
  <2>1. Projected(object, op) = object /\ object # None
    BY <1>3 DEF Projected, Ignored
  <2>2. op.version <= object.version
    BY <1>1, <1>2, <1>3, <2>1 DEF Ignored
  <2>3. op.closes => object.gone \/ op.version < object.version
    <3>1. CASE op.by = object.by
      BY <2>1, <3>1, OpFacts DEF BuiltBy
    <3>2. CASE op.by # object.by
      BY <1>3, <3>2 DEF Ignored
    <3> QED BY <3>1, <3>2
  <2> QED BY <1>2, <2>1, <2>2, <2>3 DEF ObjectOK
<1>4. CASE ~Ignored(object, op)
  <2> DEFINE after == Built(object, op)
  <2>1. Projected(object, op) = after
    BY <1>4 DEF Projected
  <2>2. (IF op.keeps THEN object # None /\ object.located ELSE TRUE) \in BOOLEAN
    <3>1. object # None => object.located \in BOOLEAN
      BY DEF MapObject
    <3> QED BY <3>1
  <2>3. after \in MapObject
    <3> DEFINE loc == IF op.keeps THEN object # None /\ object.located ELSE TRUE
    <3>1. loc \in BOOLEAN
      BY <2>2
    <3>2. after = [version |-> op.version, by |-> op.by, asOf |-> op.asOf, expires |-> op.expires,
                   gone |-> op.closes, located |-> loc]
      BY DEF Built
    <3> HIDE DEF loc, after
    <3> QED BY <1>1, <3>1, <3>2 DEF MapObject
  <2>4. after # None
    BY <2>3, NoneAssumption
  <2>5. after.version = op.version /\ after.by = op.by /\ after.gone = op.closes
    BY DEF Built
  <2> HIDE DEF after
  <2>6. ASSUME NEW x \in AllOps, ObjectOK(object, x) PROVE ObjectOK(after, x)
    <3>1. x.version \in Nat
      BY OpFacts
    <3>2. object # None /\ object.version <= op.version
      BY <1>1, <1>2, <1>4, <2>6 DEF Ignored, ObjectOK
    <3>3. x.version <= op.version
      BY <1>1, <1>2, <2>6, <3>1, <3>2 DEF ObjectOK
    <3>4. x.closes /\ x.version = op.version => op.closes
      <4>1. x.closes /\ x.version = op.version => object.gone /\ object.version = op.version
        BY <1>1, <1>2, <2>6, <3>1, <3>2 DEF ObjectOK
      <4>2. object.gone /\ object.version = op.version => Tombstones(op)
        BY <1>1, <1>2, <1>4, <3>2 DEF Ignored
      <4> QED BY <4>1, <4>2 DEF Tombstones
    <3> QED BY <1>1, <2>4, <2>5, <3>1, <3>3, <3>4 DEF ObjectOK
  <2>7. ObjectOK(after, op)
    BY <1>1, <2>4, <2>5 DEF ObjectOK
  <2> QED BY <2>1, <2>3, <2>5, <2>6, <2>7 DEF BuiltBy
<1> QED BY <1>3, <1>4
-----------------------------------------------------------------------------
(* The steps *)

\* Init establishes the invariant.
LEMMA InitIInv ==
  ASSUME Init
  PROVE  IInv
<1>1. Holdings
  <2>1. <<>> \in Seq(AllOps) /\ IdleHandler.todo = <<>> /\ IdleHandler.at = "idle"
    BY DEF IdleHandler
  <2> QED BY <2>1 DEF Init, Holdings
<1>2. ViewTypes
  BY DEF Init, ViewTypes, NoIncidents, EmptyMap
<1>3. IncidentsOK
  BY DEF Init, IncidentsOK, IncidentOK, NoIncidents
<1>4. MapOK
  BY DEF Init, MapOK, EmptyMap
<1> QED BY <1>1, <1>2, <1>3, <1>4 DEF IInv

\* A packet that the incidents take in.
LEMMA ReduceStep ==
  ASSUME ViewTypes, IncidentsOK, NEW p \in Packets,
         incidents' = ApplyToIncidents(incidents, p), applied' = applied \cup {p}
  PROVE  /\ incidents' \in [Incidents -> IncidentRecord \cup {None}]
         /\ applied' \subseteq Packets
         /\ IncidentsOK'
BY ApplyKeepsIncidents DEF ViewTypes, IncidentsOK

\* One operation on the map.
LEMMA OperationStep ==
  ASSUME ViewTypes, MapOK, NEW op \in AllOps,
         map' = [map EXCEPT ![op.key] = Projected(@, op)], offered' = offered \cup {op}
  PROVE  /\ map' \in [Keys -> MapObject \cup {None}]
         /\ offered' \subseteq AllOps
         /\ MapOK'
<1>1. op.key \in Keys
  BY OpFacts
<1>2. map[op.key] # None => \E x \in AllOps : x.key = op.key /\ BuiltBy(map[op.key], x)
  BY <1>1 DEF MapOK
<1>3. map[op.key] \in MapObject \cup {None}
  BY <1>1 DEF ViewTypes
<1> DEFINE after == Projected(map[op.key], op)
<1>4. /\ after \in MapObject
      /\ \E x \in AllOps : x.key = op.key /\ BuiltBy(after, x)
      /\ ObjectOK(after, op)
      /\ \A x \in AllOps : ObjectOK(map[op.key], x) => ObjectOK(after, x)
  BY <1>2, <1>3, ProjectedFacts
<1>5. map' = [map EXCEPT ![op.key] = after]
  OBVIOUS
<1> HIDE DEF after
<1>6. map' \in [Keys -> MapObject \cup {None}] /\ offered' \subseteq AllOps
  BY <1>1, <1>4, <1>5 DEF ViewTypes
<1>7. \A k \in Keys : map'[k] = IF k = op.key THEN after ELSE map[k]
  BY <1>1, <1>5 DEF ViewTypes
<1>8. ASSUME NEW x \in offered' PROVE ObjectOK(map'[x.key], x)
  <2>1. x \in AllOps /\ x.key \in Keys
    BY <1>6, <1>8, OpFacts
  <2> QED BY <1>4, <1>7, <1>8, <2>1 DEF MapOK
<1>9. \A k \in Keys : map'[k] # None => \E x \in AllOps : x.key = k /\ BuiltBy(map'[k], x)
  BY <1>4, <1>7 DEF MapOK
<1> QED BY <1>6, <1>8, <1>9 DEF MapOK

\* A whole packet on the map, as the replay does it.
LEMMA ReplayStep ==
  ASSUME ViewTypes, MapOK, NEW p \in Packets, NEW ops, ops = Range(MapOperations(p)),
         map' = [k \in Keys |->
                   IF \E op \in ops : op.key = k
                   THEN Projected(map[k], CHOOSE op \in ops : op.key = k) ELSE map[k]],
         offered' = offered \cup ops
  PROVE  /\ map' \in [Keys -> MapObject \cup {None}]
         /\ offered' \subseteq AllOps
         /\ MapOK'
<1>1. ops \subseteq AllOps /\ \A a, b \in ops : a.key = b.key => a = b
  BY OperationsFacts DEF WellFormedOps
<1>2. ASSUME NEW op \in ops
      PROVE  op.key \in Keys /\ map'[op.key] = Projected(map[op.key], op)
  <2>1. op.key \in Keys
    BY <1>1, OpFacts
  <2>2. (CHOOSE x \in ops : x.key = op.key) = op
    BY <1>1
  <2> QED BY <2>1, <2>2
<1>3. ASSUME NEW k \in Keys, \A op \in ops : op.key # k PROVE map'[k] = map[k]
  BY <1>3
<1>4. ASSUME NEW op \in ops
      PROVE  /\ map'[op.key] \in MapObject
             /\ \E x \in AllOps : x.key = op.key /\ BuiltBy(map'[op.key], x)
             /\ ObjectOK(map'[op.key], op)
             /\ \A x \in AllOps : ObjectOK(map[op.key], x) => ObjectOK(map'[op.key], x)
  <2>1. op \in AllOps /\ op.key \in Keys
    BY <1>1, <1>2
  <2>2. map[op.key] # None => \E x \in AllOps : x.key = op.key /\ BuiltBy(map[op.key], x)
    BY <2>1 DEF MapOK
  <2>3. map[op.key] \in MapObject \cup {None}
    BY <2>1 DEF ViewTypes
  <2> DEFINE after == Projected(map[op.key], op)
  <2>4. /\ after \in MapObject
        /\ \E x \in AllOps : x.key = op.key /\ BuiltBy(after, x)
        /\ ObjectOK(after, op)
        /\ \A x \in AllOps : ObjectOK(map[op.key], x) => ObjectOK(after, x)
    BY <2>1, <2>2, <2>3, ProjectedFacts
  <2>5. map'[op.key] = after
    BY <1>2
  <2> HIDE DEF after
  <2> QED BY <2>4, <2>5
<1>5. offered' \subseteq AllOps
  BY <1>1 DEF ViewTypes
<1>6. map' \in [Keys -> MapObject \cup {None}]
  <2>1. ASSUME NEW k \in Keys PROVE map'[k] \in MapObject \cup {None}
    BY <1>3, <1>4 DEF ViewTypes
  <2>2. map' = [k \in Keys |-> map'[k]]
    OBVIOUS
  <2> QED BY <2>1, <2>2
<1>7. ASSUME NEW x \in offered' PROVE ObjectOK(map'[x.key], x)
  <2>1. x \in AllOps /\ x.key \in Keys
    BY <1>5, <1>7, OpFacts
  <2>2. CASE x \in ops
    BY <1>4, <2>2
  <2>3. CASE x \notin ops
    <3>1. ObjectOK(map[x.key], x)
      BY <1>7, <2>3 DEF MapOK
    <3>2. CASE \E op \in ops : op.key = x.key
      <4>1. PICK op \in ops : op.key = x.key
        BY <3>2
      <4> QED BY <1>4, <2>1, <3>1, <4>1
    <3>3. CASE \A op \in ops : op.key # x.key
      BY <1>3, <2>1, <3>1, <3>3
    <3> QED BY <3>2, <3>3
  <2> QED BY <2>2, <2>3
<1>8. ASSUME NEW k \in Keys, map'[k] # None
      PROVE  \E x \in AllOps : x.key = k /\ BuiltBy(map'[k], x)
  <2>1. CASE \E op \in ops : op.key = k
    BY <1>4, <2>1
  <2>2. CASE \A op \in ops : op.key # k
    BY <1>3, <1>8, <2>2 DEF MapOK
  <2> QED BY <2>1, <2>2
<1> QED BY <1>5, <1>6, <1>7, <1>8 DEF MapOK

\* One step of the views of an ingest, with the operations still to do.
LEMMA AdvanceStep ==
  ASSUME IInv, NEW h \in Handlers, NEW p \in Packets, NEW todo \in Seq(AllOps),
         Advance(h, p, todo), log' = log, replay' = replay
  PROVE  IInv'
<1>1. \A row \in log' \cup replay' : row.p \in Packets
  BY DEF IInv, Holdings
<1>2. CASE todo = <<>>
  <2>1. /\ incidents' = ApplyToIncidents(incidents, p)
        /\ applied' = applied \cup {p}
        /\ handler' = [handler EXCEPT ![h] = IdleHandler]
        /\ map' = map /\ offered' = offered
    BY <1>2 DEF Advance
  <2>2. /\ incidents' \in [Incidents -> IncidentRecord \cup {None}]
        /\ applied' \subseteq Packets
        /\ IncidentsOK'
    BY <2>1, ReduceStep DEF IInv
  <2>3. Holdings'
    BY <1>1, <2>1 DEF IInv, Holdings, IdleHandler
  <2>4. MapOK'
    BY <2>1 DEF IInv, MapOK
  <2> QED BY <2>1, <2>2, <2>3, <2>4 DEF IInv, ViewTypes
<1>3. CASE todo # <<>>
  <2> DEFINE op == Head(todo)
  <2>1. op \in AllOps /\ Tail(todo) \in Seq(AllOps)
    BY <1>3
  <2>2. /\ map' = [map EXCEPT ![op.key] = Projected(@, op)]
        /\ offered' = offered \cup {op}
        /\ handler' = [handler EXCEPT ![h] = [at |-> "views", p |-> p, todo |-> Tail(todo)]]
        /\ incidents' = incidents /\ applied' = applied
    BY <1>3 DEF Advance
  <2> HIDE DEF op
  <2>3. /\ map' \in [Keys -> MapObject \cup {None}]
        /\ offered' \subseteq AllOps
        /\ MapOK'
    BY <2>1, <2>2, OperationStep DEF IInv
  <2>4. Holdings'
    BY <1>1, <2>1, <2>2 DEF IInv, Holdings
  <2>5. IncidentsOK'
    BY <2>2 DEF IInv, IncidentsOK
  <2> QED BY <2>2, <2>3, <2>4, <2>5 DEF IInv, ViewTypes
<1> QED BY <1>2, <1>3

\* Old incidents stay well formed when they expire.
LEMMA ExpireStep ==
  ASSUME ViewTypes, IncidentsOK,
         incidents' = ExpireIncidents(incidents, now), applied' = applied
  PROVE  incidents' \in [Incidents -> IncidentRecord \cup {None}] /\ IncidentsOK'
<1>1. DOMAIN incidents = Incidents
  BY DEF ViewTypes
<1>2. ASSUME NEW i \in Incidents
      PROVE  \/ incidents'[i] = incidents[i]
             \/ incidents[i] # None /\ incidents'[i] = [incidents[i] EXCEPT !.state = "expired"]
  BY <1>1 DEF ExpireIncidents
<1>3. ASSUME NEW i \in Incidents
      PROVE  incidents'[i] \in IncidentRecord \cup {None} /\ IncidentOK(i, incidents'[i], applied')
  <2>1. incidents[i] \in IncidentRecord \cup {None} /\ IncidentOK(i, incidents[i], applied)
    BY DEF ViewTypes, IncidentsOK
  <2>2. CASE incidents'[i] = incidents[i]
    BY <2>1, <2>2
  <2>3. CASE incidents[i] # None /\ incidents'[i] = [incidents[i] EXCEPT !.state = "expired"]
    <3>1. incidents[i] \in IncidentRecord
      BY <2>1, <2>3
    <3>2. incidents'[i] \in IncidentRecord
      BY <2>3, <3>1 DEF IncidentRecord, IncidentState
    <3>3. /\ incidents'[i].state = "expired" /\ incidents'[i].latest = incidents[i].latest
          /\ incidents'[i].report = incidents[i].report
      BY <2>3, <3>1 DEF IncidentRecord
    <3>4. incidents'[i] # None
      BY <3>2, NoneAssumption
    <3> QED BY <2>1, <2>3, <3>2, <3>3, <3>4 DEF IncidentOK, ClosedStates
  <2> QED BY <1>2, <2>2, <2>3
<1>4. incidents' = [i \in Incidents |-> incidents'[i]]
  BY <1>1 DEF ExpireIncidents
<1> QED BY <1>3, <1>4 DEF IncidentsOK

LEMMA NextIInv ==
  ASSUME IInv, [Next]_vars
  PROVE  IInv'
<1>1. ASSUME NEW h \in Handlers, NEW p \in Packets, Admit(h, p) PROVE IInv'
  <2>1. /\ log'  = log \cup {Row(p, now + RetentionOf(p), Cardinality(seen))}
        /\ handler' = [handler EXCEPT ![h] = [at |-> "stored", p |-> p, todo |-> <<>>]]
        /\ incidents' = incidents /\ map' = map /\ offered' = offered /\ applied' = applied
        /\ replay' = replay
    BY <1>1 DEF Admit, views
  <2>2. Row(p, now + RetentionOf(p), Cardinality(seen)).p = p
    BY DEF Row
  <2>3. <<>> \in Seq(AllOps)
    OBVIOUS
  <2>4. Holdings'
    BY <2>1, <2>2, <2>3 DEF IInv, Holdings
  <2> QED BY <2>1, <2>4 DEF IInv, ViewTypes, IncidentsOK, MapOK
<1>2. ASSUME NEW h \in Handlers, Announce(h) PROVE IInv'
  <2> DEFINE p == handler[h].p
             todo == IF UpdatesMap(p) THEN MapOperations(p) ELSE <<>>
  <2>1. p \in Packets
    BY <1>2 DEF Announce, IInv, Holdings
  <2>2. todo \in Seq(AllOps)
    BY <2>1, OperationsFacts DEF WellFormedOps
  <2>3. Advance(h, p, todo) /\ log' = log /\ replay' = replay
    BY <1>2 DEF Announce
  <2> HIDE DEF p, todo
  <2> QED BY <2>1, <2>2, <2>3, AdvanceStep
<1>3. ASSUME NEW h \in Handlers, Continue(h) PROVE IInv'
  <2>1. handler[h].p \in Packets /\ handler[h].todo \in Seq(AllOps)
    BY <1>3 DEF Continue, IInv, Holdings
  <2>2. Advance(h, handler[h].p, handler[h].todo) /\ log' = log /\ replay' = replay
    BY <1>3 DEF Continue
  <2> QED BY <2>1, <2>2, AdvanceStep
<1>4. ASSUME Evict PROVE IInv'
  BY <1>4 DEF Evict, views, IInv, Holdings, ViewTypes, IncidentsOK, MapOK
<1>5. ASSUME ReadRelayable PROVE IInv'
  <2>1. /\ incidents' = ExpireIncidents(incidents, now) /\ applied' = applied
        /\ log' = log /\ replay' = replay /\ handler' = handler
        /\ map' = map /\ offered' = offered
    BY <1>5 DEF ReadRelayable
  <2>2. incidents' \in [Incidents -> IncidentRecord \cup {None}] /\ IncidentsOK'
    BY <2>1, ExpireStep DEF IInv
  <2> QED BY <2>1, <2>2 DEF IInv, Holdings, ViewTypes, MapOK
<1>6. ASSUME WritePriority PROVE IInv'
  BY <1>6 DEF WritePriority, views, IInv, Holdings, ViewTypes, IncidentsOK, MapOK
<1>7. ASSUME Restart PROVE IInv'
  <2>1. /\ incidents' = NoIncidents /\ map' = EmptyMap /\ offered' = {} /\ applied' = {}
        /\ handler' = [h \in Handlers |-> IdleHandler]
        /\ log' = log /\ replay' = log
    BY <1>7 DEF Restart, Replayed
  <2>2. Holdings'
    <3>1. <<>> \in Seq(AllOps) /\ IdleHandler.todo = <<>> /\ IdleHandler.at = "idle"
      BY DEF IdleHandler
    <3> QED BY <2>1, <3>1 DEF IInv, Holdings
  <2>3. ViewTypes'
    BY <2>1 DEF ViewTypes, NoIncidents, EmptyMap
  <2>4. IncidentsOK'
    BY <2>1 DEF IncidentsOK, IncidentOK, NoIncidents
  <2>5. MapOK'
    BY <2>1 DEF MapOK, EmptyMap
  <2> QED BY <2>2, <2>3, <2>4, <2>5 DEF IInv
<1>8. ASSUME NEW row \in replay, ReplayRow(row) PROVE IInv'
  <2> DEFINE ops == Range(MapOperations(row.p))
  <2>1. row.p \in Packets
    BY DEF IInv, Holdings
  <2>2. /\ incidents' = ApplyToIncidents(incidents, row.p)
        /\ applied' = applied \cup {row.p}
        /\ log' = log /\ handler' = handler /\ replay' \subseteq replay
    BY <1>8 DEF ReplayRow
  <2>3. /\ map' = [k \in Keys |->
                   IF \E op \in ops : op.key = k
                   THEN Projected(map[k], CHOOSE op \in ops : op.key = k) ELSE map[k]]
        /\ offered' = offered \cup ops
    BY <1>8 DEF ReplayRow
  <2>4. /\ incidents' \in [Incidents -> IncidentRecord \cup {None}]
        /\ applied' \subseteq Packets /\ IncidentsOK'
    BY <2>1, <2>2, ReduceStep DEF IInv
  <2>5. /\ map' \in [Keys -> MapObject \cup {None}]
        /\ offered' \subseteq AllOps /\ MapOK'
    BY <2>1, <2>3, ReplayStep DEF IInv
  <2>6. Holdings'
    BY <2>2 DEF IInv, Holdings
  <2> QED BY <2>4, <2>5, <2>6 DEF IInv, ViewTypes
<1>9. ASSUME FinishReplay PROVE IInv'
  BY <1>9 DEF FinishReplay, IInv, Holdings, ViewTypes, IncidentsOK, MapOK
<1>10. ASSUME Tick PROVE IInv'
  BY <1>10 DEF Tick, views, IInv, Holdings, ViewTypes, IncidentsOK, MapOK
<1>11. CASE UNCHANGED vars
  BY <1>11 DEF vars, views, IInv, Holdings, ViewTypes, IncidentsOK, MapOK
<1> QED BY <1>1, <1>2, <1>3, <1>4, <1>5, <1>6, <1>7, <1>8, <1>9, <1>10, <1>11
        DEF Next, Ingest, Maintain, Rebuild

-----------------------------------------------------------------------------
\* The incidents and the map are what their packets, in any order, make them.
THEOREM ViewsInvariant == Spec => []IInv
<1>1. Init => IInv
  BY InitIInv
<1>2. IInv /\ [Next]_vars => IInv'
  BY NextIInv
<1> QED BY <1>1, <1>2, PTL DEF Spec

\* A cancel closes its incident for good, for any packets in any order.
THEOREM CancelIsFinal == Spec => []CancelSticks
<1>1. IInv => CancelSticks
  <2> SUFFICES ASSUME IInv, NEW p \in applied, p.type = "SOS_CANCEL"
               PROVE  incidents[p.about].state \in ClosedStates
    BY DEF CancelSticks
  <2>1. p \in Packets /\ UpdatesIncident(p)
    BY DEF IInv, ViewTypes, UpdatesIncident, EmergencyTypes
  <2>2. p.about \in Incidents
    BY <2>1 DEF Incidents
  <2> QED BY <2>1, <2>2 DEF IInv, IncidentsOK, IncidentOK
<1> QED BY <1>1, ViewsInvariant, PTL

\* The newest report applied is the one shown, for any order of arrival.
THEOREM NewestReportIsShown == Spec => []LatestReportShown
<1>1. IInv => LatestReportShown
  <2> SUFFICES ASSUME IInv, NEW i \in Incidents, ReportsOf(i) # {}
               PROVE  /\ incidents[i].report \in ReportsOf(i)
                      /\ \A p \in ReportsOf(i) : p.seq <= incidents[i].report.seq
    BY DEF LatestReportShown
  <2>1. ReportsOf(i) = Reports(i, applied)
    BY DEF ReportsOf, Reports
  <2>2. IncidentOK(i, incidents[i], applied)
    BY DEF IInv, IncidentsOK
  <2>3. incidents[i] # None
    BY <2>1, <2>2 DEF IncidentOK, Reports, UpdatesIncident, EmergencyTypes
  <2> QED BY <2>1, <2>2, <2>3 DEF IncidentOK
<1> QED BY <1>1, ViewsInvariant, PTL

\* A map object has the highest version it was offered, closings first.
THEOREM NewestIsOnTheMap == Spec => []MapShowsNewest
<1>1. IInv => MapShowsNewest
  BY DEF IInv, MapOK, MapShowsNewest, ObjectOK
<1> QED BY <1>1, ViewsInvariant, PTL

-----------------------------------------------------------------------------
(* The start-up, the mirror and the log *)

\* Start-up runs alone: while rows are left to replay nothing else works.
Phases ==
  /\ replay # {} => phase = "replay"
  /\ phase = "replay" => upkeep = IdleUpkeep /\ \A h \in Handlers : handler[h] = IdleHandler

\* A handler has offered the map all of its packet's operations that it has not
\* still to do; an idle one has no packet.
HandlersInv ==
  \A h \in Handlers :
    /\ handler[h].at = "idle" => handler[h] = IdleHandler
    /\ handler[h].at = "stored" => handler[h].todo = <<>>
    /\ handler[h].at = "views" =>
         Range(MapOperations(handler[h].p)) \subseteq offered \cup Range(handler[h].todo)

\* Every stored packet is in the views, with a handler, or still to be replayed.
LogInv ==
  \A p \in Stored :
    \/ Reflected(p)
    \/ \E h \in Handlers : handler[h].p = p
    \/ \E row \in replay : row.p = p

\* Everything the proofs below rest on.
StartInv == Holdings /\ Phases /\ HandlersInv /\ LogInv

\* The operations of a packet that does not update the map.
LEMMA NoOperations ==
  ASSUME NEW p, ~UpdatesMap(p)
  PROVE  MapOperations(p) = <<>>
<1>1. p.type \notin MapDeltaTypes \cup EmergencyTypes \cup ResponderLifecycle \cup {"MESH_CHAT"}
  BY DEF UpdatesMap
<1> QED BY <1>1 DEF MapOperations, MapDeltaTypes, ResponderLifecycle, EmergencyTypes, ResourceTypes

\* A sequence's first element and the rest.
LEMMA RangeOfTail ==
  ASSUME NEW S, NEW todo \in Seq(S), todo # <<>>
  PROVE  Range(todo) = {Head(todo)} \cup Range(Tail(todo))
<1> PICK n \in Nat : n = Len(todo)
  OBVIOUS
<1>1. n > 0 /\ DOMAIN todo = 1..n /\ Head(todo) = todo[1]
  OBVIOUS
<1>2. DOMAIN Tail(todo) = 1..(n - 1) /\ \A i \in 1..(n - 1) : Tail(todo)[i] = todo[i + 1]
  BY <1>1
<1>3. ASSUME NEW x \in Range(todo) PROVE x \in {Head(todo)} \cup Range(Tail(todo))
  <2>1. PICK i \in 1..n : x = todo[i]
    BY <1>1 DEF Range
  <2>2. CASE i = 1
    BY <1>1, <2>1, <2>2
  <2>3. CASE i # 1
    <3>1. i - 1 \in 1..(n - 1) /\ (i - 1) + 1 = i
      BY <2>3
    <3> QED BY <1>2, <2>1, <3>1 DEF Range
  <2> QED BY <2>2, <2>3
<1>4. ASSUME NEW x \in Range(Tail(todo)) PROVE x \in Range(todo)
  <2>1. PICK i \in 1..(n - 1) : x = Tail(todo)[i]
    BY <1>2 DEF Range
  <2>2. i + 1 \in 1..n /\ x = todo[i + 1]
    BY <1>2, <2>1
  <2> QED BY <1>1, <2>2 DEF Range
<1>5. Head(todo) \in Range(todo)
  BY <1>1 DEF Range
<1> QED BY <1>3, <1>4, <1>5

\* A packet that leaves its handler has reached the views.
LEMMA AdvanceReflects ==
  ASSUME StartInv, NEW h \in Handlers, NEW todo \in Seq(AllOps),
         handler[h].p \in Packets,
         Range(MapOperations(handler[h].p)) \subseteq offered \cup Range(todo),
         phase # "replay",
         Advance(h, handler[h].p, todo),
         log' = log, replay' = replay, phase' = phase, upkeep' = upkeep
  PROVE  Phases' /\ HandlersInv' /\ LogInv'
<1> DEFINE p == handler[h].p
           ops == Range(MapOperations(p))
<1>0. DOMAIN handler = Handlers
  BY DEF StartInv, Holdings
<1>1. Phases'
  BY DEF StartInv, Phases
<1>2. CASE todo = <<>>
  <2>1. applied' = applied \cup {p} /\ offered' = offered /\ handler' = [handler EXCEPT ![h] = IdleHandler]
    BY <1>2 DEF Advance
  <2>2. ops \subseteq offered
    BY <1>2 DEF Range
  <2>3. HandlersInv'
    BY <1>0, <2>1 DEF StartInv, HandlersInv, IdleHandler
  <2>4. ASSUME NEW q \in Stored
        PROVE  \/ q \in applied' /\ Range(MapOperations(q)) \subseteq offered'
               \/ \E g \in Handlers : handler'[g].p = q
               \/ \E row \in replay : row.p = q
    <3>1. CASE q = p
      BY <2>1, <2>2, <3>1
    <3>2. CASE q # p
      <4>1. \/ q \in applied /\ Range(MapOperations(q)) \subseteq offered
            \/ \E g \in Handlers : handler[g].p = q
            \/ \E row \in replay : row.p = q
        BY <2>4 DEF StartInv, LogInv, Reflected
      <4>2. ASSUME NEW g \in Handlers, handler[g].p = q PROVE handler'[g].p = q
        BY <1>0, <2>1, <3>2, <4>2
      <4> QED BY <2>1, <4>1, <4>2
    <3> QED BY <3>1, <3>2
  <2>5. LogInv'
    BY <2>4 DEF LogInv, Reflected, Stored
  <2> QED BY <1>1, <2>3, <2>5
<1>3. CASE todo # <<>>
  <2> DEFINE rest == Tail(todo)
             next == [at |-> "views", p |-> p, todo |-> rest]
  <2>1. applied' = applied /\ offered' = offered \cup {Head(todo)} /\ handler' = [handler EXCEPT ![h] = next]
    BY <1>3 DEF Advance
  <2>2. next.at = "views" /\ next.p = p /\ next.todo = rest
    OBVIOUS
  <2>3. Range(todo) = {Head(todo)} \cup Range(rest)
    BY <1>3, RangeOfTail
  <2> HIDE DEF next, rest
  <2>4. ops \subseteq offered' \cup Range(rest)
    BY <2>1, <2>3
  <2>5. offered \subseteq offered'
    BY <2>1
  <2>6. \A g \in Handlers : handler'[g] = IF g = h THEN next ELSE handler[g]
    BY <1>0, <2>1
  <2>7. HandlersInv'
    BY <2>2, <2>4, <2>5, <2>6 DEF StartInv, HandlersInv
  <2>8. ASSUME NEW q \in Stored
        PROVE  \/ q \in applied' /\ Range(MapOperations(q)) \subseteq offered'
               \/ \E g \in Handlers : handler'[g].p = q
               \/ \E row \in replay : row.p = q
    <3>1. \/ q \in applied /\ Range(MapOperations(q)) \subseteq offered
          \/ \E g \in Handlers : handler[g].p = q
          \/ \E row \in replay : row.p = q
      BY <2>8 DEF StartInv, LogInv, Reflected
    <3>2. \A g \in Handlers : handler'[g].p = handler[g].p
      BY <2>2, <2>6
    <3> QED BY <2>1, <2>5, <3>1, <3>2
  <2>9. LogInv'
    BY <2>8 DEF LogInv, Reflected, Stored
  <2> QED BY <1>1, <2>7, <2>9
<1> QED BY <1>2, <1>3

LEMMA InitStart ==
  ASSUME Init
  PROVE  Phases /\ HandlersInv /\ LogInv
BY DEF Init, Phases, HandlersInv, LogInv, IdleHandler, Stored

\* The start-up's part of the invariant.
LEMMA NextStart ==
  ASSUME StartInv, [Next]_vars
  PROVE  Phases' /\ HandlersInv' /\ LogInv'
<1>0. DOMAIN handler = Handlers
  BY DEF StartInv, Holdings
<1>1. ASSUME NEW h \in Handlers, NEW p \in Packets, Admit(h, p)
      PROVE  Phases' /\ HandlersInv' /\ LogInv'
  <2> DEFINE row == Row(p, now + RetentionOf(p), Cardinality(seen))
             next == [at |-> "stored", p |-> p, todo |-> <<>>]
  <2>1. /\ phase = "ready" /\ phase' = phase /\ replay' = replay /\ upkeep' = upkeep
        /\ handler[h] = IdleHandler /\ handler' = [handler EXCEPT ![h] = next]
        /\ log' = log \cup {row} /\ offered' = offered /\ applied' = applied
    BY <1>1 DEF Admit, views
  <2>2. next.at = "stored" /\ next.p = p /\ next.todo = <<>> /\ row.p = p
    BY DEF Row
  <2> HIDE DEF next, row
  <2>3. \A g \in Handlers : handler'[g] = IF g = h THEN next ELSE handler[g]
    BY <1>0, <2>1
  <2>4. Phases'
    BY <2>1 DEF StartInv, Phases
  <2>5. HandlersInv'
    BY <2>1, <2>2, <2>3 DEF StartInv, HandlersInv
  <2>6. ASSUME NEW q \in Stored
        PROVE  \/ q \in applied' /\ Range(MapOperations(q)) \subseteq offered'
               \/ \E g \in Handlers : handler'[g].p = q
               \/ \E r \in replay : r.p = q
    <3>1. q \in Packets
      BY <2>6 DEF Stored, StartInv, Holdings
    <3>2. handler[h].p # q
      BY <2>1, <3>1, NoneAssumption DEF IdleHandler
    <3> QED BY <2>1, <2>3, <2>6, <3>2 DEF StartInv, LogInv, Reflected
  <2>7. ASSUME NEW q \in Stored'
        PROVE  \/ q \in applied' /\ Range(MapOperations(q)) \subseteq offered'
               \/ \E g \in Handlers : handler'[g].p = q
               \/ \E r \in replay : r.p = q
    <3>1. q \in Stored \/ q = p
      BY <2>1, <2>2, <2>7 DEF Stored
    <3> QED BY <2>2, <2>3, <2>6, <3>1
  <2>8. LogInv'
    BY <2>1, <2>7 DEF LogInv, Reflected
  <2> QED BY <2>4, <2>5, <2>8
<1>2. ASSUME NEW h \in Handlers, Announce(h)
      PROVE  Phases' /\ HandlersInv' /\ LogInv'
  <2> DEFINE todo == IF UpdatesMap(handler[h].p) THEN MapOperations(handler[h].p) ELSE <<>>
  <2>1. handler[h].at = "stored" /\ handler[h].p \in Packets
    BY <1>2 DEF Announce, StartInv, Holdings
  <2>2. phase # "replay"
    BY <2>1 DEF StartInv, Phases, IdleHandler
  <2>3. todo = MapOperations(handler[h].p)
    BY NoOperations
  <2>4. todo \in Seq(AllOps)
    BY <2>1, <2>3, OperationsFacts DEF WellFormedOps
  <2>5. Advance(h, handler[h].p, todo) /\ log' = log /\ replay' = replay /\ phase' = phase /\ upkeep' = upkeep
    BY <1>2 DEF Announce
  <2> HIDE DEF todo
  <2>6. Range(MapOperations(handler[h].p)) \subseteq offered \cup Range(todo)
    BY <2>3
  <2> QED BY <2>1, <2>2, <2>4, <2>5, <2>6, AdvanceReflects
<1>3. ASSUME NEW h \in Handlers, Continue(h)
      PROVE  Phases' /\ HandlersInv' /\ LogInv'
  <2>1. handler[h].at = "views" /\ handler[h].p \in Packets /\ handler[h].todo \in Seq(AllOps)
    BY <1>3 DEF Continue, StartInv, Holdings
  <2>2. phase # "replay"
    BY <2>1 DEF StartInv, Phases, IdleHandler
  <2>3. Range(MapOperations(handler[h].p)) \subseteq offered \cup Range(handler[h].todo)
    BY <2>1 DEF StartInv, HandlersInv
  <2>4. /\ Advance(h, handler[h].p, handler[h].todo)
        /\ log' = log /\ replay' = replay /\ phase' = phase /\ upkeep' = upkeep
    BY <1>3 DEF Continue
  <2> QED BY <2>1, <2>2, <2>3, <2>4, AdvanceReflects
<1>4. ASSUME Evict PROVE Phases' /\ HandlersInv' /\ LogInv'
  <2>1. /\ log' \subseteq log /\ phase # "replay" /\ phase' = phase /\ replay' = replay
        /\ handler' = handler /\ offered' = offered /\ applied' = applied
    BY <1>4 DEF Evict, views
  <2>2. Stored' \subseteq Stored
    BY <2>1 DEF Stored
  <2> QED BY <2>1, <2>2 DEF StartInv, Phases, HandlersInv, LogInv, Reflected
<1>5. ASSUME ReadRelayable PROVE Phases' /\ HandlersInv' /\ LogInv'
  <2>1. phase # "replay"
    BY <1>5 DEF ReadRelayable, StartInv, Phases, IdleUpkeep
  <2> QED BY <1>5, <2>1 DEF ReadRelayable, StartInv, Phases, HandlersInv, LogInv, Reflected, Stored
<1>6. ASSUME WritePriority PROVE Phases' /\ HandlersInv' /\ LogInv'
  <2>1. phase # "replay"
    BY <1>6 DEF WritePriority, StartInv, Phases, IdleUpkeep
  <2> QED BY <1>6, <2>1
          DEF WritePriority, views, StartInv, Phases, HandlersInv, LogInv, Reflected, Stored
<1>7. ASSUME Restart PROVE Phases' /\ HandlersInv' /\ LogInv'
  <2>1. /\ phase' = "replay" /\ replay' = log /\ log' = log /\ upkeep' = IdleUpkeep
        /\ handler' = [h \in Handlers |-> IdleHandler]
    BY <1>7 DEF Restart, Replayed
  <2>2. \A h \in Handlers : handler'[h] = IdleHandler
    BY <2>1
  <2>3. Phases'
    BY <2>1, <2>2 DEF Phases
  <2>4. HandlersInv'
    BY <2>2 DEF HandlersInv, IdleHandler
  <2>5. LogInv'
    BY <2>1 DEF LogInv, Stored
  <2> QED BY <2>3, <2>4, <2>5
<1>8. ASSUME NEW row \in replay, ReplayRow(row) PROVE Phases' /\ HandlersInv' /\ LogInv'
  <2> DEFINE ops == Range(MapOperations(row.p))
  <2>1. /\ phase = "replay" /\ phase' = phase /\ upkeep' = upkeep /\ handler' = handler /\ log' = log
        /\ replay' = replay \ {row} /\ applied' = applied \cup {row.p} /\ offered' = offered \cup ops
    BY <1>8 DEF ReplayRow
  <2>2. Phases'
    BY <2>1 DEF StartInv, Phases
  <2>3. HandlersInv'
    BY <2>1 DEF StartInv, HandlersInv
  <2>4. ASSUME NEW q \in Stored
        PROVE  \/ q \in applied' /\ Range(MapOperations(q)) \subseteq offered'
               \/ \E g \in Handlers : handler[g].p = q
               \/ \E r \in replay' : r.p = q
    <3>1. CASE q = row.p
      BY <2>1, <3>1
    <3>2. CASE q # row.p
      BY <2>1, <2>4, <3>2 DEF StartInv, LogInv, Reflected
    <3> QED BY <3>1, <3>2
  <2>5. LogInv'
    BY <2>1, <2>4 DEF LogInv, Reflected, Stored
  <2> QED BY <2>2, <2>3, <2>5
<1>9. ASSUME FinishReplay PROVE Phases' /\ HandlersInv' /\ LogInv'
  BY <1>9 DEF FinishReplay, StartInv, Phases, HandlersInv, LogInv, Reflected, Stored
<1>10. ASSUME Tick PROVE Phases' /\ HandlersInv' /\ LogInv'
  BY <1>10 DEF Tick, views, StartInv, Phases, HandlersInv, LogInv, Reflected, Stored
<1>11. CASE UNCHANGED vars
  BY <1>11 DEF vars, views, StartInv, Phases, HandlersInv, LogInv, Reflected, Stored
<1> QED BY <1>1, <1>2, <1>3, <1>4, <1>5, <1>6, <1>7, <1>8, <1>9, <1>10, <1>11
        DEF Next, Ingest, Maintain, Rebuild

THEOREM StartInvariant == Spec => []StartInv
<1>1. Init => StartInv
  BY InitStart, InitIInv DEF StartInv, IInv
<1>2. IInv /\ StartInv /\ [Next]_vars => StartInv'
  BY NextStart, NextIInv DEF StartInv, IInv
<1> QED BY <1>1, <1>2, ViewsInvariant, PTL DEF Spec

\* Outside the replay every stored packet is in the views or with a handler: a
\* process that dies between the insert and the views loses nothing.
THEOREM StoredIsReflected == Spec => []LogIsReflected
<1>1. StartInv => LogIsReflected
  BY DEF StartInv, Phases, LogInv, LogIsReflected
<1> QED BY <1>1, StartInvariant, PTL

-----------------------------------------------------------------------------
(* Types *)

TypeInv == IInv /\ TypeOK /\ IsFiniteSet(seen)

\* The smallest of some priorities is one of them.
LEMMA MinOfPriorities ==
  ASSUME NEW S \in SUBSET (0..7), S # {}
  PROVE  Min(S) \in S
<1>1. S \subseteq {0, 1, 2, 3, 4, 5, 6, 7}
  OBVIOUS
<1>2. ASSUME NEW x \in S, \A y \in S : x <= y PROVE Min(S) \in S
  BY <1>2 DEF Min
<1>3. CASE 0 \in S
  BY <1>2, <1>3
<1>4. CASE 1 \in S /\ 0 \notin S
  BY <1>2, <1>4
<1>5. CASE 2 \in S /\ 0 \notin S /\ 1 \notin S
  BY <1>2, <1>5
<1>6. CASE 3 \in S /\ 0 \notin S /\ 1 \notin S /\ 2 \notin S
  BY <1>2, <1>6
<1>7. CASE 4 \in S /\ 0 \notin S /\ 1 \notin S /\ 2 \notin S /\ 3 \notin S
  BY <1>2, <1>7
<1>8. CASE 5 \in S /\ 0 \notin S /\ 1 \notin S /\ 2 \notin S /\ 3 \notin S /\ 4 \notin S
  BY <1>2, <1>8
<1>9. CASE 6 \in S /\ 0 \notin S /\ 1 \notin S /\ 2 \notin S /\ 3 \notin S /\ 4 \notin S /\ 5 \notin S
  BY <1>2, <1>9
<1>10. CASE 7 \in S /\ 0 \notin S /\ 1 \notin S /\ 2 \notin S /\ 3 \notin S /\ 4 \notin S /\ 5 \notin S /\ 6 \notin S
  BY <1>2, <1>10
<1> QED BY <1>1, <1>3, <1>4, <1>5, <1>6, <1>7, <1>8, <1>9, <1>10

LEMMA PriorityType ==
  ASSUME NEW type
  PROVE  PriorityOf(type) \in 0..7
BY DEF PriorityOf

LEMMA UrgencyType ==
  ASSUME NEW S
  PROVE  UrgencyOf(S) \in 0..Lowest
<1> DEFINE T == {PriorityOf(p.type) : p \in S} \cup {Lowest}
<1>1. T \in SUBSET (0..7) /\ T # {}
  BY PriorityType DEF Lowest
<1>2. Min(T) \in 0..7
  BY <1>1, MinOfPriorities
<1> QED BY <1>2 DEF UrgencyOf, Lowest

LEMMA RetentionType ==
  ASSUME NEW p
  PROVE  RetentionOf(p) \in Nat
<1>1. \A class : Ttl(class) \in Nat
  BY DEF Ttl
<1> QED BY <1>1 DEF RetentionOf, TombstoneRetention

LEMMA FirstTime == Min(Times) \in Times
BY TimesAssumption DEF Min

\* What the handlers hold.
HandlerRecord == [at : {"idle", "stored", "views"}, p : Packets \cup {None}, todo : Seq(AllOps)]

LEMMA IdleHandlerType == IdleHandler \in HandlerRecord
<1>1. <<>> \in Seq(AllOps)
  OBVIOUS
<1> QED BY <1>1 DEF IdleHandler, HandlerRecord

LEMMA InitTypes ==
  ASSUME Init
  PROVE  TypeInv
<1>1. IInv
  BY InitIInv
<1>2. handler \in [Handlers -> HandlerRecord]
  BY IdleHandlerType DEF Init
<1>3. now \in Times /\ restarts \in 0..MaxRestarts /\ waiting \in 0..Lowest
  BY FirstTime, BoundsAssumption DEF Init, Lowest
<1>4. /\ log \subseteq RowRecord /\ replay \subseteq RowRecord
      /\ seen \subseteq Packets /\ IsFiniteSet(seen)
      /\ phase \in {"ready", "replay", "upkeep"}
  BY FS_EmptySet DEF Init
<1>5. upkeep \in [at : {"idle", "read", "write"}, relayable : SUBSET Packets]
  BY DEF Init, IdleUpkeep
<1>6. mirror \in [Keys -> MapObject \cup {None}]
  BY DEF Init, EmptyMap
<1> QED BY <1>1, <1>2, <1>3, <1>4, <1>5, <1>6 DEF TypeInv, TypeOK, IInv, ViewTypes, HandlerRecord

\* One step of the views of an ingest writes the mirror and its handler.
LEMMA AdvanceTypes ==
  ASSUME TypeInv, IInv', NEW h \in Handlers, NEW p \in Packets, NEW todo \in Seq(AllOps),
         Advance(h, p, todo)
  PROVE  /\ mirror' \in [Keys -> MapObject \cup {None}]
         /\ handler' \in [Handlers -> HandlerRecord]
<1>1. handler \in [Handlers -> HandlerRecord] /\ mirror \in [Keys -> MapObject \cup {None}]
  BY DEF TypeInv, TypeOK, HandlerRecord
<1>2. CASE todo = <<>>
  <2>1. handler' = [handler EXCEPT ![h] = IdleHandler] /\ mirror' = mirror
    BY <1>2 DEF Advance
  <2> QED BY <1>1, <2>1, IdleHandlerType
<1>3. CASE todo # <<>>
  <2> DEFINE op == Head(todo)
             next == [at |-> "views", p |-> p, todo |-> Tail(todo)]
             kept == Persisted(map'[op.key])
  <2>1. op \in AllOps /\ Tail(todo) \in Seq(AllOps)
    BY <1>3
  <2>2. next \in HandlerRecord
    BY <2>1 DEF HandlerRecord
  <2>3. /\ handler' = [handler EXCEPT ![h] = next]
        /\ mirror' = mirror \/ mirror' = [mirror EXCEPT ![op.key] = kept]
    BY <1>3 DEF Advance
  <2>4. op.key \in Keys
    BY <2>1, OpFacts
  <2>5. kept \in MapObject \cup {None}
    BY <2>4 DEF Persisted, IInv, ViewTypes
  <2> HIDE DEF next, kept, op
  <2> QED BY <1>1, <2>2, <2>3, <2>5
<1> QED BY <1>2, <1>3

LEMMA NextTypes ==
  ASSUME TypeInv, [Next]_vars
  PROVE  TypeInv'
<1>0. IInv'
  BY NextIInv DEF TypeInv
<1> USE <1>0
<1>a. /\ DOMAIN handler = Handlers
      /\ \A h \in Handlers : handler[h].at \in {"stored", "views"} => handler[h].p \in Packets
      /\ \A h \in Handlers : handler[h].todo \in Seq(AllOps)
  BY DEF TypeInv, IInv, Holdings
<1>1. ASSUME NEW h \in Handlers, NEW p \in Packets, Admit(h, p) PROVE TypeInv'
  <2> DEFINE row == Row(p, now + RetentionOf(p), Cardinality(seen))
             next == [at |-> "stored", p |-> p, todo |-> <<>>]
  <2>1. /\ log' = log \cup {row} /\ seen' = seen \cup {p}
        /\ handler' = [handler EXCEPT ![h] = next]
        /\ UNCHANGED <<now, views, waiting, upkeep, phase, replay, restarts>>
    BY <1>1 DEF Admit
  <2>2. Cardinality(seen) \in Nat /\ IsFiniteSet(seen') /\ seen' \subseteq Packets
    BY <2>1, FS_CardinalityType, FS_AddElement DEF TypeInv, TypeOK
  <2>3. now \in Nat
    BY TimesAssumption DEF TypeInv, TypeOK
  <2>4. row \in RowRecord
    BY <2>2, <2>3, RetentionType DEF Row, RowRecord
  <2>5. next \in HandlerRecord
    <3>1. <<>> \in Seq(AllOps)
      OBVIOUS
    <3> QED BY <3>1 DEF HandlerRecord
  <2> HIDE DEF row, next
  <2>6. log' \subseteq RowRecord
    BY <2>1, <2>4 DEF TypeInv, TypeOK
  <2>7. handler' \in [Handlers -> HandlerRecord]
    BY <2>1, <2>5 DEF TypeInv, TypeOK, HandlerRecord
  <2> QED BY <2>1, <2>2, <2>6, <2>7 DEF TypeInv, TypeOK, views, HandlerRecord
<1>2. ASSUME NEW h \in Handlers, Announce(h) PROVE TypeInv'
  <2> DEFINE p == handler[h].p
             todo == IF UpdatesMap(p) THEN MapOperations(p) ELSE <<>>
  <2>1. p \in Packets
    BY <1>2, <1>a DEF Announce
  <2>2. todo \in Seq(AllOps)
    BY <2>1, OperationsFacts DEF WellFormedOps
  <2>3. /\ Advance(h, p, todo)
        /\ waiting' = IF Relayable(p) THEN Min({waiting, PriorityOf(p.type)}) ELSE waiting
        /\ UNCHANGED <<now, log, seen, upkeep, phase, replay, restarts>>
    BY <1>2 DEF Announce
  <2>4. waiting' \in 0..Lowest
    <3>1. waiting \in 0..7
      BY DEF TypeInv, TypeOK, Lowest
    <3>2. Min({waiting, PriorityOf(p.type)}) \in {waiting, PriorityOf(p.type)}
      BY <3>1, PriorityType, MinOfPriorities
    <3> QED BY <2>3, <3>1, <3>2, PriorityType DEF Lowest
  <2> HIDE DEF p, todo
  <2>5. /\ mirror' \in [Keys -> MapObject \cup {None}]
        /\ handler' \in [Handlers -> HandlerRecord]
    BY <2>1, <2>2, <2>3, AdvanceTypes
  <2> QED BY <2>3, <2>4, <2>5 DEF TypeInv, TypeOK, IInv, ViewTypes, HandlerRecord
<1>3. ASSUME NEW h \in Handlers, Continue(h) PROVE TypeInv'
  <2>1. /\ handler[h].p \in Packets
        /\ Advance(h, handler[h].p, handler[h].todo)
        /\ UNCHANGED <<now, log, seen, waiting, upkeep, phase, replay, restarts>>
    BY <1>3, <1>a DEF Continue
  <2>2. /\ mirror' \in [Keys -> MapObject \cup {None}]
        /\ handler' \in [Handlers -> HandlerRecord]
    BY <1>a, <2>1, AdvanceTypes
  <2> QED BY <2>1, <2>2 DEF TypeInv, TypeOK, IInv, ViewTypes, HandlerRecord
<1>4. ASSUME Evict PROVE TypeInv'
  <2>1. log' \subseteq log /\ upkeep' = [upkeep EXCEPT !.at = "read"]
        /\ UNCHANGED <<now, seen, views, waiting, handler, phase, replay, restarts>>
    BY <1>4 DEF Evict
  <2>2. upkeep' \in [at : {"idle", "read", "write"}, relayable : SUBSET Packets]
    BY <2>1 DEF TypeInv, TypeOK
  <2> QED BY <2>1, <2>2 DEF TypeInv, TypeOK, views
<1>5. ASSUME ReadRelayable PROVE TypeInv'
  <2>1. /\ upkeep' = [at |-> "write", relayable |-> {p \in Stored : Relayable(p)}]
        /\ UNCHANGED <<now, log, seen, map, mirror, offered, applied, waiting, handler,
                       phase, replay, restarts>>
    BY <1>5 DEF ReadRelayable
  <2>2. {p \in Stored : Relayable(p)} \subseteq Packets
    BY DEF Stored, TypeInv, IInv, Holdings
  <2>3. upkeep' \in [at : {"idle", "read", "write"}, relayable : SUBSET Packets]
    BY <2>1, <2>2
  <2> QED BY <2>1, <2>3 DEF TypeInv, TypeOK, IInv, ViewTypes
<1>6. ASSUME WritePriority PROVE TypeInv'
  <2>1. /\ waiting' = UrgencyOf(upkeep.relayable)
        /\ upkeep' = IdleUpkeep /\ phase' = "ready"
        /\ UNCHANGED <<now, log, seen, views, handler, replay, restarts>>
    BY <1>6 DEF WritePriority
  <2>2. upkeep' \in [at : {"idle", "read", "write"}, relayable : SUBSET Packets]
    BY <2>1 DEF IdleUpkeep
  <2>3. waiting' \in 0..Lowest
    BY <2>1, UrgencyType
  <2> QED BY <2>1, <2>2, <2>3 DEF TypeInv, TypeOK, views
<1>7. ASSUME Restart PROVE TypeInv'
  <2>1. /\ restarts < MaxRestarts /\ restarts' = restarts + 1
        /\ phase' = "replay" /\ replay' = log /\ waiting' = Lowest
        /\ handler' = [h \in Handlers |-> IdleHandler]
        /\ upkeep' = IdleUpkeep
        /\ UNCHANGED <<now, log, seen, mirror>>
    BY <1>7 DEF Restart, Replayed
  <2>2. upkeep' \in [at : {"idle", "read", "write"}, relayable : SUBSET Packets]
    BY <2>1 DEF IdleUpkeep
  <2>3. handler' \in [Handlers -> HandlerRecord]
    BY <2>1, IdleHandlerType
  <2>4. restarts' \in 0..MaxRestarts /\ waiting' \in 0..Lowest
    BY <2>1, BoundsAssumption DEF TypeInv, TypeOK, Lowest
  <2> QED BY <2>1, <2>2, <2>3, <2>4 DEF TypeInv, TypeOK, IInv, ViewTypes, HandlerRecord
<1>8. ASSUME NEW row \in replay, ReplayRow(row) PROVE TypeInv'
  <2>1. /\ replay' \subseteq replay
        /\ UNCHANGED <<now, log, seen, mirror, waiting, handler, upkeep, phase, restarts>>
    BY <1>8 DEF ReplayRow
  <2> QED BY <2>1 DEF TypeInv, TypeOK, IInv, ViewTypes
<1>9. ASSUME FinishReplay PROVE TypeInv'
  <2>1. /\ mirror' = [k \in Keys |-> IF Visible(map[k], k.kind, now) THEN map[k] ELSE None]
        /\ phase' = "upkeep"
        /\ UNCHANGED <<now, log, seen, incidents, map, offered, applied, waiting, handler,
                       upkeep, replay, restarts>>
    BY <1>9 DEF FinishReplay
  <2>2. mirror' \in [Keys -> MapObject \cup {None}]
    BY <2>1 DEF TypeInv, TypeOK
  <2> QED BY <2>1, <2>2 DEF TypeInv, TypeOK
<1>10. ASSUME Tick PROVE TypeInv'
  BY <1>10 DEF Tick, views, TypeInv, TypeOK
<1>11. CASE UNCHANGED vars
  BY <1>11 DEF vars, views, TypeInv, TypeOK
<1> QED BY <1>1, <1>2, <1>3, <1>4, <1>5, <1>6, <1>7, <1>8, <1>9, <1>10, <1>11
        DEF Next, Ingest, Maintain, Rebuild

THEOREM TypesInvariant == Spec => []TypeInv
<1>1. Init => TypeInv
  BY InitTypes
<1>2. TypeInv /\ [Next]_vars => TypeInv'
  BY NextTypes
<1> QED BY <1>1, <1>2, PTL DEF Spec

\* Every variable keeps its shape, whatever the packets and the handlers.
THEOREM TypeCorrect == Spec => []TypeOK
<1>1. TypeInv => TypeOK
  BY DEF TypeInv
<1> QED BY <1>1, TypesInvariant, PTL

-----------------------------------------------------------------------------
(* The mirror *)

\* What is not visible does not become visible as time passes.
LEMMA VisibleFades ==
  ASSUME NEW object \in MapObject \cup {None}, NEW kind, NEW t \in Nat, NEW u \in Nat, t < u,
         Visible(object, kind, u)
  PROVE  Visible(object, kind, t)
<1>1. object \in MapObject
  BY DEF Visible
<1>2. object.expires \in Nat /\ object.asOf \in Nat
  BY <1>1 DEF MapObject
<1> QED BY <1>2 DEF Visible, LocationExpire

\* An operation and its write leave the mirror in step with the map.
LEMMA AdvanceMirrors ==
  ASSUME TypeInv, MirrorFollowsMap, NEW h \in Handlers, NEW p \in Packets,
         NEW todo \in Seq(AllOps), Advance(h, p, todo), now' = now, phase' = phase
  PROVE  MirrorFollowsMap'
<1>1. CASE todo = <<>>
  <2>1. map' = map /\ mirror' = mirror
    BY <1>1 DEF Advance
  <2> QED BY <2>1 DEF MirrorFollowsMap
<1>2. CASE todo # <<>>
  <2> DEFINE op == Head(todo)
             after == Projected(map[op.key], op)
  <2>1. op \in AllOps
    BY <1>2
  <2>2. op.key \in Keys
    BY <2>1, OpFacts
  <2>3. /\ map' = [map EXCEPT ![op.key] = after]
        /\ mirror' = IF Ignored(map[op.key], op) THEN mirror
                     ELSE [mirror EXCEPT ![op.key] = Persisted(map'[op.key])]
    BY <1>2 DEF Advance
  <2>4. Ignored(map[op.key], op) => after = map[op.key]
    BY DEF Projected
  <2>5. map \in [Keys -> MapObject \cup {None}] /\ mirror \in [Keys -> MapObject \cup {None}]
    BY DEF TypeInv, TypeOK
  <2>6. after \in MapObject
    <3>1. map[op.key] # None => \E x \in AllOps : x.key = op.key /\ BuiltBy(map[op.key], x)
      BY <2>2 DEF TypeInv, IInv, MapOK
    <3> QED BY <2>1, <2>2, <2>5, <3>1, ProjectedFacts
  <2> HIDE DEF op, after
  <2>7. CASE Ignored(map[op.key], op)
    <3>1. map' = map /\ mirror' = mirror
      BY <2>2, <2>3, <2>4, <2>5, <2>7
    <3> QED BY <3>1 DEF MirrorFollowsMap
  <2>8. CASE ~Ignored(map[op.key], op)
    <3>1. mirror' = [mirror EXCEPT ![op.key] = Persisted(map'[op.key])]
      BY <2>3, <2>8
    <3>2. map'[op.key] = after /\ mirror'[op.key] = Persisted(after)
      BY <2>2, <2>3, <2>5, <3>1
    <3>3. \A k \in Keys : k # op.key => map'[k] = map[k] /\ mirror'[k] = mirror[k]
      BY <2>3, <2>5, <3>1
    <3>4. after # None
      BY <2>6, NoneAssumption
    <3>5. /\ mirror'[op.key] # None => mirror'[op.key] = map'[op.key] /\ ~map'[op.key].gone
          /\ Visible(map'[op.key], op.key.kind, now') => mirror'[op.key] = map'[op.key]
      BY <3>2, <3>4 DEF Persisted, Visible
    <3> QED BY <3>3, <3>5 DEF MirrorFollowsMap
  <2> QED BY <2>7, <2>8
<1> QED BY <1>1, <1>2

LEMMA NextMirror ==
  ASSUME TypeInv, StartInv, MirrorFollowsMap, [Next]_vars
  PROVE  MirrorFollowsMap'
<1>1. ASSUME NEW h \in Handlers, NEW p \in Packets, Admit(h, p) PROVE MirrorFollowsMap'
  BY <1>1 DEF Admit, views, MirrorFollowsMap
<1>2. ASSUME NEW h \in Handlers, Announce(h) PROVE MirrorFollowsMap'
  <2> DEFINE p == handler[h].p
             todo == IF UpdatesMap(p) THEN MapOperations(p) ELSE <<>>
  <2>1. p \in Packets
    BY <1>2 DEF Announce, StartInv, Holdings
  <2>2. todo \in Seq(AllOps)
    BY <2>1, OperationsFacts DEF WellFormedOps
  <2>3. Advance(h, p, todo) /\ now' = now /\ phase' = phase
    BY <1>2 DEF Announce
  <2> HIDE DEF p, todo
  <2> QED BY <2>1, <2>2, <2>3, AdvanceMirrors
<1>3. ASSUME NEW h \in Handlers, Continue(h) PROVE MirrorFollowsMap'
  <2>1. handler[h].p \in Packets /\ handler[h].todo \in Seq(AllOps)
    BY <1>3 DEF Continue, StartInv, Holdings
  <2>2. Advance(h, handler[h].p, handler[h].todo) /\ now' = now /\ phase' = phase
    BY <1>3 DEF Continue
  <2> QED BY <2>1, <2>2, AdvanceMirrors
<1>4. ASSUME Evict PROVE MirrorFollowsMap'
  BY <1>4 DEF Evict, views, MirrorFollowsMap
<1>5. ASSUME ReadRelayable PROVE MirrorFollowsMap'
  BY <1>5 DEF ReadRelayable, MirrorFollowsMap
<1>6. ASSUME WritePriority PROVE MirrorFollowsMap'
  <2>1. phase # "replay"
    BY <1>6 DEF WritePriority, StartInv, Phases, IdleUpkeep
  <2> QED BY <1>6, <2>1 DEF WritePriority, views, MirrorFollowsMap
<1>7. ASSUME Restart PROVE MirrorFollowsMap'
  BY <1>7 DEF Restart, MirrorFollowsMap
<1>8. ASSUME NEW row \in replay, ReplayRow(row) PROVE MirrorFollowsMap'
  BY <1>8 DEF ReplayRow, MirrorFollowsMap
<1>9. ASSUME FinishReplay PROVE MirrorFollowsMap'
  <2>1. /\ mirror' = [k \in Keys |-> IF Visible(map[k], k.kind, now) THEN map[k] ELSE None]
        /\ map' = map /\ now' = now
    BY <1>9 DEF FinishReplay
  <2>2. ASSUME NEW k \in Keys
        PROVE  /\ mirror'[k] # None => mirror'[k] = map[k] /\ ~map[k].gone
               /\ Visible(map[k], k.kind, now) => mirror'[k] = map[k]
    BY <2>1 DEF Visible
  <2> QED BY <2>1, <2>2 DEF MirrorFollowsMap
<1>10. ASSUME Tick PROVE MirrorFollowsMap'
  <2>1. /\ now \in Nat /\ now' \in Nat /\ now < now'
        /\ map' = map /\ mirror' = mirror /\ phase' = phase
    BY <1>10, TimesAssumption DEF Tick, views, TypeInv, TypeOK
  <2>2. ASSUME NEW k \in Keys, Visible(map[k], k.kind, now') PROVE Visible(map[k], k.kind, now)
    <3>1. map[k] \in MapObject \cup {None}
      BY DEF TypeInv, TypeOK
    <3> QED BY <2>1, <2>2, <3>1, VisibleFades
  <2> QED BY <2>1, <2>2 DEF MirrorFollowsMap
<1>11. CASE UNCHANGED vars
  BY <1>11 DEF vars, views, MirrorFollowsMap
<1> QED BY <1>1, <1>2, <1>3, <1>4, <1>5, <1>6, <1>7, <1>8, <1>9, <1>10, <1>11
        DEF Next, Ingest, Maintain, Rebuild

\* Once the device has started, the mirror holds nothing the map has closed or
\* moved on from and misses nothing it shows, for any interleaving of ingests.
THEOREM MirrorIsInStep == Spec => []MirrorFollowsMap
<1>1. Init => MirrorFollowsMap
  BY DEF Init, MirrorFollowsMap, EmptyMap, Visible
<1>2. TypeInv /\ StartInv /\ MirrorFollowsMap /\ [Next]_vars => MirrorFollowsMap'
  BY NextMirror
<1> QED BY <1>1, <1>2, TypesInvariant, StartInvariant, PTL DEF Spec
=============================================================================
