---------------------------- MODULE DispatchDesk ----------------------------
(***************************************************************************)
(* The coordination centre: operators send responders to incidents and     *)
(* keep the region's records, phones report through their gateways, and    *)
(* the process may die.                                                    *)
(*                                                                         *)
(* A request runs to its end before the next one starts.  It stores a      *)
(* packet, has the incident reducer take it, queues it for the region, and *)
(* then writes the responder or the record; the packet store, the queue    *)
(* and the desk's records are saved one by one, so a death may cut a       *)
(* request after any of them.  What is on disk and what is in memory       *)
(* differ only in a request that was cut; the incidents are never saved    *)
(* and are rebuilt from the stored packets.                                *)
(***************************************************************************)
EXTENDS IncidentReducer, FiniteSets, SequencesExt

CONSTANTS
  Responders,
  Incidents,     \* incidents there may be
  Objects,       \* IDs that region objects have or are given
  Contents,      \* what a record may say: place and state of the object
  Seeded,        \* objects the desk starts with
  Hazards,       \* those of the objects that are hazards
  FieldPackets,  \* packets that phones upload, of PacketRules!Build
  MaxPackets,    \* bound: length of the packet log
  MaxVersion,    \* bound: versions of a record
  QueueDepth,    \* packets in the store beyond which validation refuses some
  MaxDeaths      \* bound: deaths of the process

Desk == Self     \* the backend and the identities it publishes under

ASSUME FieldAssumption ==
  \A p \in FieldPackets : p.source # Desk /\ p.about \in Incidents /\ UpdatesIncident(p)
ASSUME SeededAssumption == Hazards \subseteq Seeded /\ Seeded \subseteq Objects
ASSUME BoundsAssumption == MaxPackets \in Nat /\ MaxVersion \in Nat \ {0} /\ QueueDepth \in Nat /\ MaxDeaths \in Nat
ASSUME NoneAssumption == None \notin Incidents \cup Contents

VARIABLES
  up,            \* the process runs
  log,           \* stored packets about incidents, in the order of the store
  incidents,     \* what the reducer holds of each; nothing while the process is down
  notices,       \* stored packets about region objects
  outbound,      \* packets queued for the region: steps of responders, notices
  responders,    \* the desk's responders
  records,       \* the desk's region records
  deaths

vars == <<up, log, incidents, notices, outbound, responders, records, deaths>>

Statuses == {"available", "assigned", "accepted", "en-route", "arrived"}
Actions  == {"accepted", "en-route", "arrived", "resolved"}

\* The status in which a responder takes an action.
Before(action) ==
  CASE action = "accepted" -> "assigned"
    [] action = "en-route" -> "accepted"
    [] action = "arrived"  -> "en-route"
    [] action = "resolved" -> "arrived"

PacketType(status) ==
  CASE status = "assigned" -> "RESPONDER_ASSIGNED"
    [] status = "accepted" -> "RESPONDER_ACCEPTED"
    [] status = "en-route" -> "RESPONDER_EN_ROUTE"
    [] status = "arrived"  -> "RESPONDER_ARRIVED"
    [] status = "resolved" -> "RESOLVED"

Responder(status, i) == [status |-> status, incident |-> i]
Free == Responder("available", None)
Record(v, c) == [version |-> v, content |-> c]
Step(r, type, i)  == [ref |-> r, type |-> type, about |-> i]
Notice(o, v, c)   == [object |-> o, version |-> v, content |-> c]

NoIncidents == [i \in Incidents |-> None]

\* How far a request gets: the packet is stored, then queued, then the desk's
\* own record is saved.  Only a request that is "done" outlives the process.
Progress == {"stored", "queued", "done"}

Cut(progress) ==
  /\ progress # "done" => deaths < MaxDeaths
  /\ deaths' = IF progress = "done" THEN deaths ELSE deaths + 1
  /\ up' = (progress = "done")

Full == Len(log) + Cardinality(notices) >= QueueDepth

-----------------------------------------------------------------------------
(* Packets about incidents *)

\* Mutant: only what phones upload is given to the reducer.
StoreUnreduced(p, progress) ==
  /\ Len(log) < MaxPackets
  /\ log' = Append(log, p)
  /\ incidents' = IF progress # "done" THEN NoIncidents
                  ELSE IF p.source = Desk THEN incidents ELSE ApplyToIncidents(incidents, p)

Store(p, progress) ==
  /\ Len(log) < MaxPackets
  /\ log' = Append(log, p)
  /\ incidents' = IF progress = "done" THEN ApplyToIncidents(incidents, p) ELSE NoIncidents

\* A phone's packet comes in through a gateway.
Ingest(p, progress) ==
  /\ up /\ \A k \in DOMAIN log : log[k] # p
  /\ progress \in {"stored", "done"} /\ Cut(progress)
  /\ Store(p, progress)
  /\ UNCHANGED <<notices, outbound, responders, records>>

\* The desk's packets about an incident are numbered by the incident's timeline.
StatePacket(r, type, i) ==
  Build(Len(log) + 1, type, Desk, "COORDINATOR_PROVISIONED", i, r,
        Cardinality({k \in DOMAIN log : log[k].about = i}) + 1, 0, 0)

\* Mutant: the responder is written before the packet is out.
WrittenFirst(r, after, progress) == [responders EXCEPT ![r] = after]

Written(r, after, progress) == IF progress = "done" THEN [responders EXCEPT ![r] = after] ELSE responders

\* Publish what became of a responder, then write it down.
MoveResponder(r, type, i, after, progress) ==
  /\ up /\ Cut(progress)
  /\ Store(StatePacket(r, type, i), progress)
  /\ outbound' = IF progress = "stored" THEN outbound ELSE outbound \cup {Step(r, type, i)}
  /\ responders' = Written(r, after, progress)
  /\ UNCHANGED <<notices, records>>

\* Mutant: a responder under way may be sent elsewhere.
IsAvailableAlways(r) == TRUE

IsAvailable(r) == responders[r] = Free

AssignResponder(r, i, progress) ==
  /\ IsAvailable(r)
  /\ incidents[i] # None
  /\ MoveResponder(r, "RESPONDER_ASSIGNED", i, Responder("assigned", i), progress)

\* Mutant: who resolved an incident is available and keeps it.
AfterKeeping(action, i) == Responder(IF action = "resolved" THEN "available" ELSE action, i)

After(action, i) == IF action = "resolved" THEN Free ELSE Responder(action, i)

\* The order of a responder's actions.
Takes(responder, action) == responder.status = Before(action)

UpdateResponderState(r, action, progress) ==
  LET i == responders[r].incident
  IN  /\ Takes(responders[r], action)
      /\ incidents[i] # None
      /\ MoveResponder(r, PacketType(action), i, After(action, i), progress)

-----------------------------------------------------------------------------
(* Region records *)

\* What the packet says of an object.  A hazard's packet has no field for its state.
Said(o, c) == IF o \in Hazards THEN None ELSE c

\* Mutant: the record is written before its notice is out.
RevisedFirst(o, v, c, progress) == [records EXCEPT ![o] = Record(v, c)]

Revised(o, v, c, progress) == IF progress = "done" THEN [records EXCEPT ![o] = Record(v, c)] ELSE records

\* The next version of a record is published, then written down.  Its packet is
\* of a class that validation refuses once the store is full.
PublishRecord(o, c, progress) ==
  LET v == records[o].version + 1
      n == Notice(o, v, Said(o, c))
  IN  /\ up /\ ~Full /\ v <= MaxVersion /\ Cut(progress)
      /\ notices' = notices \cup {n}
      /\ outbound' = IF progress = "stored" THEN outbound ELSE outbound \cup {n}
      /\ records' = Revised(o, v, c, progress)
      /\ incidents' = IF progress = "done" THEN incidents ELSE NoIncidents
      /\ UNCHANGED <<log, responders>>

\* A state is set, or a centre is moved.
UpdateRegionalRecord(o, c, progress) == records[o].version > 0 /\ PublishRecord(o, c, progress)

\* A new centre gets an ID that was never used, also not by a request that was cut.
CreateRegionalCentre(o, c, progress) ==
  /\ o \notin Hazards /\ records[o].version = 0 /\ \A n \in notices : n.object # o
  /\ PublishRecord(o, c, progress)

-----------------------------------------------------------------------------
(* Death and start of the process *)

Die ==
  /\ up /\ Cut("stored") /\ incidents' = NoIncidents
  /\ UNCHANGED <<log, notices, outbound, responders, records>>

\* The reducer takes the stored packets again, in their order.
Replayed(packets) == FoldLeft(ApplyToIncidents, NoIncidents, packets)

\* Mutant: only what was resolved lets its responders go.
StaleResolved(responder, incs) ==
  LET i == responder.incident
  IN  i # None /\ (incs[i] = None \/ incs[i].state = "resolved")

\* A responder is held by an incident that is unknown or closed.
Stale(responder, incs) ==
  LET i == responder.incident
  IN  i # None /\ (incs[i] = None \/ incs[i].state \in ClosedStates)

Start ==
  /\ ~up /\ up' = TRUE
  /\ incidents' = Replayed(log)
  /\ responders' = [r \in Responders |-> IF Stale(responders[r], incidents') THEN Free ELSE responders[r]]
  /\ UNCHANGED <<log, notices, outbound, records, deaths>>

-----------------------------------------------------------------------------
Init ==
  /\ up = TRUE
  /\ log = <<>> /\ incidents = NoIncidents
  /\ notices = {} /\ outbound = {}
  /\ responders = [r \in Responders |-> Free]
  /\ \E c \in Contents :
       records = [o \in Objects |-> IF o \in Seeded THEN Record(1, c) ELSE Record(0, None)]
  /\ deaths = 0

Next ==
  \/ \E progress \in Progress :
       \/ \E p \in FieldPackets : Ingest(p, progress)
       \/ \E r \in Responders, i \in Incidents : AssignResponder(r, i, progress)
       \/ \E r \in Responders, action \in Actions : UpdateResponderState(r, action, progress)
       \/ \E o \in Objects, c \in Contents : UpdateRegionalRecord(o, c, progress)
       \/ \E o \in Objects, c \in Contents : CreateRegionalCentre(o, c, progress)
  \/ Die
  \/ Start

Spec == Init /\ [][Next]_vars

-----------------------------------------------------------------------------
(* Properties *)

\* The desk's state is well formed: there are no incidents in a dead process, a
\* responder has an incident exactly while assigned, a record has a content
\* exactly once it has a version, and the log holds packets of phones and the desk.
TypeOK ==
  /\ up \in BOOLEAN /\ deaths \in 0..MaxDeaths
  /\ ~up => incidents = NoIncidents
  /\ Len(log) <= MaxPackets
  /\ \A k \in DOMAIN log :
       \/ log[k] \in FieldPackets
       \/ /\ log[k].source = Desk /\ log[k].about \in Incidents /\ log[k].ref \in Responders
          /\ log[k].type \in {"RESPONDER_ASSIGNED"} \cup {PacketType(a) : a \in Actions}
  /\ notices \subseteq {Notice(o, v, c) : o \in Objects, v \in 1..MaxVersion, c \in Contents \cup {None}}
  /\ responders \in [Responders -> {Free} \cup {Responder(s, i) : s \in Statuses \ {"available"}, i \in Incidents}]
  /\ records \in [Objects -> {Record(0, None)} \cup {Record(v, c) : v \in 1..MaxVersion, c \in Contents}]

\* The statuses an assignment has gone through.
PathTo(status) ==
  CASE status = "available" -> {}
    [] status = "assigned"  -> {"assigned"}
    [] status = "accepted"  -> {"assigned", "accepted"}
    [] status = "en-route"  -> {"assigned", "accepted", "en-route"}
    [] status = "arrived"   -> {"assigned", "accepted", "en-route", "arrived"}

\* The desk shows no step of a responder that the field cannot hear of: every
\* packet on the way to the status shown is queued for the region, whichever
\* requests a death of the process cut short.
HeldIsAnnounced ==
  \A r \in Responders : \A s \in PathTo(responders[r].status) :
    Step(r, PacketType(s), responders[r].incident) \in outbound

\* The packets that may be the last ones stored of a responder with this status.
LastTypes(status) ==
  {PacketType(status)} \cup {PacketType(a) : a \in {b \in Actions : Before(b) = status}}

IsOf(p, r) == p.source = Desk /\ p.ref = r

\* The desk may lag behind what it has published, by one step and no more: the
\* last stored packet of an assigned responder is of the incident shown, and of
\* the status shown or, after a death cut the request, of the one that follows.
DeskTrailsField ==
  \A r \in Responders : responders[r] # Free =>
    \E k \in DOMAIN log :
      /\ IsOf(log[k], r)
      /\ log[k].about = responders[r].incident
      /\ log[k].type \in LastTypes(responders[r].status)
      /\ \A j \in DOMAIN log : j > k => ~IsOf(log[j], r)

\* A record the desk shows was queued for the region, in what the packet says of
\* it, unless it is as the desk began; and no phone can hold a version of it more than one
\* ahead of the desk, so the next change is never older than what phones have.
RecordsFollowNotices ==
  \A o \in Objects :
    /\ records[o].version > 1 \/ (o \notin Seeded /\ records[o].version = 1) =>
         Notice(o, records[o].version, Said(o, records[o].content)) \in outbound
    /\ \A n \in notices : n.object = o => n.version <= records[o].version + 1

\* What the reducer holds in a running process is what a restart would rebuild
\* from the stored packets: no request leaves a packet reduced and not stored,
\* stored and not reduced, or reduced in another order.
RebuiltExactly == up => incidents = Replayed(log)

\* A process that comes up holds no responder for an incident that is unknown
\* or closed, also when the incident was closed by the very request that a
\* death cut before the desk let the responder go.
StartReleases ==
  [][~up /\ up' =>
       \A r \in Responders : responders'[r] # Free =>
         LET inc == incidents'[responders'[r].incident]
         IN  inc # None /\ inc.state \notin {"resolved", "cancelled", "expired"}]_vars
=============================================================================
