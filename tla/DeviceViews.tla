---------------------------- MODULE DeviceViews ----------------------------
(***************************************************************************)
(* One device's views of its packet log: the incidents, the map with its   *)
(* persisted mirror, and the advertised queue priority.  Ingests interleave *)
(* at their awaits, housekeeping runs beside them, and a process death     *)
(* keeps the log and the mirror and loses the rest until the log has been  *)
(* replayed.  PacketCustody has the details of the log itself; here insert *)
(* is one step.  Times are in hours.                                       *)
(***************************************************************************)
EXTENDS IncidentReducer, FiniteSets, FiniteSetsExt, SequencesExt

CONSTANTS
  Packets,     \* the packets that exist in the mesh, of PacketRules!Build
  Handlers,    \* concurrent runs of ingest()
  Times,       \* readings of the clock
  BatteryBand, \* 0 is critical
  MaxRestarts, \* process deaths considered
  MaxAdmitted  \* packets a behaviour stores

VARIABLES
  now,         \* the clock
  log,         \* rows of the packet log, numbered in the order of their insertion
  seen,        \* packets the log remembers having stored
  incidents,   \* incident -> what the reducer holds of it, or None
  map,         \* map key -> the projection's object, or None
  mirror,      \* map key -> the persisted copy, or None
  waiting,     \* advertised highest waiting priority (the smallest number)
  handler,     \* handler -> the packet it works on
  upkeep,      \* the housekeeping pass
  phase,       \* "ready", or what start-up is doing
  replay,      \* rows start-up has still to replay
  restarts,
  offered,     \* history: map operations handed to the projection since start
  applied      \* history: packets the incident reducer was given since start

views == <<incidents, map, mirror, offered, applied>>
vars  == <<now, log, seen, views, waiting, handler, upkeep, phase, replay, restarts>>

Row(p, until, n) == [p |-> p, until |-> until, n |-> n]
Stored == {row.p : row \in log}

-----------------------------------------------------------------------------
(* Incidents *)

Incidents == {p.about : p \in {q \in Packets : UpdatesIncident(q)}}

-----------------------------------------------------------------------------
(* The map *)

Key(kind, id) == [kind |-> kind, id |-> id]

\* Kinds whose objects are withdrawn once their fix is old.
MarkerKinds == {"incident", "responder", "peer"}

Op(p, kind, id, closes, keeps) ==
  [key |-> Key(kind, id), by |-> p.id, closes |-> closes, keeps |-> keeps,
   version |-> IF p.seq = NoSeq THEN p.createdAt ELSE p.seq,
   asOf |-> p.createdAt, expires |-> p.expiresAt]

MapKind(type) ==
  CASE type = "HAZARD" -> "hazard"
    [] type = "ROUTE_STATE" -> "route"
    [] type = "MESH_CHAT" -> "peer"
    [] OTHER -> "object"

\* The operations of a packet.  "closes": the object leaves the map.  "keeps":
\* the operation changes an object and keeps its position.
MapOperations(p) ==
  CASE p.type \in {"SOS_CREATE", "SOS_UPDATE"} ->
         IF p.located THEN <<Op(p, "incident", p.about, FALSE, FALSE)>> ELSE <<>>
    [] p.type \in {"SOS_CANCEL", "RESOLVED"} -> <<Op(p, "incident", p.about, TRUE, TRUE)>>
    [] p.type \in ResponderLifecycle \ {"RESOLVED", "RESPONDER_DECLINED"} ->
         IF p.located
         THEN <<Op(p, "incident", p.about, FALSE, TRUE), Op(p, "responder", p.ref, FALSE, FALSE)>>
         ELSE <<Op(p, "incident", p.about, FALSE, TRUE)>>
    [] p.type = "MESH_CHAT" -> IF p.located THEN <<Op(p, "peer", p.source, FALSE, FALSE)>> ELSE <<>>
    [] p.type \in ResourceTypes \cup {"HAZARD", "ROUTE_STATE", "CONTENT_ACTIVATE"} ->
         <<Op(p, MapKind(p.type), p.about, FALSE, FALSE)>>
    [] p.type = "RECORD_TOMBSTONE" -> <<Op(p, "object", p.about, TRUE, TRUE)>>
    [] OTHER -> <<>>

AllOps == UNION {Range(MapOperations(p)) : p \in Packets}
Keys   == {op.key : op \in AllOps}

Tombstones(op) == op.closes /\ op.key.kind = "object"

\* Mutant: the tombstone test compares for "older" only.
IgnoredLoosely(object, op) ==
  object # None /\ \/ op.version < object.version
                   \/ op.version = object.version /\ op.by = object.by

\* An operation the projection does not apply: a closed object yields only to
\* a higher version or another closing record, nothing yields to an older
\* version, and the same packet twice changes nothing.
Ignored(object, op) ==
  /\ object # None
  /\ \/ object.gone /\ ~Tombstones(op) /\ op.version <= object.version
     \/ op.version < object.version
     \/ op.version = object.version /\ op.by = object.by

Built(object, op) ==
  [version |-> op.version, by |-> op.by, asOf |-> op.asOf, expires |-> op.expires,
   gone    |-> op.closes,
   located |-> IF op.keeps THEN object # None /\ object.located ELSE TRUE]

Projected(object, op) == IF Ignored(object, op) THEN object ELSE Built(object, op)

\* What the map screen, and the persisted mirror after a start, shows.
Visible(object, kind, t) ==
  /\ object # None
  /\ ~object.gone
  /\ t < object.expires
  /\ kind \in MarkerKinds => t - object.asOf <= LocationExpire

\* Mutant: the mirror is only ever written, never cleared.
PersistedAlways(object) == object

\* syncPersistedMapObject(): the mirror keeps what is not closed, whatever its age.
Persisted(object) == IF object = None \/ object.gone THEN None ELSE object

-----------------------------------------------------------------------------
(* Records and assumptions *)

IncidentRecord ==
  [state : IncidentState, latest : Nat, report : Packets \cup {None},
   responder : {p.ref : p \in Packets} \cup {None}, facts : SUBSET MessageType,
   updated : Nat, own : BOOLEAN]

RowRecord == [p : Packets, until : Nat, n : Nat]

MapObject ==
  [version : Nat, by : {p.id : p \in Packets}, asOf : Nat, expires : Nat,
   gone : BOOLEAN, located : BOOLEAN]

\* The builders give every packet its fields and an ID of its own, and number
\* source records from 1.
ASSUME PacketsAssumption ==
  /\ \A p, q \in Packets : p.id = q.id => p = q
  /\ \A p \in Packets :
       /\ p.type \in MessageType /\ p.located \in BOOLEAN
       /\ p.seq \in Nat /\ p.createdAt \in Nat /\ p.expiresAt \in Nat
       /\ p.type \in EmergencyTypes => p.seq > 0

ASSUME NoneAssumption == None \notin Packets \cup IncidentRecord \cup MapObject

ASSUME TimesAssumption ==
  /\ Times \subseteq Nat
  /\ \E first \in Times : \A t \in Times : first <= t
ASSUME BoundsAssumption == MaxRestarts \in Nat

-----------------------------------------------------------------------------
(* The advertised highest waiting priority *)

Lowest == 7   \* Priority.FILE_FRAGMENT

Relayable(p) == RelayDecision(p, BatteryBand) # "never"

\* Mutant: an empty queue advertises the byte's largest value.
UrgencyOfUnset(S) == IF S = {} THEN 255 ELSE Min({PriorityOf(p.type) : p \in S})

UrgencyOf(S) == IF S = {} THEN Lowest ELSE Min({PriorityOf(p.type) : p \in S} \cup {Lowest})

-----------------------------------------------------------------------------
(* Ingest *)

IdleHandler == [at |-> "idle", p |-> None, todo |-> <<>>]

\* validate(), decide() and insert(): from here on the packet is durable.
\* A packet seen before changes nothing.  MaxAdmitted is a bound of the model.
Admit(h, p) ==
  /\ phase = "ready"
  /\ handler[h] = IdleHandler
  /\ p \notin seen /\ Cardinality(seen) < MaxAdmitted
  /\ Valid(p, now, FALSE)
  /\ StoreDecision(p) = "store"
  /\ log'  = log \cup {Row(p, now + RetentionOf(p), Cardinality(seen))}
  /\ seen' = seen \cup {p}
  /\ handler' = [handler EXCEPT ![h] = [at |-> "stored", p |-> p, todo |-> <<>>]]
  /\ UNCHANGED <<now, views, waiting, upkeep, phase, replay, restarts>>

\* One map operation with its write to the mirror, or, when none is left, the
\* incident; the database serves the mirror's writes in the order of the
\* projection's.
Advance(h, p, todo) ==
  IF todo = <<>>
  THEN /\ incidents' = ApplyToIncidents(incidents, p)
       /\ applied' = applied \cup {p}
       /\ handler' = [handler EXCEPT ![h] = IdleHandler]
       /\ UNCHANGED <<map, mirror, offered>>
  ELSE LET op == Head(todo)
       IN  /\ map' = [map EXCEPT ![op.key] = Projected(@, op)]
           /\ mirror' = IF Ignored(map[op.key], op) THEN mirror
                        ELSE [mirror EXCEPT ![op.key] = Persisted(map'[op.key])]
           /\ offered' = offered \cup {op}
           /\ handler' = [handler EXCEPT ![h] = [at |-> "views", p |-> p, todo |-> Tail(todo)]]
           /\ UNCHANGED <<incidents, applied>>

\* insert() has returned: the priority counts the packet, the views start.
Announce(h) ==
  LET p == handler[h].p
  IN  /\ handler[h].at = "stored"
      /\ waiting' = IF Relayable(p) THEN Min({waiting, PriorityOf(p.type)}) ELSE waiting
      /\ Advance(h, p, IF UpdatesMap(p) THEN MapOperations(p) ELSE <<>>)
      /\ UNCHANGED <<now, log, seen, upkeep, phase, replay, restarts>>

Continue(h) ==
  /\ handler[h].at = "views"
  /\ Advance(h, handler[h].p, handler[h].todo)
  /\ UNCHANGED <<now, log, seen, waiting, upkeep, phase, replay, restarts>>

-----------------------------------------------------------------------------
(* Housekeeping: at start, and whenever the user pulls to refresh *)

IdleUpkeep == [at |-> "idle", relayable |-> {}]

Evict ==
  /\ phase \in {"ready", "upkeep"}
  /\ upkeep = IdleUpkeep
  /\ log' = {row \in log : row.until > now}
  /\ upkeep' = [upkeep EXCEPT !.at = "read"]
  /\ UNCHANGED <<now, seen, views, waiting, handler, phase, replay, restarts>>

\* Old incidents expire, and the priority is read again from the log.
ReadRelayable ==
  /\ upkeep.at = "read"
  /\ incidents' = ExpireIncidents(incidents, now)
  /\ upkeep' = [at |-> "write", relayable |-> {p \in Stored : Relayable(p)}]
  /\ UNCHANGED <<now, log, seen, map, mirror, offered, applied, waiting, handler,
                 phase, replay, restarts>>

WritePriority ==
  /\ upkeep.at = "write"
  /\ waiting' = UrgencyOf(upkeep.relayable)
  /\ upkeep'  = IdleUpkeep
  /\ phase'   = "ready"
  /\ UNCHANGED <<now, log, seen, views, handler, replay, restarts>>

-----------------------------------------------------------------------------
(* Process death and start-up *)

NoIncidents == [i \in Incidents |-> None]
EmptyMap    == [k \in Keys |-> None]

\* Mutant: start-up replays the rows it can relay.
ReplayedRelayable(rows) == {row \in rows : Relayable(row.p)}

\* packets.listAll().
Replayed(rows) == rows

Restart ==
  /\ restarts < MaxRestarts
  /\ restarts' = restarts + 1
  /\ phase'  = "replay"
  /\ replay' = Replayed(log)
  /\ incidents' = NoIncidents /\ map' = EmptyMap
  /\ offered' = {} /\ applied' = {}
  /\ waiting' = Lowest
  /\ handler' = [h \in Handlers |-> IdleHandler]
  /\ upkeep' = IdleUpkeep
  /\ UNCHANGED <<now, log, seen, mirror>>

\* The oldest row goes first.  The operations of a packet are on different keys.
ReplayRow(row) ==
  LET ops == Range(MapOperations(row.p))
  IN  /\ phase = "replay"
      /\ \A other \in replay : row.n <= other.n
      /\ incidents' = ApplyToIncidents(incidents, row.p)
      /\ applied' = applied \cup {row.p}
      /\ map' = [k \in Keys |->
                   IF \E op \in ops : op.key = k
                   THEN Projected(map[k], CHOOSE op \in ops : op.key = k) ELSE map[k]]
      /\ offered' = offered \cup ops
      /\ replay' = replay \ {row}
      /\ UNCHANGED <<now, log, seen, mirror, waiting, handler, upkeep, phase, restarts>>

\* mapObjects.replaceAll(visible).
FinishReplay ==
  /\ phase = "replay" /\ replay = {}
  /\ mirror' = [k \in Keys |-> IF Visible(map[k], k.kind, now) THEN map[k] ELSE None]
  /\ phase' = "upkeep"
  /\ UNCHANGED <<now, log, seen, incidents, map, offered, applied, waiting, handler,
                 upkeep, replay, restarts>>

Tick ==
  /\ now' \in {t \in Times : t > now}
  /\ UNCHANGED <<log, seen, views, waiting, handler, upkeep, phase, replay, restarts>>

-----------------------------------------------------------------------------
Init ==
  /\ now = Min(Times)
  /\ log = {} /\ seen = {}
  /\ incidents = NoIncidents /\ map = EmptyMap /\ mirror = EmptyMap
  /\ offered = {} /\ applied = {}
  /\ waiting = Lowest
  /\ handler = [h \in Handlers |-> IdleHandler]
  /\ upkeep = IdleUpkeep
  /\ phase = "ready" /\ replay = {} /\ restarts = 0

Ingest == \E h \in Handlers : (\E p \in Packets : Admit(h, p)) \/ Announce(h) \/ Continue(h)
Maintain == Evict \/ ReadRelayable \/ WritePriority
Rebuild == (\E row \in replay : ReplayRow(row)) \/ FinishReplay

Next == Ingest \/ Maintain \/ Restart \/ Rebuild \/ Tick

Spec == Init /\ [][Next]_vars

-----------------------------------------------------------------------------
(* Properties *)

\* Every variable has the shape of the state it models.
TypeOK ==
  /\ now \in Times /\ restarts \in 0..MaxRestarts
  /\ log \subseteq RowRecord /\ replay \subseteq RowRecord
  /\ seen \subseteq Packets /\ applied \subseteq Packets /\ offered \subseteq AllOps
  /\ waiting \in 0..Lowest
  /\ incidents \in [Incidents -> IncidentRecord \cup {None}]
  /\ map \in [Keys -> MapObject \cup {None}] /\ mirror \in [Keys -> MapObject \cup {None}]
  /\ handler \in [Handlers -> [at : {"idle", "stored", "views"}, p : Packets \cup {None}, todo : Seq(AllOps)]]
  /\ upkeep \in [at : {"idle", "read", "write"}, relayable : SUBSET Packets]
  /\ phase \in {"ready", "replay", "upkeep"}

\* A victim's cancel closes the incident for good, whatever arrives before or
\* after it and in whatever order (the reducer's "terminal records apply even
\* out of sequence").
CancelSticks ==
  \A p \in applied : p.type = "SOS_CANCEL" => incidents[p.about].state \in ClosedStates

ReportsOf(i) == {p \in applied : p.about = i /\ p.type \in {"SOS_CREATE", "SOS_UPDATE"}}

\* What the device shows of the victim is the newest report it was given, in
\* any order of arrival and also after a restart.
LatestReportShown ==
  \A i \in Incidents : ReportsOf(i) # {} =>
    /\ incidents[i].report \in ReportsOf(i)
    /\ \A p \in ReportsOf(i) : p.seq <= incidents[i].report.seq

\* A map object has the highest version it was ever offered, and at that
\* version a closing record wins over every other, before or after it.
MapShowsNewest ==
  \A op \in offered :
    /\ map[op.key] # None
    /\ op.version <= map[op.key].version
    /\ op.closes => map[op.key].gone \/ op.version < map[op.key].version

\* Once the device has started, the mirror it would paint first at the next
\* start holds nothing the projection has closed or moved on from, and misses
\* nothing the map shows.
MirrorFollowsMap ==
  phase # "replay" =>
    \A k \in Keys :
      /\ mirror[k] # None => mirror[k] = map[k] /\ ~map[k].gone
      /\ Visible(map[k], k.kind, now) => mirror[k] = map[k]

Reflected(p) ==
  /\ p \in applied
  /\ Range(MapOperations(p)) \subseteq offered

\* Every stored packet is in the views or on its way there: a process that
\* dies between the insert and the views loses nothing once it has restarted.
LogIsReflected ==
  phase # "replay" =>
    \A p \in Stored : Reflected(p) \/ \E h \in Handlers : handler[h].p = p

\* A cancel the device stored keeps the incident closed, restarts included, for
\* as long as stale copies of the incident can be around.
CancelSurvivesRestart ==
  (phase = "ready" /\ upkeep = IdleUpkeep) =>
    \A p \in seen : p.type = "SOS_CANCEL" =>
      \/ incidents[p.about] = None
      \/ incidents[p.about].state \in ClosedStates
      \/ \E h \in Handlers : handler[h].p = p
=============================================================================
