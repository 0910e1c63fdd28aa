----------------------------- MODULE PacketRules -----------------------------
(***************************************************************************)
(* What a device decides of one packet from the packet and its own state:  *)
(* the registry's priorities and classes, the validator's gates after      *)
(* decoding, the policy engine's store, relay, upload, act and retention   *)
(* decisions, and the builders that make packets.  Times are in hours.     *)
(*                                                                         *)
(* A packet is a record; its payload is what the views keep of it: whom it *)
(* is about, whether it carries a location, and who sent it.               *)
(***************************************************************************)
EXTENDS Naturals

EmergencyTypes == {"SOS_CREATE", "SOS_UPDATE", "SOS_CANCEL"}
ResponderLifecycle ==
  {"RESPONDER_ASSIGNED", "RESPONDER_ACCEPTED", "RESPONDER_DECLINED",
   "RESPONDER_EN_ROUTE", "RESPONDER_ARRIVED", "RESOLVED"}
ReceiptTypes  == {"LINK_RECEIPT", "BACKEND_ACKNOWLEDGEMENT"}
ResourceTypes == {"SHELTER", "MEDICAL_POST", "FOOD_WATER", "SAFE_ZONE"}
MapDeltaTypes ==
  ResourceTypes \cup {"HAZARD", "ROUTE_STATE", "RECORD_UPSERT", "RECORD_TOMBSTONE", "CONTENT_ACTIVATE"}
AuthorityTypes ==
  {"OFFICIAL_ALERT", "WEATHER_BULLETIN", "CHECKIN_CAMPAIGN", "CACHE_CATALOG", "CACHE_INVALIDATE"}
FileTypes == {"FILE_MANIFEST", "FILE_FRAGMENT"}
SessionControlTypes == {"HELLO_CAPABILITY", "INVENTORY", "PACKET_REQUEST"}
TerminalTypes == {"SOS_CANCEL", "RESOLVED", "RECORD_TOMBSTONE", "CACHE_INVALIDATE"}
MessageType ==
  EmergencyTypes \cup ResponderLifecycle \cup ReceiptTypes \cup MapDeltaTypes \cup AuthorityTypes
    \cup FileTypes \cup SessionControlTypes
    \cup {"CHECKIN_RESPONSE", "RESOURCE_REQUEST", "MESH_CHAT", "NETWORK_STATUS_OBSERVATION"}

SourceClass ==
  {"UNKNOWN", "GENERAL_PUBLIC", "RESPONDER_PROVISIONED", "AUTHORITY_PROVISIONED",
   "COORDINATOR_PROVISIONED", "BACKEND", "TIER2_BROADCAST"}
Privileged == {"AUTHORITY_PROVISIONED", "COORDINATOR_PROVISIONED", "BACKEND", "TIER2_BROADCAST"}

\* DEFAULT_PRIORITY; 0 is served first.
PriorityOf(type) ==
  CASE type \in EmergencyTypes \cup {"RESOLVED", "BACKEND_ACKNOWLEDGEMENT"} -> 0
    [] type \in (ResponderLifecycle \ {"RESOLVED"}) \cup {"LINK_RECEIPT"} \cup SessionControlTypes -> 1
    [] type = "OFFICIAL_ALERT" -> 2
    [] type \in ResourceTypes \cup {"HAZARD", "ROUTE_STATE", "RESOURCE_REQUEST"} -> 3
    [] type \in {"CHECKIN_CAMPAIGN", "CHECKIN_RESPONSE"} -> 4
    [] type = "FILE_MANIFEST" -> 6
    [] type = "FILE_FRAGMENT" -> 7
    [] OTHER -> 5

Urgent(p) == PriorityOf(p.type) <= 1     \* Priority.RESPONSE_CONTROL

LifeCritical == 3

BudgetClassFor(type, severity) ==
  CASE type \in {"SOS_CANCEL", "RESOLVED", "BACKEND_ACKNOWLEDGEMENT"} -> "CRITICAL"
    [] type \in {"SOS_CREATE", "SOS_UPDATE"} -> IF severity >= LifeCritical THEN "CRITICAL" ELSE "HIGH"
    [] type \in (ResponderLifecycle \ {"RESOLVED"}) \cup {"OFFICIAL_ALERT"} -> "HIGH"
    [] type \in {"HAZARD", "ROUTE_STATE", "RESOURCE_REQUEST"} -> "MEDIUM_HIGH"
    [] type \in ResourceTypes \cup {"CHECKIN_CAMPAIGN", "CHECKIN_RESPONSE"} -> "MEDIUM"
    [] type \in FileTypes \cup {"NETWORK_STATUS_OBSERVATION"} -> "LOW"
    [] OTHER -> "LOW_MEDIUM"

\* CLASS_BUDGETS.ttlS, in hours.
Ttl(class) ==
  CASE class \in {"CRITICAL", "HIGH"} -> 6
    [] class \in {"MEDIUM_HIGH", "MEDIUM"} -> 4
    [] class = "LOW_MEDIUM" -> 2
    [] OTHER -> 1

TombstoneRetention == 2   \* STORAGE.TOMBSTONE_RETENTION_S
LocationExpire == 1       \* FRESHNESS.LOCATION_EXPIRE_S
MaxFuture == 1            \* TIME.MAX_FUTURE_S

NoSeq == 0                \* no source sequence: the builders number from 1

\* build(): the class of the type fixes how long the packet lives.  "about" is
\* the incident, object or conversation; "ref" the responder it names, if any.
Build(id, type, source, class, about, ref, seq, createdAt, severity) ==
  [id |-> id, type |-> type, source |-> source, class |-> class, about |-> about,
   ref |-> ref, seq |-> seq, createdAt |-> createdAt, severity |-> severity,
   community |-> FALSE, located |-> type \in {"SOS_CREATE", "SOS_UPDATE", "RESPONDER_EN_ROUTE"},
   expiresAt |-> createdAt + Ttl(BudgetClassFor(type, severity))]

-----------------------------------------------------------------------------
(* The validator: clock, role and resource gates *)

RolePermits(p) ==
  /\ p.type \in AuthorityTypes => p.class \in Privileged
  /\ p.type \in ResponderLifecycle \cup ResourceTypes =>
       IF p.community
       THEN p.type \in ResourceTypes \ {"SAFE_ZONE"}
       ELSE p.class \in Privileged \cup {"RESPONDER_PROVISIONED"}

\* Gate 15.  Nothing in the program ever reports storage pressure, so only the
\* length of the queue can refuse a packet.
RefusedForResources(p, queueFull) == queueFull /\ PriorityOf(p.type) > 2

\* The gates after decoding, with the registry known and the ID not in conflict.
Valid(p, now, queueFull) ==
  /\ p.createdAt <= now + MaxFuture
  /\ now < p.expiresAt
  /\ RolePermits(p)
  /\ ~RefusedForResources(p, queueFull)

-----------------------------------------------------------------------------
(* The policy engine *)

Terminal(p) == p.type \in TerminalTypes

StoreDecision(p) == IF p.type \in SessionControlTypes THEN "discard" ELSE "store"

RelayDecision(p, battery) ==
  IF p.type \in SessionControlTypes THEN "never"
  ELSE IF p.type \in FileTypes THEN "requested-only"
  ELSE IF Urgent(p) THEN "urgent"
  ELSE IF battery = 0 THEN "never"
  ELSE IF Terminal(p) THEN "urgent"
  ELSE IF PriorityOf(p.type) <= 3 THEN "normal"
  ELSE "opportunistic"

UploadDecision(p) ==
  IF \/ p.class = "BACKEND"
     \/ p.type \in SessionControlTypes \cup FileTypes
                     \cup {"LINK_RECEIPT", "NETWORK_STATUS_OBSERVATION", "MESH_CHAT"}
  THEN "never"
  ELSE IF Urgent(p) THEN "upload-priority" ELSE "upload-normal"

\* What the device does with the packet besides keeping and relaying it.
UpdatesMap(p)      == p.type \in MapDeltaTypes \cup EmergencyTypes \cup ResponderLifecycle \cup {"MESH_CHAT"}
UpdatesIncident(p) == p.type \in EmergencyTypes \cup ResponderLifecycle \cup {"BACKEND_ACKNOWLEDGEMENT"}

RetentionOf(p) ==
  IF Terminal(p) THEN TombstoneRetention ELSE Ttl(BudgetClassFor(p.type, p.severity))
=============================================================================
