-------------------------- MODULE IncidentReducer --------------------------
(***************************************************************************)
(* How packets fold into incidents.  The reducer runs on every device over *)
(* its packet log and on the backend over its store: DeviceViews and       *)
(* DispatchDesk both take it from here.  An incident that nothing is known *)
(* of is None.                                                             *)
(***************************************************************************)
EXTENDS PacketRules

CONSTANTS
  Self,  \* the source ID this reducer counts as its own
  None

IncidentState ==
  {"draft", "created", "active", "assigned", "accepted", "en-route", "arrived",
   "resolved", "cancelled", "expired", "reopened"}

ALLOWED_NEXT[state \in IncidentState] ==
  CASE state = "draft"    -> {"created", "cancelled"}
    [] state = "created"  -> {"active", "assigned", "cancelled", "expired"}
    [] state = "active"   -> {"assigned", "cancelled", "expired", "resolved"}
    [] state = "assigned" -> {"accepted", "active", "cancelled", "resolved", "expired"}
    [] state = "accepted" -> {"en-route", "arrived", "cancelled", "resolved"}
    [] state = "en-route" -> {"arrived", "cancelled", "resolved"}
    [] state = "arrived"  -> {"resolved", "cancelled"}
    [] state = "reopened" -> {"active", "assigned", "resolved", "cancelled"}
    [] state \in {"resolved", "expired"} -> {"reopened"}
    [] state = "cancelled" -> {}

\* The state a packet of this type asks for.
StateOf(type) ==
  CASE type = "SOS_CANCEL"          -> "cancelled"
    [] type = "RESPONDER_ASSIGNED"  -> "assigned"
    [] type = "RESPONDER_ACCEPTED"  -> "accepted"
    [] type = "RESPONDER_DECLINED"  -> "active"
    [] type = "RESPONDER_EN_ROUTE"  -> "en-route"
    [] type = "RESPONDER_ARRIVED"   -> "arrived"
    [] type = "RESOLVED"            -> "resolved"
    [] OTHER                        -> "unchanged"

\* A transition the table does not allow is ignored.
Move(state, p) ==
  LET to == StateOf(p.type) IN IF to \in ALLOWED_NEXT[state] THEN to ELSE state

\* Mutant: every source record is shown as it arrives.
SupersededNever(latest, p) == FALSE

\* A source record no newer than the one shown.
Superseded(latest, p) == p.type \in EmergencyTypes /\ p.seq <= latest

Fresh(p) ==
  [state |-> "draft", latest |-> 0, report |-> None, responder |-> None,
   facts |-> {}, updated |-> p.createdAt, own |-> p.source = Self]

\* Mutant: a report makes the incident active whatever state it is in.
ReportedReviving(inc, p) ==
  IF p.type \in {"SOS_CREATE", "SOS_UPDATE"} /\ ~Superseded(inc.latest, p)
  THEN [inc EXCEPT !.report = p, !.latest = p.seq, !.state = "active"]
  ELSE inc

\* The victim's own data: only SOS_CREATE and SOS_UPDATE write it, latest wins.
Reported(inc, p) ==
  IF p.type \in {"SOS_CREATE", "SOS_UPDATE"} /\ ~Superseded(inc.latest, p)
  THEN [inc EXCEPT !.report = p, !.latest = p.seq,
                   !.state = IF p.type = "SOS_CREATE" /\ @ \in {"draft", "created"} THEN "active" ELSE @]
  ELSE inc

Assigned(responder, p) ==
  CASE p.type = "RESPONDER_ASSIGNED" -> p.ref
    [] p.type = "RESPONDER_DECLINED" -> None
    [] OTHER -> responder

\* reducer.apply(): transition, victim data, assignment, delivery facts.
Reduce(inc, p) ==
  LET r == Reported(inc, p)
  IN  [r EXCEPT !.state = Move(@, p),
                !.responder = Assigned(@, p),
                !.facts = IF p.type \in {"SOS_UPDATE", "RESPONDER_DECLINED"} THEN @ ELSE @ \cup {p.type},
                !.updated = IF p.createdAt > @ THEN p.createdAt ELSE @]

ApplyToIncidents(incs, p) ==
  IF ~UpdatesIncident(p) THEN incs
  ELSE [incs EXCEPT ![p.about] = Reduce(IF @ = None THEN Fresh(p) ELSE @, p)]

ClosedStates == {"resolved", "cancelled", "expired"}

\* expireOlderThan(): 6 hours without a word.
ExpireIncidents(incs, t) ==
  [i \in DOMAIN incs |->
     IF incs[i] # None /\ incs[i].state \notin ClosedStates /\ t - incs[i].updated > Ttl("HIGH")
     THEN [incs[i] EXCEPT !.state = "expired"] ELSE incs[i]]
=============================================================================
