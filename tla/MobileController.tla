-------------------------- MODULE MobileController --------------------------
(***************************************************************************)
(* One phone's controller: it starts and replaces the runtime, carries out *)
(* the user's saves, cancels and responder updates, and keeps what the     *)
(* screens show of the user's own SOS.                                     *)
(*                                                                         *)
(* Everything runs on one thread, but every call awaits: a location may    *)
(* take eight seconds, a start-up reads the whole packet log.  Calls keep  *)
(* the runtime they began with, so a start-up may overtake a call.  The    *)
(* packet log outlives the process, and so does what the screens show.     *)
(***************************************************************************)
EXTENDS IncidentReducer, FiniteSets, SequencesExt

CONSTANTS
  Calls,        \* calls that may be under way at once
  Own,          \* IDs for the incidents this phone opens
  Other,        \* somebody else's incident
  Updates,      \* what a responder may report
  Runtimes,     \* bound: runtimes ever created, 1..n
  CutsStart,    \* whether the user may log out while the runtime starts
  MaxPackets,   \* bound: length of the packet log
  MaxDeaths     \* bound: deaths of the process

Phone == Self

ASSUME RuntimesAssumption == Runtimes \subseteq Nat \ {0} /\ \A n \in Runtimes : 1..n \subseteq Runtimes
ASSUME UpdatesAssumption ==
  Updates \subseteq {"RESPONDER_ACCEPTED", "RESPONDER_DECLINED", "RESPONDER_EN_ROUTE", "RESPONDER_ARRIVED", "RESOLVED"}
ASSUME CutsStartAssumption == CutsStart \in BOOLEAN
ASSUME BoundsAssumption == MaxPackets \in Nat /\ MaxDeaths \in Nat
\* What the phone stores about incidents: its own packets, a neighbour's SOS and
\* a responder's word.
PacketRecord ==
  [id : {0}, type : MessageType, source : {Phone, "neighbour", "responder"}, class : SourceClass,
   about : Own \cup {Other}, ref : {None}, seq : Nat, createdAt : {0}, severity : {LifeCritical},
   community : {FALSE}, located : BOOLEAN, expiresAt : Nat]

IncidentRecord ==
  [state : IncidentState, latest : Nat, report : PacketRecord \cup {None}, responder : {None},
   facts : SUBSET MessageType, updated : Nat, own : BOOLEAN]

ASSUME NamesAssumption == Other \notin Own /\ Phone \notin {"neighbour", "responder"}
ASSUME NoneAssumption == None \notin Own \cup {Other} \cup IncidentRecord

VARIABLES
  log,           \* stored packets about incidents, each with the runtime that took it in
  session,       \* "out" or "in": the user's login
  role,
  runtime,       \* the runtime in use, 0 for none
  initializing,  \* the start-up that callers share, 0 for none
  creates,       \* start-ups: how far each is, and how much of the log it read
  reconfiguring, \* the start-up a reconfiguration waits for, and whether it resumes the relay
  relays,        \* runtimes whose relay runs
  sequence,      \* the last number this phone gave a packet
  shown,         \* activeIncidentId
  hasActive,     \* hasActiveSos
  calls,
  deaths

screen  == <<shown, hasActive>>
life    == <<session, role, runtime, initializing, creates, reconfiguring>>
vars == <<log, life, relays, sequence, screen, calls, deaths>>

Incidents == Own \cup {Other}
Roles == {"general-public", "responder"}

NoReconfiguration == [on |-> 0, resume |-> FALSE]
IdleCall == [kind |-> "idle", at |-> "idle", on |-> 0, about |-> None, type |-> None, seq |-> 0]

Packet(type, source, about, seq) ==
  Build(0, type, source, IF type \in ResponderLifecycle THEN "RESPONDER_PROVISIONED" ELSE "GENERAL_PUBLIC",
        about, None, seq, 0, LifeCritical)
Row(p, n) == [p |-> p, via |-> n]

\* The rows a runtime's reducer was given: those it read at start-up and those it
\* took in itself.
Takes(n, k) == k <= creates[n].base \/ log[k].via = n

\* What the reducer holds.
Held(n) ==
  FoldLeft(LAMBDA incs, k : IF Takes(n, k) THEN ApplyToIncidents(incs, log[k].p) ELSE incs,
           [i \in Incidents |-> None], [k \in DOMAIN log |-> k])

\* Mutant: a start-up takes up whatever incident is open.
OpenInAnybodys(incs) == {i \in Incidents : incs[i] # None /\ incs[i].state \notin ClosedStates}

\* Mutant: a start-up takes up nothing.
OpenInForgotten(incs) == {}

\* This phone's incidents that are not over.
OpenIn(incs) == {i \in Incidents : incs[i] # None /\ incs[i].own /\ incs[i].state \notin ClosedStates}

-----------------------------------------------------------------------------
(* Start-up *)

Unused == [at |-> "unused", base |-> 0]

\* create(n) opens the database and reads the packet log.  What calls store
\* while the database opens is as if stored before.
Created(n) == [creates EXCEPT ![n] = [at |-> "read", base |-> Len(log)]]

FirstUnused(n) == creates[n].at = "unused" /\ \A m \in Runtimes : m < n => creates[m].at # "unused"

\* Mutant: numbering starts afresh.
MaxSourceSequenceNone(rows) == 0

MaxSourceSequence(rows) == Max({rows[k].p.seq : k \in {j \in DOMAIN rows : rows[j].p.source = Phone}} \cup {0})

\* When every row is applied, what this phone had under way is restored.
Restore(n) ==
  LET open == OpenIn(Held(n))
  IN  /\ creates[n].at = "read"
      /\ sequence' = Max({1, MaxSourceSequence(SubSeq(log, 1, creates[n].base))})
      /\ shown' \in IF open = {} THEN {None} ELSE open
      /\ hasActive' = (open # {})
      /\ creates' = [creates EXCEPT ![n].at = "restored"]
      /\ UNCHANGED <<log, session, role, runtime, initializing, reconfiguring, relays, calls, deaths>>

\* create() ends by starting the gateway timer, which asks for the runtime again:
\* a logout that dropped this start-up makes it begin another.  Then the runtime
\* is the one in use.
Ready(n) ==
  /\ creates[n].at = "restored"
  /\ runtime' = n /\ initializing' = 0
  /\ IF runtime # 0 \/ initializing # 0
     THEN creates' = [creates EXCEPT ![n].at = "ready"]
     ELSE \E m \in Runtimes : FirstUnused(m) /\ creates' = [Created(m) EXCEPT ![n].at = "ready"]
  /\ UNCHANGED <<log, session, role, reconfiguring, relays, sequence, screen, calls, deaths>>

\* The relay runs again once the runtime is there.
ResumeRelay ==
  /\ reconfiguring.on # 0 /\ creates[reconfiguring.on].at = "ready"
  /\ relays' = IF reconfiguring.resume THEN relays \cup {reconfiguring.on} ELSE relays
  /\ reconfiguring' = NoReconfiguration
  /\ UNCHANGED <<log, session, role, runtime, initializing, creates, sequence, screen, calls, deaths>>

\* The user logs in: the layout starts the runtime and the gateway timer.
Login(n) ==
  /\ session = "out" /\ session' = "in"
  /\ IF runtime # 0 \/ initializing # 0
     THEN /\ n = (IF runtime # 0 THEN runtime ELSE initializing)
          /\ UNCHANGED <<initializing, creates>>
     ELSE /\ FirstUnused(n)
          /\ initializing' = n /\ creates' = Created(n)
  /\ UNCHANGED <<log, role, runtime, reconfiguring, relays, sequence, screen, calls, deaths>>

\* The user changes the role, or the backend's address: the runtime is replaced,
\* or, when one is starting already, that one is taken.
Reconfigure(r, n) ==
  /\ session = "in" /\ reconfiguring = NoReconfiguration
  /\ role' = r
  /\ runtime' = 0
  /\ relays' = relays \ {runtime}
  /\ IF initializing # 0
     THEN n = initializing /\ UNCHANGED <<initializing, creates>>
     ELSE FirstUnused(n) /\ initializing' = n /\ creates' = Created(n)
  /\ reconfiguring' = [on |-> n, resume |-> runtime \in relays]
  /\ UNCHANGED <<log, session, sequence, screen, calls, deaths>>

\* The user logs out: shutdown() stops the relay and forgets the runtime, and
\* the start-up if there is one.
Logout ==
  /\ session = "in" /\ session' = "out"
  /\ CutsStart \/ initializing = 0
  /\ relays' = relays \ {runtime}
  /\ runtime' = 0 /\ initializing' = 0
  /\ UNCHANGED <<log, role, creates, reconfiguring, sequence, screen, calls, deaths>>

\* The process dies and the app is opened again; the packets and the screens'
\* last word on the user's SOS are on disk.
Die ==
  /\ deaths < MaxDeaths /\ deaths' = deaths + 1
  /\ session' = "out"
  /\ runtime' = 0 /\ initializing' = 0 /\ reconfiguring' = NoReconfiguration
  /\ creates' = [n \in Runtimes |-> IF creates[n].at = "unused" THEN Unused ELSE [at |-> "dead", base |-> 0]]
  /\ relays' = {} /\ sequence' = 1
  /\ calls' = [c \in Calls |-> IdleCall]
  /\ UNCHANGED <<log, role, screen>>

-----------------------------------------------------------------------------
(* The user's calls.  A call that finds no runtime waits, and begins when      *)
(* there is one.                                                               *)

Begin(c, call) ==
  /\ session = "in" /\ runtime # 0 /\ calls[c] = IdleCall
  /\ calls' = [calls EXCEPT ![c] = call]
  /\ UNCHANGED <<log, life, relays, screen, deaths>>

Call(kind, at, about, type, seq) ==
  [kind |-> kind, at |-> at, on |-> runtime, about |-> about, type |-> type, seq |-> seq]

\* saveSos() looks whether an SOS is active, then waits for a location.
BeginSave(c) ==
  /\ role = "general-public"
  /\ Begin(c, Call("save", "locating", shown, None, 0))
  /\ UNCHANGED sequence

\* Incidents that nobody has named yet.
NewIds == {i \in Own : /\ \A k \in DOMAIN log : log[k].p.about # i
                       /\ \A c \in Calls : calls[c].about # i}

\* With a location, or none: an update of the SOS that was active, or a new one.
Located(c) ==
  /\ calls[c].at = "locating"
  /\ \/ /\ calls[c].kind = "save" /\ calls[c].about # None
        /\ sequence' = sequence + 1
        /\ calls' = [calls EXCEPT ![c].at = "storing", ![c].type = "SOS_UPDATE", ![c].seq = sequence + 1]
     \/ /\ calls[c].kind = "save" /\ calls[c].about = None
        /\ \E i \in NewIds :
             calls' = [calls EXCEPT ![c].at = "storing", ![c].type = "SOS_CREATE", ![c].seq = 1, ![c].about = i]
        /\ UNCHANGED sequence
     \/ /\ calls[c].kind = "transition"
        /\ calls' = [calls EXCEPT ![c].at = "storing"]
        /\ UNCHANGED sequence
  /\ UNCHANGED <<log, life, relays, screen, deaths>>

BeginCancel(c) ==
  /\ role = "general-public" /\ shown # None
  /\ sequence' = sequence + 1
  /\ Begin(c, Call("cancel", "storing", shown, "SOS_CANCEL", sequence + 1))

\* responderTransition() numbers its packet, and waits for a location only if
\* the responder sets out.  Who takes or refuses an incident nobody has is first
\* assigned to it.
BeginTransition(c, type) ==
  LET inc == Held(runtime)[Other]
      assign == type \in {"RESPONDER_ACCEPTED", "RESPONDER_DECLINED"} /\ inc.state = "active"
  IN  /\ role = "responder" /\ runtime # 0
      /\ inc # None /\ inc.state \notin {"cancelled", "resolved"}
      /\ sequence' = sequence + 1
      /\ Begin(c, IF assign THEN Call(type, "storing", Other, "RESPONDER_ASSIGNED", sequence + 1)
                  ELSE Call("transition", IF type = "RESPONDER_EN_ROUTE" THEN "locating" ELSE "storing",
                            Other, type, sequence + 1))

\* Mutant: the store's refusal goes unnoticed.
InsertUnchecked(c) ==
  /\ calls[c].at = "storing"
  /\ calls' = [calls EXCEPT ![c].at = "stored"]
  /\ UNCHANGED <<log, life, relays, sequence, screen, deaths>>

\* createLocal(): the packet is on disk and in the reducer of the call's runtime.
Insert(c) ==
  /\ calls[c].at = "storing" /\ Len(log) < MaxPackets
  /\ log' = Append(log, Row(Packet(calls[c].type, Phone, calls[c].about, calls[c].seq), calls[c].on))
  /\ calls' = [calls EXCEPT ![c].at = "stored"]
  /\ UNCHANGED <<life, relays, sequence, screen, deaths>>

\* The call returns; what it began with may not hold any more.
FinishSave(c) ==
  /\ calls[c].at = "stored" /\ calls[c].kind = "save"
  /\ shown' = IF calls[c].type = "SOS_CREATE" THEN calls[c].about ELSE shown
  /\ hasActive' = TRUE
  /\ relays' = relays \cup {calls[c].on}
  /\ calls' = [calls EXCEPT ![c] = IdleCall]
  /\ UNCHANGED <<log, life, sequence, deaths>>

FinishCancel(c) ==
  /\ calls[c].at = "stored" /\ calls[c].kind = "cancel"
  /\ shown' = None /\ hasActive' = FALSE
  /\ calls' = [calls EXCEPT ![c] = IdleCall]
  /\ UNCHANGED <<log, life, relays, sequence, deaths>>

FinishAssignment(c) ==
  /\ calls[c].at = "stored" /\ calls[c].kind \in Updates
  /\ sequence' = sequence + 1
  /\ calls' = [calls EXCEPT ![c].kind = "transition", ![c].at = "storing",
                            ![c].type = calls[c].kind, ![c].seq = sequence + 1]
  /\ UNCHANGED <<log, life, relays, screen, deaths>>

FinishTransition(c) ==
  /\ calls[c].at = "stored" /\ calls[c].kind = "transition"
  /\ relays' = relays \cup {calls[c].on}
  /\ calls' = [calls EXCEPT ![c] = IdleCall]
  /\ UNCHANGED <<log, life, sequence, screen, deaths>>

-----------------------------------------------------------------------------
(* The mesh: a neighbour's SOS, or a responder's word on this phone's *)

Receive(p) ==
  /\ runtime # 0 /\ Len(log) < MaxPackets
  /\ \A k \in DOMAIN log : log[k].p # p
  /\ log' = Append(log, Row(p, runtime))
  /\ UNCHANGED <<life, relays, sequence, screen, calls, deaths>>

Arriving ==
  {Packet("SOS_CREATE", "neighbour", Other, 1)}
    \cup {Packet("RESOLVED", "responder", i, 2) : i \in {log[k].p.about : k \in DOMAIN log} \cap Own}

-----------------------------------------------------------------------------
Init ==
  /\ log = <<>>
  /\ session = "out" /\ role \in Roles
  /\ runtime = 0 /\ initializing = 0
  /\ creates = [n \in Runtimes |-> Unused]
  /\ reconfiguring = NoReconfiguration
  /\ relays = {}
  /\ sequence = 1
  /\ shown = None /\ hasActive = FALSE
  /\ calls = [c \in Calls |-> IdleCall]
  /\ deaths = 0

StartUp == \E n \in Runtimes : Restore(n) \/ Ready(n)
Session ==
  \/ \E n \in Runtimes : Login(n) \/ \E r \in Roles : Reconfigure(r, n)
  \/ ResumeRelay \/ Logout \/ Die
Serve(c) ==
  \/ BeginSave(c) \/ Located(c) \/ BeginCancel(c) \/ Insert(c)
  \/ FinishSave(c) \/ FinishCancel(c) \/ FinishAssignment(c) \/ FinishTransition(c)
  \/ \E type \in Updates : BeginTransition(c, type)

Next == StartUp \/ Session \/ (\E c \in Calls : Serve(c)) \/ (\E p \in Arriving : Receive(p))

Spec == Init /\ [][Next]_vars

-----------------------------------------------------------------------------
(* Properties *)

\* Every variable has the shape of the state it models.
TypeOK ==
  /\ log \in Seq([p : PacketRecord, via : Runtimes])
  /\ session \in {"out", "in"} /\ role \in Roles
  /\ runtime \in Runtimes \cup {0} /\ initializing \in Runtimes \cup {0}
  /\ creates \in [Runtimes -> [at : {"unused", "read", "restored", "ready", "dead"}, base : Nat]]
  /\ reconfiguring \in [on : Runtimes \cup {0}, resume : BOOLEAN]
  /\ relays \subseteq Runtimes
  /\ sequence \in Nat
  /\ shown \in Own \cup {None} /\ hasActive \in BOOLEAN
  /\ calls \in [Calls -> [kind : {"idle", "save", "cancel", "transition"} \cup Updates,
                          at : {"idle", "locating", "storing", "stored"}, on : Runtimes \cup {0},
                          about : Incidents \cup {None}, type : MessageType \cup {None}, seq : Nat]]
  /\ deaths \in 0..MaxDeaths

Mine(k) == log[k].p.source = Phone

\* What a runtime sends about an incident is numbered past everything this
\* phone had sent about it before the runtime started: neither the restart of
\* the process nor the replacement of the runtime uses a number again.
NumbersGrowPastTheLog ==
  \A j, k \in DOMAIN log :
    (/\ Mine(j) /\ Mine(k) /\ log[j].p.about = log[k].p.about
     /\ j <= creates[log[k].via].base)
      => log[j].p.seq < log[k].p.seq

\* What is shown as the user's SOS was created by this phone and is stored,
\* whatever calls overlapped and wherever the process died.
ShownIsStored ==
  shown # None =>
    \E k \in DOMAIN log : Mine(k) /\ log[k].p.type = "SOS_CREATE" /\ log[k].p.about = shown

\* No call and no start-up is under way.
Quiet ==
  /\ session = "in" /\ runtime # 0
  /\ \A c \in Calls : calls[c] = IdleCall
  /\ \A n \in Runtimes : creates[n].at \in {"unused", "ready", "dead"}

OwnIncidents == {log[k].p.about : k \in DOMAIN log} \cap Own

StillOpen(i) ==
  LET inc == Held(runtime)[i] IN inc # None /\ inc.own /\ inc.state \notin ClosedStates

\* A phone with one incident shows it as long as it is open, once its calls have
\* returned: the user can always update and cancel it.
OpenSosIsShown ==
  Quiet /\ Cardinality(OwnIncidents) = 1 =>
    \A i \in Own : StillOpen(i) =>
      \/ shown = i /\ hasActive
      \/ \E k \in DOMAIN log : log[k].p.type = "SOS_CANCEL" /\ log[k].p.about = i
=============================================================================
