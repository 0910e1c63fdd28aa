--------------------------- MODULE GatewayExchange ---------------------------
(***************************************************************************)
(* Phones that reached the internet exchange packets with the backend.     *)
(* Each phone runs GatewaySynchronizer.sync() again and again: probe,      *)
(* register, upload a batch, mark what the backend took, poll a page of    *)
(* outbound packets, ingest them, acknowledge the page.  The backend is a  *)
(* single process that writes every change through to its database, so it  *)
(* may die between two writes of one request.                              *)
(*                                                                         *)
(* A request that is lost, an answer that is lost and a client that gave   *)
(* up too early look the same to the phone (GiveUp); the request may still *)
(* be served later.  Every sync() makes a new batch ID, so the backend's   *)
(* test for a repeated batch is never true and is left out.                *)
(***************************************************************************)
EXTENDS PacketRules, Integers, FiniteSets, FiniteSetsExt, Sequences

CONSTANTS
  Gateways,
  Reports,     \* packets that arrive over the mesh
  Published,   \* packets the authority console publishes
  AckFor,      \* packet -> the acknowledgement the backend builds for it
  Times,       \* readings of the clock
  MaxBatch,    \* GATEWAY.MAX_UPLOAD_BATCH
  MaxPage,     \* GATEWAY.MAX_DOWNLOAD_BATCH
  QueueLimit,  \* stored packets beyond which a phone refuses the less urgent
  MaxFaults,   \* lost messages, crashes and restarts considered
  None

Packets == Reports \cup Published
Acks    == {AckFor[p] : p \in Packets}
Offered == Packets \cup Acks

\* IDs are random: no acknowledgement is the acknowledgement of two packets,
\* and none is itself a report or a publication.
ASSUME PacketsAssumption ==
  /\ AckFor \in [Packets -> Acks]
  /\ \A p, q \in Packets : AckFor[p] = AckFor[q] => p = q
  /\ Acks \cap Packets = {}
\* The backend builds its acknowledgements with SourceClass.BACKEND.
ASSUME AcksAssumption == \A a \in Acks : a.class = "BACKEND"
ASSUME NoneAssumption == None \notin Offered
ASSUME TimesAssumption ==
  /\ Times \subseteq Nat
  /\ \E first \in Times : \A t \in Times : first <= t
ASSUME FiniteAssumption == IsFiniteSet(Packets)
ASSUME BoundsAssumption == MaxBatch \in Nat \ {0} /\ MaxPage \in Nat \ {0} /\ MaxFaults \in Nat

VARIABLES
  now,
  row,         \* phone -> packet -> its row in the log, 0 when it has none
  upload,      \* phone -> packet -> custody.uploadState
  sync,        \* phone -> where its synchroniser is
  cursor,      \* phone -> outboundCursor
  handed,      \* history: packets downloads gave to ingest
  requests,    \* requests on their way to the backend
  held,        \* backend: canonical packets
  observed,    \* backend: <<gateway, packet>> observations
  outbound,    \* backend: packets for the mesh, an item's number is its seq
  tokens,      \* backend: registered gateways
  job,         \* backend: the request it is working on
  faults

phones  == <<row, upload, sync, cursor, handed>>
backend == <<held, observed, outbound, tokens, job>>
vars    == <<now, phones, requests, backend, faults>>

-----------------------------------------------------------------------------
(* The phone's log *)

Stored(g) == {p \in Offered : row[g][p] # 0}
Queued(g) == {p \in Stored(g) : upload[g][p] = "queued"}

UploadState(p) == IF UploadDecision(p) = "never" THEN "not-eligible" ELSE "queued"

\* engine.ingest(): a packet that is new and valid is stored.
Ingest(g, p, time) ==
  IF row[g][p] = 0 /\ Valid(p, time, Cardinality(Stored(g)) >= QueueLimit)
  THEN /\ row' = [row EXCEPT ![g][p] = Cardinality(Stored(g)) + 1]
       /\ upload' = [upload EXCEPT ![g][p] = UploadState(p)]
  ELSE UNCHANGED <<row, upload>>

Receive(g, p) ==
  /\ row[g][p] = 0 /\ p \in Reports
  /\ Ingest(g, p, now)
  /\ UNCHANGED <<now, sync, cursor, handed, requests, backend, faults>>

\* listUploadQueue(limit): the oldest rows first.
Batch(g) ==
  {p \in Queued(g) : Cardinality({q \in Queued(g) : row[g][q] < row[g][p]}) < MaxBatch}

-----------------------------------------------------------------------------
(* The synchroniser *)

\* "time" is the clock when the cycle began.
Idle == [at |-> "idle", items |-> {}, to |-> 0, next |-> 0, time |-> 0]

Stages == {"register", "upload", "poll", "ack"}

Step(g, at, items, to, next) ==
  sync' = [sync EXCEPT ![g] =
             [at |-> at, items |-> items, to |-> to, next |-> next, time |-> @.time]]

Stop(g) == sync' = [sync EXCEPT ![g] = Idle]

Request(g, stage, items, from) ==
  [g |-> g, stage |-> stage, items |-> items, from |-> from, live |-> TRUE]

\* The request is out, the phone awaits the answer.
Await(g, stage, items, from, to) ==
  /\ requests' = requests \cup {Request(g, stage, items, from)}
  /\ Step(g, "await", items, to, from)

\* The probe reached the backend: sync() goes on to register.
Probe(g) ==
  /\ sync[g] = Idle
  /\ sync' = [sync EXCEPT ![g] = [Idle EXCEPT !.at = "await", !.time = now]]
  /\ requests' = requests \cup {Request(g, "register", {}, 0)}
  /\ UNCHANGED <<now, row, upload, cursor, handed, backend, faults>>

SendUpload(g) ==
  /\ sync[g].at = "upload"
  /\ IF Batch(g) = {}
     THEN Step(g, "poll", {}, 0, 0) /\ UNCHANGED requests
     ELSE Await(g, "upload", Batch(g), 0, 0)
  /\ UNCHANGED <<now, row, upload, cursor, handed, backend, faults>>

\* Accepted and duplicate items are marked one by one, each write awaited.
Mark(g, p) ==
  /\ sync[g].at = "mark" /\ p \in sync[g].items
  /\ upload' = [upload EXCEPT ![g][p] = "uploaded"]
  /\ LET rest == sync[g].items \ {p}
     IN  Step(g, IF rest = {} THEN "poll" ELSE "mark", rest, 0, 0)
  /\ UNCHANGED <<now, row, cursor, handed, requests, backend, faults>>

SendPoll(g) ==
  /\ sync[g].at = "poll"
  /\ Await(g, "poll", {}, cursor[g], 0)
  /\ UNCHANGED <<now, row, upload, cursor, handed, backend, faults>>

\* One downloaded packet goes through the same ingest as any other; it is
\* acknowledged whatever ingest said.
IngestNext(g) ==
  /\ sync[g].at = "ingest"
  /\ LET n == sync[g].next
         p == outbound[n]
     IN  /\ Ingest(g, p, sync[g].time)
         /\ handed' = [handed EXCEPT ![g] = @ \cup {p}]
         /\ Step(g, IF n = sync[g].to THEN "ack" ELSE "ingest", {}, sync[g].to, n + 1)
  /\ UNCHANGED <<now, cursor, requests, backend, faults>>

SendAck(g) ==
  /\ sync[g].at = "ack"
  /\ Await(g, "ack", {}, sync[g].to, sync[g].to)
  /\ UNCHANGED <<now, row, upload, cursor, handed, backend, faults>>

\* The await throws; the request may still reach the backend.
Orphaned(g) ==
  {IF m.g = g THEN [m EXCEPT !.live = FALSE] ELSE m : m \in requests}

\* The request the backend is working on is orphaned with the others.
OrphanedJob(g) ==
  IF job.request # None /\ job.request.g = g THEN [job EXCEPT !.request.live = FALSE] ELSE job

\* Mutant: the failed cycle is never cleared, so the timer starts no other.
GiveUpStuck(g) ==
  /\ sync[g].at = "await" /\ faults < MaxFaults
  /\ faults' = faults + 1
  /\ requests' = Orphaned(g) /\ job' = OrphanedJob(g)
  /\ UNCHANGED <<now, phones, held, observed, outbound, tokens>>

GiveUp(g) ==
  /\ sync[g].at = "await" /\ faults < MaxFaults
  /\ faults' = faults + 1
  /\ Stop(g)
  /\ requests' = Orphaned(g) /\ job' = OrphanedJob(g)
  /\ UNCHANGED <<now, row, upload, cursor, handed, held, observed, outbound, tokens>>

\* The log survives, the synchroniser and its cursor do not.
RestartPhone(g) ==
  /\ faults < MaxFaults
  /\ faults' = faults + 1
  /\ Stop(g)
  /\ cursor' = [cursor EXCEPT ![g] = 0]
  /\ requests' = Orphaned(g) /\ job' = OrphanedJob(g)
  /\ UNCHANGED <<now, row, upload, handed, held, observed, outbound, tokens>>

-----------------------------------------------------------------------------
(* The backend *)

NoJob == [request |-> None, todo |-> {}, done |-> {}, fresh |-> None, due |-> None]

\* The answer reaches a phone that still waits for it.
Answer(m, at, items, to, next) ==
  IF m.live THEN Step(m.g, at, items, to, next) ELSE UNCHANGED sync

Finish(m) == IF m.live THEN Stop(m.g) ELSE UNCHANGED sync

Register(m) ==
  /\ job = NoJob /\ m \in requests /\ m.stage = "register"
  /\ tokens' = tokens \cup {m.g}
  /\ Answer(m, "upload", {}, 0, 0)
  /\ requests' = requests \ {m}
  /\ UNCHANGED <<now, row, upload, cursor, handed, held, observed, outbound, job, faults>>

\* IngestService.ingest() and publishOperationalPacket() work in steps, one
\* for each write: the observation, the packet, then what goes out for it.
BeginUpload(m) ==
  /\ job = NoJob /\ m \in requests /\ m.stage = "upload" /\ m.g \in tokens
  /\ job' = [NoJob EXCEPT !.request = m, !.todo = m.items]
  /\ requests' = requests \ {m}
  /\ UNCHANGED <<now, phones, held, observed, outbound, tokens, faults>>

\* The outcome of an item, with the packets held before it.
Outcome(p) == IF ~Valid(p, now, FALSE) THEN "invalid" ELSE IF p \in held THEN "duplicate" ELSE "accepted"

Observed(p) == IF Outcome(p) = "invalid" THEN observed ELSE observed \cup {<<job.request.g, p>>}

\* Mutant: invalid items count as done.
TakeLoosely(p) ==
  /\ p \in job.todo /\ job.fresh = None /\ job.due = None
  /\ observed' = Observed(p)
  /\ job' = [job EXCEPT !.todo = @ \ {p}, !.done = @ \cup {p},
                        !.fresh = IF Outcome(p) = "accepted" THEN p ELSE None]
  /\ UNCHANGED <<now, phones, requests, held, outbound, tokens, faults>>

\* Mutant: the acknowledgement goes out before the packet is stored.
TakeAckFirst(p) ==
  /\ p \in job.todo /\ job.fresh = None /\ job.due = None
  /\ observed' = Observed(p)
  /\ outbound' = IF Outcome(p) = "accepted" THEN Append(outbound, AckFor[p]) ELSE outbound
  /\ job' = [job EXCEPT !.todo = @ \ {p},
                        !.done  = IF Outcome(p) = "invalid" THEN @ ELSE @ \cup {p},
                        !.fresh = IF Outcome(p) = "accepted" THEN p ELSE None]
  /\ UNCHANGED <<now, phones, requests, held, tokens, faults>>

TakeItem(p) ==
  /\ p \in job.todo /\ job.fresh = None /\ job.due = None
  /\ observed' = Observed(p)
  /\ job' = [job EXCEPT !.todo = @ \ {p},
                        !.done  = IF Outcome(p) = "invalid" THEN @ ELSE @ \cup {p},
                        !.fresh = IF Outcome(p) = "accepted" THEN p ELSE None]
  /\ UNCHANGED <<now, phones, requests, held, outbound, tokens, faults>>

PutPacket ==
  /\ job.fresh # None
  /\ held' = held \cup {job.fresh}
  /\ job' = [job EXCEPT !.fresh = None, !.due = AckFor[job.fresh]]
  /\ UNCHANGED <<now, phones, requests, observed, outbound, tokens, faults>>

InOutbound(p) == \E i \in 1..Len(outbound) : outbound[i] = p

\* enqueueOutbound(): once for each packet.
Enqueue ==
  /\ job.due # None
  /\ outbound' = IF InOutbound(job.due) THEN outbound ELSE Append(outbound, job.due)
  /\ job' = IF job.request = None THEN NoJob ELSE [job EXCEPT !.due = None]
  /\ UNCHANGED <<now, phones, requests, held, observed, tokens, faults>>

AnswerUpload ==
  /\ job.request # None /\ job.todo = {} /\ job.fresh = None /\ job.due = None
  /\ Answer(job.request, IF job.done = {} THEN "poll" ELSE "mark", job.done, 0, 0)
  /\ job' = NoJob
  /\ UNCHANGED <<now, row, upload, cursor, handed, requests, held, observed, outbound, tokens, faults>>

\* The console stores a packet of its own and puts it out.
Publish(p) ==
  /\ job = NoJob /\ p \in Published \ held /\ Valid(p, now, FALSE)
  /\ held' = held \cup {p}
  /\ job' = [NoJob EXCEPT !.due = p]
  /\ UNCHANGED <<now, phones, requests, observed, outbound, tokens, faults>>

\* Mutant: the newest item is left for the next poll.
PageEndShort(from) == Min({Len(outbound) - 1, from + MaxPage})

\* readOutbound(): the next items after the cursor.
PageEnd(from) == Min({Len(outbound), from + MaxPage})

\* Mutant: the cursor moves with the page, before the acknowledgement.
AnswerPollAdvance(m) ==
  /\ job = NoJob /\ m \in requests /\ m.stage = "poll" /\ m.g \in tokens
  /\ IF PageEnd(m.from) <= m.from THEN Finish(m) /\ UNCHANGED cursor
     ELSE /\ Answer(m, "ingest", {}, PageEnd(m.from), m.from + 1)
          /\ cursor' = IF m.live THEN [cursor EXCEPT ![m.g] = PageEnd(m.from)] ELSE cursor
  /\ requests' = requests \ {m}
  /\ UNCHANGED <<now, row, upload, handed, backend, faults>>

AnswerPoll(m) ==
  /\ job = NoJob /\ m \in requests /\ m.stage = "poll" /\ m.g \in tokens
  /\ IF PageEnd(m.from) <= m.from THEN Finish(m)
     ELSE Answer(m, "ingest", {}, PageEnd(m.from), m.from + 1)
  /\ requests' = requests \ {m}
  /\ UNCHANGED <<now, row, upload, cursor, handed, backend, faults>>

\* Mutant: the cursor names the next item instead of the last one.
AnswerAckNext(m) ==
  /\ job = NoJob /\ m \in requests /\ m.stage = "ack" /\ m.g \in tokens
  /\ Finish(m)
  /\ cursor' = IF m.live THEN [cursor EXCEPT ![m.g] = m.from + 1] ELSE cursor
  /\ requests' = requests \ {m}
  /\ UNCHANGED <<now, row, upload, handed, backend, faults>>

\* Only the answer to the acknowledgement moves the cursor, which the phone
\* keeps: acknowledging changes nothing at the backend.
AnswerAck(m) ==
  /\ job = NoJob /\ m \in requests /\ m.stage = "ack" /\ m.g \in tokens
  /\ Finish(m)
  /\ cursor' = IF m.live THEN [cursor EXCEPT ![m.g] = m.from] ELSE cursor
  /\ requests' = requests \ {m}
  /\ UNCHANGED <<now, row, upload, handed, backend, faults>>

\* The process dies between two writes; connections break.
CrashBackend ==
  /\ faults < MaxFaults
  /\ faults' = faults + 1
  /\ job' = NoJob
  /\ requests' = {}
  /\ sync' = [g \in Gateways |-> IF sync[g].at = "await" THEN Idle ELSE sync[g]]
  /\ UNCHANGED <<now, row, upload, cursor, handed, held, observed, outbound, tokens>>

Tick ==
  /\ now' \in {t \in Times : t > now}
  /\ UNCHANGED <<phones, requests, backend, faults>>

-----------------------------------------------------------------------------
Init ==
  /\ now = Min(Times)
  /\ row = [g \in Gateways |-> [p \in Offered |-> 0]]
  /\ upload = [g \in Gateways |-> [p \in Offered |-> "none"]]
  /\ sync = [g \in Gateways |-> Idle]
  /\ cursor = [g \in Gateways |-> 0]
  /\ handed = [g \in Gateways |-> {}]
  /\ requests = {}
  /\ held = {} /\ observed = {} /\ outbound = <<>> /\ tokens = {}
  /\ job = NoJob
  /\ faults = 0

Synchronise(g) ==
  \/ Probe(g) \/ SendUpload(g) \/ (\E p \in Offered : Mark(g, p))
  \/ SendPoll(g) \/ IngestNext(g) \/ SendAck(g)

Accept(g) ==
  \E m \in requests :
    m.g = g /\ (Register(m) \/ BeginUpload(m) \/ AnswerPoll(m) \/ AnswerAck(m))

Work == (\E p \in Offered : TakeItem(p)) \/ PutPacket \/ Enqueue \/ AnswerUpload

Faults == (\E g \in Gateways : GiveUp(g) \/ RestartPhone(g)) \/ CrashBackend

Next ==
  \/ \E g \in Gateways : Synchronise(g) \/ Accept(g) \/ (\E p \in Reports : Receive(g, p))
  \/ Work
  \/ \E p \in Published : Publish(p)
  \/ Faults
  \/ Tick

\* The timer starts sync() every half minute; the backend finishes what it
\* began and, between requests, takes the next of each phone in its turn;
\* faults are finitely many.
Fairness ==
  /\ WF_vars(Work)
  /\ \A g \in Gateways : WF_vars(Synchronise(g)) /\ SF_vars(Accept(g))

Spec == Init /\ [][Next]_vars /\ Fairness

-----------------------------------------------------------------------------
(* Properties *)

SyncRecord ==
  [at : {"idle", "await", "upload", "mark", "poll", "ingest", "ack"}, items : SUBSET Packets, to : Nat, next : Nat,
   time : Times \cup {0}]

RequestRecord ==
  [g : Gateways, stage : Stages, items : SUBSET Packets, from : Nat, live : BOOLEAN]

\* Every variable has the shape of the state it models.
TypeOK ==
  /\ now \in Times /\ faults \in 0..MaxFaults
  /\ row \in [Gateways -> [Offered -> Nat]]
  /\ upload \in [Gateways -> [Offered -> {"none", "queued", "uploaded", "not-eligible"}]]
  /\ sync \in [Gateways -> SyncRecord]
  /\ cursor \in [Gateways -> 0..Len(outbound)]
  /\ handed \in [Gateways -> SUBSET Offered]
  /\ requests \subseteq RequestRecord
  /\ held \subseteq Offered /\ observed \subseteq Gateways \X Offered
  /\ outbound \in Seq(Offered) /\ tokens \subseteq Gateways
  /\ job \in [request : RequestRecord \cup {None}, todo : SUBSET Packets, done : SUBSET Packets,
              fresh : Packets \cup {None}, due : Offered \cup {None}]

\* A phone stops offering a packet only once the backend holds it and has
\* noted that this phone brought it, whatever was lost or died on the way.
UploadedIsHeld ==
  \A g \in Gateways, p \in Offered :
    upload[g][p] = "uploaded" => p \in held /\ <<g, p>> \in observed

\* A phone that holds the backend's acknowledgement of a packet can rely on
\* the backend holding the packet ("coordination centre received it").
AckIsTrue ==
  \A g \in Gateways, p \in Packets : row[g][AckFor[p]] # 0 => p \in held

\* The cursor passes no packet the phone has not been given: a lost answer
\* causes a second delivery, never a lost packet.
NothingSkipped ==
  \A g \in Gateways : \A i \in 1..cursor[g] : outbound[i] \in handed[g]

\* Enough refused packets at the head of the queue fill every batch.
Blocked(g) == Cardinality({q \in Queued(g) : ~Valid(q, now, FALSE)}) >= MaxBatch

\* A queued packet is uploaded in the end, through finitely many faults, unless
\* it expires or packets the backend refuses fill the batch.
QueuedIsUploaded ==
  \A g \in Gateways, p \in Reports :
    (upload[g][p] = "queued") ~>
      (upload[g][p] = "uploaded" \/ ~Valid(p, now, FALSE) \/ Blocked(g))

\* What the backend puts out reaches every phone that keeps synchronising.
OutboundIsHanded ==
  \A g \in Gateways, p \in Offered : InOutbound(p) ~> p \in handed[g]
=============================================================================
