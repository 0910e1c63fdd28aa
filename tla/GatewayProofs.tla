---------------------------- MODULE GatewayProofs ----------------------------
(***************************************************************************)
(* For any number of phones, packets and faults: what a phone stops        *)
(* offering the backend holds, an acknowledgement that arrives is true,    *)
(* and the cursor passes nothing that was not handed to ingest.            *)
(*                                                                         *)
(* The three hold because of what is under way: the batch that is being    *)
(* marked, the request the backend works on, the page that is being        *)
(* ingested, and the only request of a phone whose answer still counts.    *)
(***************************************************************************)
EXTENDS GatewayExchange, FiniteSetTheorems, TLAPS

\* What was brought by phone g and is stored.
Done(g, p) == p \in held /\ <<g, p>> \in observed

\* The upload: a phone marks what is done, the backend answers what is done or
\* is about to be, and acknowledgements are never uploaded.
UploadSide ==
  /\ \A g \in Gateways, p \in Acks : upload[g][p] \notin {"queued", "uploaded"}
  /\ \A g \in Gateways : sync[g].at = "mark" => \A p \in sync[g].items : Done(g, p)
  /\ job.todo # {} => job.request \in RequestRecord
  /\ \A p \in job.done : <<job.request.g, p>> \in observed /\ (p \in held \/ p = job.fresh)
  /\ UploadedIsHeld

\* An acknowledgement exists only for a packet that is held.
AckSide ==
  /\ \A p \in Packets : job.due = AckFor[p] => p \in held
  /\ \A p \in Packets : InOutbound(AckFor[p]) => p \in held
  /\ AckIsTrue

\* The first n outbound packets were handed to phone g.
HandedTo(g, n) == n <= Len(outbound) /\ \A i \in 1..n : outbound[i] \in handed[g]

\* Of a phone's requests one at most still counts, and only while it waits.
OneLive ==
  /\ \A m \in requests : m.live => sync[m.g].at = "await"
  /\ \A m, n \in requests : m.live /\ n.live /\ m.g = n.g => m = n
  /\ job.request # None /\ job.request.live =>
       /\ sync[job.request.g].at = "await"
       /\ \A m \in requests : m.live => m.g # job.request.g

\* The download: the page under way continues where the cursor stands.
DownSide ==
  /\ \A m \in requests : m.live /\ m.stage = "poll" => m.from = cursor[m.g]
  /\ \A m \in requests : m.live /\ m.stage = "ack" => HandedTo(m.g, m.from)
  /\ \A g \in Gateways : sync[g].at = "ingest" =>
       /\ sync[g].next \in 1..sync[g].to /\ sync[g].to <= Len(outbound)
       /\ HandedTo(g, sync[g].next - 1)
  /\ \A g \in Gateways : sync[g].at = "ack" => HandedTo(g, sync[g].to)
  /\ \A g \in Gateways : HandedTo(g, cursor[g])

\* The inductive invariant.
IInv == TypeOK /\ UploadSide /\ AckSide /\ OneLive /\ DownSide

-----------------------------------------------------------------------------
LEMMA OfferedFinite == IsFiniteSet(Offered)
<1>1. AckFor \in Surjection(Packets, Acks)  BY PacketsAssumption DEF Acks, Surjection
<1>2. IsFiniteSet(Acks)  BY <1>1, FS_Surjection, FiniteAssumption
<1> QED  BY <1>2, FS_Union, FiniteAssumption DEF Offered

LEMMA StoredCounted == ASSUME TypeOK, NEW g \in Gateways PROVE Cardinality(Stored(g)) \in Nat
<1>1. Stored(g) \subseteq Offered  BY DEF Stored
<1>2. IsFiniteSet(Stored(g))  BY <1>1, OfferedFinite, FS_Subset
<1> QED  BY <1>2, FS_CardinalityType

LEMMA PageEndIs ==
  ASSUME TypeOK, NEW from \in Nat
  PROVE  PageEnd(from) \in Nat /\ PageEnd(from) <= Len(outbound)
<1> DEFINE a == Len(outbound)
           b == from + MaxPage
<1>1. a \in Nat /\ b \in Nat  BY BoundsAssumption DEF TypeOK
<1>2. \E x \in {a, b} : \A y \in {a, b} : x <= y
  <2>1. CASE a <= b  BY <2>1, <1>1
  <2>2. CASE b <= a  BY <2>2, <1>1
  <2> QED  BY <2>1, <2>2, <1>1
<1>3. PageEnd(from) = CHOOSE x \in {a, b} : \A y \in {a, b} : x <= y  BY DEF PageEnd, Min
<1> HIDE DEF a, b
<1>4. PageEnd(from) \in {a, b} /\ \A y \in {a, b} : PageEnd(from) <= y  BY <1>2, <1>3
<1> QED  BY <1>4, <1>1 DEF a

LEMMA FirstTime == Min(Times) \in Times
BY TimesAssumption DEF Min

-----------------------------------------------------------------------------
(* Types *)

LEMMA TypeInit == Init => TypeOK
BY FirstTime, BoundsAssumption DEF Init, TypeOK, Idle, NoJob, SyncRecord, RequestRecord

LEMMA OrphansTyped ==
  ASSUME TypeOK, NEW g \in Gateways
  PROVE  /\ Orphaned(g) \subseteq RequestRecord
         /\ OrphanedJob(g) \in [request : RequestRecord \cup {None}, todo : SUBSET Packets,
               done : SUBSET Packets, fresh : Packets \cup {None}, due : Offered \cup {None}]
<1>1. \A m \in RequestRecord : [m EXCEPT !.live = FALSE] \in RequestRecord  BY DEF RequestRecord
<1>2. Orphaned(g) \subseteq RequestRecord  BY <1>1 DEF Orphaned, TypeOK
<1>3. job.request # None => [job.request EXCEPT !.live = FALSE] \in RequestRecord
  BY <1>1 DEF TypeOK
<1> QED  BY <1>2, <1>3 DEF OrphanedJob, TypeOK

LEMMA IngestTyped ==
  ASSUME TypeOK, NEW g \in Gateways, NEW p \in Offered, NEW time, Ingest(g, p, time)
  PROVE  /\ row' \in [Gateways -> [Offered -> Nat]]
         /\ upload' \in [Gateways -> [Offered -> {"none", "queued", "uploaded", "not-eligible"}]]
<1> DEFINE c == Cardinality(Stored(g)) + 1
           s == UploadState(p)
<1>1. c \in Nat  BY StoredCounted
<1>2. s \in {"queued", "not-eligible"}  BY DEF UploadState
<1>3. \/ row' = [row EXCEPT ![g][p] = c] /\ upload' = [upload EXCEPT ![g][p] = s]
      \/ UNCHANGED <<row, upload>>
  BY DEF Ingest
<1> HIDE DEF c, s
<1>4. [row EXCEPT ![g][p] = c] \in [Gateways -> [Offered -> Nat]]  BY <1>1 DEF TypeOK
<1>5. [upload EXCEPT ![g][p] = s]
        \in [Gateways -> [Offered -> {"none", "queued", "uploaded", "not-eligible"}]]
  BY <1>2 DEF TypeOK
<1> QED  BY <1>3, <1>4, <1>5 DEF TypeOK

LEMMA StepTyped ==
  ASSUME TypeOK, NEW g \in Gateways,
         NEW at \in {"idle", "await", "upload", "mark", "poll", "ingest", "ack"},
         NEW items \in SUBSET Packets, NEW to \in Nat, NEW next \in Nat
  PROVE  /\ Step(g, at, items, to, next) => sync' \in [Gateways -> SyncRecord]
         /\ Stop(g) => sync' \in [Gateways -> SyncRecord]
         /\ UNCHANGED sync => sync' \in [Gateways -> SyncRecord]
<1>1. sync[g].time \in Times \cup {0} /\ sync \in [Gateways -> SyncRecord]  BY DEF TypeOK, SyncRecord
<1>2. Idle \in SyncRecord  BY DEF Idle, SyncRecord
<1>3. [at |-> at, items |-> items, to |-> to, next |-> next, time |-> sync[g].time] \in SyncRecord
  BY <1>1 DEF SyncRecord
<1> QED  BY <1>1, <1>2, <1>3 DEF Step, Stop

\* The batch holds packets, not acknowledgements.
LEMMA BatchIsPackets == ASSUME IInv, NEW g \in Gateways PROVE Batch(g) \subseteq Packets
BY DEF Batch, Queued, Stored, IInv, UploadSide, Offered

LEMMA RequestTyped ==
  ASSUME NEW g \in Gateways, NEW stage \in Stages, NEW items \in SUBSET Packets, NEW from \in Nat
  PROVE  Request(g, stage, items, from) \in RequestRecord
BY DEF Request, RequestRecord

LEMMA AwaitTyped ==
  ASSUME TypeOK, NEW g \in Gateways, NEW stage \in Stages, NEW items \in SUBSET Packets,
         NEW from \in Nat, NEW to \in Nat, Await(g, stage, items, from, to)
  PROVE  requests' \subseteq RequestRecord /\ sync' \in [Gateways -> SyncRecord]
<1>1. requests' = requests \cup {Request(g, stage, items, from)} /\ Step(g, "await", items, to, from)
  BY DEF Await
<1>2. sync' \in [Gateways -> SyncRecord]  BY <1>1, StepTyped
<1>3. Request(g, stage, items, from) \in RequestRecord  BY RequestTyped
<1> QED  BY <1>1, <1>2, <1>3 DEF TypeOK

\* What the phones' steps leave of the types to prove.
LEMMA PhoneTyped ==
  ASSUME TypeOK, UNCHANGED <<now, backend>>, faults' \in 0..MaxFaults,
         row' \in [Gateways -> [Offered -> Nat]],
         upload' \in [Gateways -> [Offered -> {"none", "queued", "uploaded", "not-eligible"}]],
         sync' \in [Gateways -> SyncRecord],
         cursor' \in [Gateways -> 0..Len(outbound)],
         handed' \in [Gateways -> SUBSET Offered],
         requests' \subseteq RequestRecord
  PROVE  TypeOK'
BY DEF TypeOK, backend

LEMMA SynchroniseTyped == ASSUME IInv, NEW g \in Gateways, Synchronise(g) PROVE TypeOK'
<1> USE DEF IInv
<1>a. /\ row \in [Gateways -> [Offered -> Nat]] /\ faults \in 0..MaxFaults
      /\ upload \in [Gateways -> [Offered -> {"none", "queued", "uploaded", "not-eligible"}]]
      /\ cursor \in [Gateways -> 0..Len(outbound)] /\ handed \in [Gateways -> SUBSET Offered]
      /\ requests \subseteq RequestRecord /\ now \in Times
      /\ outbound \in Seq(Offered)
  BY DEF TypeOK
<1>b. /\ sync \in [Gateways -> SyncRecord] /\ sync[g].to \in Nat /\ sync[g].next \in Nat
      /\ sync[g].items \in SUBSET Packets
  BY DEF TypeOK, SyncRecord
<1>1. CASE Probe(g)
  <2>1. [Idle EXCEPT !.at = "await", !.time = now] \in SyncRecord  BY <1>a DEF Idle, SyncRecord
  <2>2. Request(g, "register", {}, 0) \in RequestRecord  BY RequestTyped DEF Stages
  <2>3. requests' \subseteq RequestRecord /\ sync' \in [Gateways -> SyncRecord]
    BY <1>1, <2>1, <2>2, <1>a, <1>b DEF Probe
  <2> QED  BY <1>1, <2>3, <1>a, PhoneTyped DEF Probe
<1>2. CASE SendUpload(g)
  <2>1. requests' \subseteq RequestRecord /\ sync' \in [Gateways -> SyncRecord]
    <3>1. CASE Batch(g) = {}
      <4>1. Step(g, "poll", {}, 0, 0) /\ UNCHANGED requests  BY <3>1, <1>2 DEF SendUpload
      <4> QED  BY <4>1, StepTyped, <1>a
    <3>2. CASE Batch(g) # {}
      <4>1. Await(g, "upload", Batch(g), 0, 0)  BY <3>2, <1>2 DEF SendUpload
      <4>2. Batch(g) \in SUBSET Packets  BY BatchIsPackets
      <4> QED  BY <4>1, <4>2, AwaitTyped DEF Stages
    <3> QED  BY <3>1, <3>2
  <2> QED  BY <1>2, <2>1, <1>a, PhoneTyped DEF SendUpload
<1>3. ASSUME NEW p \in Offered, Mark(g, p) PROVE TypeOK'
  <2>1. upload' \in [Gateways -> [Offered -> {"none", "queued", "uploaded", "not-eligible"}]]
    BY <1>3, <1>a DEF Mark
  <2>2. sync' \in [Gateways -> SyncRecord]
    <3> DEFINE rest == sync[g].items \ {p}
    <3>1. Step(g, "poll", rest, 0, 0) \/ Step(g, "mark", rest, 0, 0)  BY <1>3 DEF Mark
    <3>2. rest \in SUBSET Packets  BY <1>b
    <3> HIDE DEF rest
    <3> QED  BY <3>1, <3>2, StepTyped
  <2> QED  BY <1>3, <2>1, <2>2, <1>a, PhoneTyped DEF Mark
<1>4. CASE SendPoll(g)
  <2>1. Await(g, "poll", {}, cursor[g], 0)  BY <1>4 DEF SendPoll
  <2>2. cursor[g] \in Nat  BY <1>a
  <2>3. requests' \subseteq RequestRecord /\ sync' \in [Gateways -> SyncRecord]
    BY <2>1, <2>2, AwaitTyped DEF Stages
  <2> QED  BY <1>4, <2>3, <1>a, PhoneTyped DEF SendPoll
<1>5. CASE IngestNext(g)
  <2> DEFINE n == sync[g].next
             p == outbound[n]
  <2>1. n \in 1..Len(outbound) /\ sync[g].to \in Nat
    BY <1>5, <1>b, <1>a DEF IngestNext, DownSide
  <2>2. p \in Offered  BY <2>1, <1>a
  <2>3. /\ Ingest(g, p, sync[g].time)
        /\ handed' = [handed EXCEPT ![g] = @ \cup {p}]
        /\ Step(g, "ack", {}, sync[g].to, n + 1) \/ Step(g, "ingest", {}, sync[g].to, n + 1)
    BY <1>5 DEF IngestNext
  <2>4. n + 1 \in Nat  BY <2>1
  <2> HIDE DEF n, p
  <2>5. sync' \in [Gateways -> SyncRecord]  BY <2>3, <2>4, <2>1, StepTyped
  <2>6. /\ row' \in [Gateways -> [Offered -> Nat]]
        /\ upload' \in [Gateways -> [Offered -> {"none", "queued", "uploaded", "not-eligible"}]]
    BY <2>2, <2>3, IngestTyped
  <2>7. handed' \in [Gateways -> SUBSET Offered]  BY <2>2, <2>3, <1>a
  <2> QED  BY <1>5, <2>5, <2>6, <2>7, <1>a, PhoneTyped DEF IngestNext
<1>6. CASE SendAck(g)
  <2>1. Await(g, "ack", {}, sync[g].to, sync[g].to)  BY <1>6 DEF SendAck
  <2>3. requests' \subseteq RequestRecord /\ sync' \in [Gateways -> SyncRecord]
    BY <2>1, <1>b, AwaitTyped DEF Stages
  <2> QED  BY <1>6, <2>3, <1>a, PhoneTyped DEF SendAck
<1> QED  BY <1>1, <1>2, <1>3, <1>4, <1>5, <1>6 DEF Synchronise

LEMMA AnswerTyped ==
  ASSUME TypeOK, NEW m \in RequestRecord,
         NEW at \in {"idle", "await", "upload", "mark", "poll", "ingest", "ack"},
         NEW items \in SUBSET Packets, NEW to \in Nat, NEW next \in Nat
  PROVE  /\ Answer(m, at, items, to, next) => sync' \in [Gateways -> SyncRecord]
         /\ Finish(m) => sync' \in [Gateways -> SyncRecord]
<1>1. m.g \in Gateways  BY DEF RequestRecord
<1> QED  BY <1>1, StepTyped DEF Answer, Finish

JobRecord ==
  [request : RequestRecord \cup {None}, todo : SUBSET Packets, done : SUBSET Packets,
   fresh : Packets \cup {None}, due : Offered \cup {None}]

\* What the backend's steps leave of the types to prove.
LEMMA BackendTyped ==
  ASSUME TypeOK, UNCHANGED <<now, row, upload, handed, faults>>,
         sync' \in [Gateways -> SyncRecord],
         requests' \subseteq requests,
         cursor' \in [Gateways -> 0..Len(outbound)],
         held' \subseteq Offered, observed' \subseteq Gateways \X Offered,
         outbound' \in Seq(Offered), Len(outbound) <= Len(outbound'),
         tokens' \subseteq Gateways, job' \in JobRecord
  PROVE  TypeOK'
<1>1. \A g \in Gateways : cursor'[g] \in 0..Len(outbound')  OBVIOUS
<1> QED  BY <1>1 DEF TypeOK, JobRecord

LEMMA AcceptTyped == ASSUME IInv, NEW g \in Gateways, Accept(g) PROVE TypeOK'
<1>a. /\ TypeOK /\ held \subseteq Offered /\ observed \subseteq Gateways \X Offered
      /\ outbound \in Seq(Offered) /\ Len(outbound) \in Nat
      /\ tokens \subseteq Gateways /\ job \in JobRecord /\ requests \subseteq RequestRecord
      /\ cursor \in [Gateways -> 0..Len(outbound)] /\ sync \in [Gateways -> SyncRecord]
  BY DEF TypeOK, JobRecord, IInv
<1>1. ASSUME NEW m \in requests, m.g = g, Register(m) PROVE TypeOK'
  <2>1. m \in RequestRecord  BY <1>a
  <2>2. sync' \in [Gateways -> SyncRecord]  BY <1>1, <2>1, <1>a, AnswerTyped DEF Register
  <2>3. tokens' \subseteq Gateways  BY <1>1, <1>a DEF Register
  <2> QED  BY <1>1, <2>2, <2>3, <1>a, BackendTyped DEF Register
<1>2. ASSUME NEW m \in requests, BeginUpload(m) PROVE TypeOK'
  <2>1. m \in RequestRecord /\ m.items \in SUBSET Packets  BY <1>a DEF RequestRecord
  <2>2. job' \in JobRecord  BY <1>2, <2>1 DEF BeginUpload, NoJob, JobRecord
  <2> QED  BY <1>2, <2>2, <1>a, BackendTyped DEF BeginUpload, phones
<1>3. ASSUME NEW m \in requests, AnswerPoll(m) PROVE TypeOK'
  <2>1. m \in RequestRecord /\ m.from \in Nat /\ m.from + 1 \in Nat  BY <1>a DEF RequestRecord
  <2>2. PageEnd(m.from) \in Nat  BY <1>a, <2>1, PageEndIs
  <2>3. Finish(m) \/ Answer(m, "ingest", {}, PageEnd(m.from), m.from + 1)  BY <1>3 DEF AnswerPoll
  <2>4. sync' \in [Gateways -> SyncRecord]  BY <2>1, <2>2, <2>3, <1>a, AnswerTyped
  <2> QED  BY <1>3, <2>4, <1>a, BackendTyped DEF AnswerPoll, backend
<1>4. ASSUME NEW m \in requests, AnswerAck(m) PROVE TypeOK'
  <2>1. m \in RequestRecord /\ m.from \in Nat /\ m.g \in Gateways  BY <1>a DEF RequestRecord
  <2>2. sync' \in [Gateways -> SyncRecord]  BY <1>4, <2>1, <1>a, AnswerTyped DEF AnswerAck
  <2>3. m.live => m.from <= Len(outbound)  BY <1>4 DEF AnswerAck, IInv, DownSide, HandedTo
  <2>4. cursor' \in [Gateways -> 0..Len(outbound)]  BY <1>4, <2>1, <2>3, <1>a DEF AnswerAck
  <2> QED  BY <1>4, <2>2, <2>4, <1>a, BackendTyped DEF AnswerAck, backend
<1> QED  BY <1>1, <1>2, <1>3, <1>4 DEF Accept

LEMMA WorkTyped == ASSUME IInv, Work \/ (\E p \in Published : Publish(p)) PROVE TypeOK'
<1>a. /\ TypeOK /\ held \subseteq Offered /\ observed \subseteq Gateways \X Offered
      /\ outbound \in Seq(Offered) /\ Len(outbound) \in Nat
      /\ tokens \subseteq Gateways /\ job \in JobRecord /\ requests \subseteq RequestRecord
      /\ cursor \in [Gateways -> 0..Len(outbound)] /\ sync \in [Gateways -> SyncRecord]
  BY DEF TypeOK, JobRecord, IInv
<1>b. Packets \subseteq Offered /\ \A p \in Packets : AckFor[p] \in Offered
  BY PacketsAssumption DEF Offered
<1>1. ASSUME NEW p \in Offered, TakeItem(p) PROVE TypeOK'
  <2>1. p \in Packets /\ job.request \in RequestRecord \cup {None}  BY <1>1, <1>a DEF TakeItem, JobRecord
  <2>2. job' \in JobRecord  BY <1>1, <2>1, <1>a DEF TakeItem, JobRecord
  <2>3. job.request.g \in Gateways  BY <1>1 DEF TakeItem, IInv, UploadSide, RequestRecord
  <2>4. observed' \subseteq Gateways \X Offered  BY <1>1, <2>3, <1>a DEF TakeItem, Observed
  <2> QED  BY <1>1, <2>2, <2>4, <1>a, BackendTyped DEF TakeItem, phones
<1>2. CASE PutPacket
  <2>1. job.fresh \in Packets /\ AckFor[job.fresh] \in Offered
    BY <1>2, <1>a, <1>b DEF PutPacket, JobRecord
  <2>2. job' \in JobRecord  BY <1>2, <2>1, <1>a DEF PutPacket, JobRecord
  <2> QED  BY <1>2, <2>1, <2>2, <1>a, <1>b, BackendTyped DEF PutPacket, phones
<1>3. CASE Enqueue
  <2>1. job.due \in Offered  BY <1>3, <1>a DEF Enqueue, JobRecord
  <2>2. job' \in JobRecord  BY <1>3, <1>a DEF Enqueue, JobRecord, NoJob
  <2>3. outbound' \in Seq(Offered) /\ Len(outbound) <= Len(outbound')
    BY <1>3, <2>1, <1>a DEF Enqueue
  <2> QED  BY <1>3, <2>2, <2>3, <1>a, BackendTyped DEF Enqueue, phones
<1>4. CASE AnswerUpload
  <2>1. job.request \in RequestRecord /\ job.done \in SUBSET Packets
    BY <1>4, <1>a DEF AnswerUpload, JobRecord
  <2>2. Answer(job.request, "poll", job.done, 0, 0) \/ Answer(job.request, "mark", job.done, 0, 0)
    BY <1>4 DEF AnswerUpload
  <2>3. sync' \in [Gateways -> SyncRecord]  BY <2>1, <2>2, <1>a, AnswerTyped
  <2>4. job' \in JobRecord  BY <1>4 DEF AnswerUpload, NoJob, JobRecord
  <2> QED  BY <1>4, <2>3, <2>4, <1>a, BackendTyped DEF AnswerUpload
<1>5. ASSUME NEW p \in Published, Publish(p) PROVE TypeOK'
  <2>1. p \in Offered  BY DEF Offered, Packets
  <2>2. job' \in JobRecord  BY <1>5, <2>1 DEF Publish, NoJob, JobRecord
  <2> QED  BY <1>5, <2>1, <2>2, <1>a, BackendTyped DEF Publish, phones
<1> QED  BY <1>1, <1>2, <1>3, <1>4, <1>5 DEF Work

LEMMA ReceiveTyped == ASSUME IInv, NEW g \in Gateways, NEW p \in Reports, Receive(g, p) PROVE TypeOK'
<1>1. p \in Offered  BY DEF Offered, Packets
<1>2. Ingest(g, p, now) /\ TypeOK  BY DEF Receive, IInv
<1>3. /\ row' \in [Gateways -> [Offered -> Nat]]
      /\ upload' \in [Gateways -> [Offered -> {"none", "queued", "uploaded", "not-eligible"}]]
  BY <1>1, <1>2, IngestTyped
<1> QED  BY <1>2, <1>3, PhoneTyped DEF Receive, TypeOK

LEMMA FaultsTyped == ASSUME IInv, Faults PROVE TypeOK'
<1>a. /\ TypeOK /\ faults + 1 \in Nat /\ (faults < MaxFaults => faults + 1 \in 0..MaxFaults)
      /\ cursor \in [Gateways -> 0..Len(outbound)] /\ sync \in [Gateways -> SyncRecord]
      /\ Len(outbound) \in Nat
  BY BoundsAssumption DEF TypeOK, IInv
<1>1. ASSUME NEW g \in Gateways, GiveUp(g) \/ RestartPhone(g) PROVE TypeOK'
  <2>1. Stop(g)  BY <1>1 DEF GiveUp, RestartPhone
  <2>2. sync' \in [Gateways -> SyncRecord]
    <3>1. Idle \in SyncRecord  BY DEF Idle, SyncRecord
    <3> QED  BY <3>1, <2>1, <1>a DEF Stop
  <2>3. requests' \subseteq RequestRecord /\ job' \in JobRecord
    BY <1>1, <1>a, OrphansTyped DEF GiveUp, RestartPhone, JobRecord
  <2>4. cursor' \in [Gateways -> 0..Len(outbound)] /\ faults' \in 0..MaxFaults
    BY <1>1, <1>a DEF GiveUp, RestartPhone
  <2>5. UNCHANGED <<now, row, upload, handed, held, observed, outbound, tokens>>
    BY <1>1 DEF GiveUp, RestartPhone
  <2> QED  BY <2>2, <2>3, <2>4, <2>5, <1>a DEF TypeOK, JobRecord
<1>2. CASE CrashBackend
  <2>1. Idle \in SyncRecord  BY DEF Idle, SyncRecord
  <2>2. sync' \in [Gateways -> SyncRecord]  BY <2>1, <1>2, <1>a DEF CrashBackend
  <2>3. job' \in JobRecord /\ requests' \subseteq RequestRecord
    BY <1>2 DEF CrashBackend, NoJob, JobRecord
  <2>4. /\ UNCHANGED <<now, row, upload, cursor, handed, held, observed, outbound, tokens>>
        /\ faults' \in 0..MaxFaults
    BY <1>2, <1>a DEF CrashBackend
  <2> QED  BY <2>2, <2>3, <2>4, <1>a DEF TypeOK, JobRecord
<1> QED  BY <1>1, <1>2 DEF Faults

LEMMA TypeStep == ASSUME IInv, [Next]_vars PROVE TypeOK'
<1>1. CASE Tick  BY <1>1 DEF Tick, TypeOK, IInv, phones, backend
<1>2. CASE UNCHANGED vars  BY <1>2 DEF vars, TypeOK, IInv, phones, backend
<1> QED  BY <1>1, <1>2, SynchroniseTyped, AcceptTyped, WorkTyped, ReceiveTyped, FaultsTyped DEF Next

-----------------------------------------------------------------------------
(* The upload *)

\* Ingest changes one row, and never marks a packet as uploaded.
LEMMA IngestEffect ==
  ASSUME TypeOK, NEW g \in Gateways, NEW p \in Offered, NEW time, Ingest(g, p, time)
  PROVE  /\ \A h \in Gateways, q \in Offered : row'[h][q] # 0 => row[h][q] # 0 \/ (h = g /\ q = p)
         /\ \A h \in Gateways, q \in Offered :
              \/ upload'[h][q] = upload[h][q]
              \/ upload'[h][q] = "queued" /\ q \notin Acks
              \/ upload'[h][q] = "not-eligible"
<1>a. /\ row \in [Gateways -> [Offered -> Nat]]
      /\ upload \in [Gateways -> [Offered -> {"none", "queued", "uploaded", "not-eligible"}]]
  BY DEF TypeOK
<1>1. p \in Acks => UploadState(p) = "not-eligible"
  BY AcksAssumption DEF UploadState, UploadDecision
<1>2. UploadState(p) \in {"queued", "not-eligible"}  BY DEF UploadState
<1> DEFINE c == Cardinality(Stored(g)) + 1
           s == UploadState(p)
<1>3. \/ row' = [row EXCEPT ![g][p] = c] /\ upload' = [upload EXCEPT ![g][p] = s]
      \/ row' = row /\ upload' = upload
  BY DEF Ingest
<1>4. (p \in Acks => s = "not-eligible") /\ s \in {"queued", "not-eligible"}  BY <1>1, <1>2
<1> HIDE DEF c, s
<1>5. CASE row' = row /\ upload' = upload  BY <1>5
<1>6. CASE row' = [row EXCEPT ![g][p] = c] /\ upload' = [upload EXCEPT ![g][p] = s]
  <2>1. \A h \in Gateways, q \in Offered :
          upload'[h][q] = IF h = g /\ q = p THEN s ELSE upload[h][q]
    BY <1>6, <1>a
  <2>2. \A h \in Gateways, q \in Offered : row'[h][q] = IF h = g /\ q = p THEN c ELSE row[h][q]
    BY <1>6, <1>a
  <2> QED  BY <2>1, <2>2, <1>4
<1> QED  BY <1>3, <1>5, <1>6

\* A step of phone g leaves the other phones where they are.
LEMMA StepEffect ==
  ASSUME TypeOK, NEW g \in Gateways, NEW at, NEW items, NEW to, NEW next
  PROVE  /\ Step(g, at, items, to, next) =>
              /\ sync'[g].at = at /\ sync'[g].items = items
              /\ sync'[g].to = to /\ sync'[g].next = next
              /\ \A h \in Gateways : h # g => sync'[h] = sync[h]
         /\ Stop(g) =>
              /\ sync'[g] = Idle
              /\ \A h \in Gateways : h # g => sync'[h] = sync[h]
BY DEF TypeOK, Step, Stop

\* What a step must not disturb for the upload side to stay true.
LEMMA UploadFrame ==
  ASSUME UploadSide, held \subseteq held', observed \subseteq observed',
         \A g \in Gateways, p \in Offered :
           \/ upload'[g][p] = upload[g][p]
           \/ upload'[g][p] = "queued" /\ p \notin Acks
           \/ upload'[g][p] = "not-eligible",
         \A g \in Gateways : sync'[g].at = "mark" => sync'[g] = sync[g],
         UNCHANGED <<job.todo, job.done, job.fresh>>,
         job.todo # {} => job'.request \in RequestRecord,
         job.done # {} => job'.request.g = job.request.g
  PROVE  UploadSide'
<1>a. Acks \subseteq Offered  BY DEF Offered
<1>1. \A g \in Gateways, p \in Acks : upload'[g][p] \notin {"queued", "uploaded"}
  BY <1>a DEF UploadSide
<1>2. \A g \in Gateways : sync'[g].at = "mark" => \A p \in sync'[g].items : Done(g, p)'
  BY DEF UploadSide, Done
<1>3. job'.todo # {} => job'.request \in RequestRecord  OBVIOUS
<1>4. \A p \in job'.done : <<job'.request.g, p>> \in observed' /\ (p \in held' \/ p = job'.fresh)
  BY DEF UploadSide
<1>5. UploadedIsHeld'  BY DEF UploadSide, UploadedIsHeld
<1> QED  BY <1>1, <1>2, <1>3, <1>4, <1>5 DEF UploadSide

\* An orphaned job is the same work for the same phone.
LEMMA OrphanedJobIs ==
  ASSUME IInv, NEW g \in Gateways, job' = OrphanedJob(g)
  PROVE  /\ UNCHANGED <<job.todo, job.done, job.fresh, job.due>>
         /\ job.todo # {} => job'.request \in RequestRecord
         /\ job.request \in RequestRecord => job'.request.g = job.request.g
         /\ job.request = None => job'.request = None
         /\ job.done # {} => job'.request.g = job.request.g
         /\ job'.request = job.request \/ job'.request.live = FALSE
<1>1. job \in JobRecord /\ (job.todo # {} => job.request \in RequestRecord)
  BY DEF IInv, TypeOK, JobRecord, UploadSide
<1>2. CASE job' = job  BY <1>1, <1>2
<1>3. CASE job.request # None /\ job' = [job EXCEPT !.request.live = FALSE]
  <2>1. job.request \in RequestRecord  BY <1>1, <1>3 DEF JobRecord
  <2>2. job'.request = [job.request EXCEPT !.live = FALSE]  BY <1>1, <1>3 DEF JobRecord
  <2>3. job'.request \in RequestRecord /\ job'.request.g = job.request.g /\ job'.request.live = FALSE
    BY <2>1, <2>2 DEF RequestRecord
  <2> QED  BY <1>1, <1>3, <2>3 DEF JobRecord
<1> QED  BY <1>2, <1>3 DEF OrphanedJob

LEMMA SynchroniseUpload == ASSUME IInv, NEW g \in Gateways, Synchronise(g) PROVE UploadSide'
<1>a. /\ TypeOK /\ UploadSide /\ (job.todo # {} => job.request \in RequestRecord)
      /\ upload \in [Gateways -> [Offered -> {"none", "queued", "uploaded", "not-eligible"}]]
      /\ sync \in [Gateways -> SyncRecord] /\ Acks \cap Packets = {}
  BY PacketsAssumption DEF IInv, UploadSide, TypeOK
<1>1. CASE Probe(g)
  <2>1. sync'[g].at = "await" /\ \A h \in Gateways : h # g => sync'[h] = sync[h]
    BY <1>1, <1>a DEF Probe, Idle
  <2>2. \A h \in Gateways : sync'[h].at = "mark" => sync'[h] = sync[h]  BY <2>1
  <2>3. UNCHANGED <<held, observed, upload, job>>  BY <1>1 DEF Probe, backend
  <2> QED  BY <2>2, <2>3, <1>a, UploadFrame
<1>2. CASE SendUpload(g) \/ SendPoll(g) \/ SendAck(g)
  <2>1. \E at \in {"poll", "await"} : \E items, to, next : Step(g, at, items, to, next)
    BY <1>2 DEF SendUpload, SendPoll, SendAck, Await
  <2>2. \A h \in Gateways : sync'[h].at = "mark" => sync'[h] = sync[h]  BY <2>1, <1>a, StepEffect
  <2>3. UNCHANGED <<held, observed, upload, job>>  BY <1>2 DEF SendUpload, SendPoll, SendAck, backend
  <2> QED  BY <2>2, <2>3, <1>a, UploadFrame
<1>3. ASSUME NEW p \in Offered, Mark(g, p) PROVE UploadSide'
  <2>1. p \in sync[g].items /\ sync[g].at = "mark" /\ p \in Packets /\ Done(g, p)
    BY <1>3, <1>a DEF Mark, UploadSide, SyncRecord
  <2>2. UNCHANGED <<held, observed, job>>  BY <1>3 DEF Mark, backend
  <2>3. \A h \in Gateways, q \in Offered :
          upload'[h][q] = IF h = g /\ q = p THEN "uploaded" ELSE upload[h][q]
    BY <1>3, <1>a DEF Mark
  <2>4. \E at : Step(g, at, sync[g].items \ {p}, 0, 0)  BY <1>3 DEF Mark
  <2>5. sync'[g].items = sync[g].items \ {p} /\ \A h \in Gateways : h # g => sync'[h] = sync[h]
    BY <2>4, <1>a, StepEffect
  <2>6. \A h \in Gateways, q \in Acks : upload'[h][q] \notin {"queued", "uploaded"}
    BY <2>1, <2>3, <1>a DEF UploadSide, Offered
  <2>7. \A h \in Gateways : sync'[h].at = "mark" => \A q \in sync'[h].items : Done(h, q)'
    BY <2>1, <2>2, <2>5, <1>a DEF UploadSide, Done
  <2>8. UploadedIsHeld'  BY <2>1, <2>2, <2>3, <1>a DEF UploadSide, UploadedIsHeld, Done
  <2> QED  BY <2>2, <2>6, <2>7, <2>8, <1>a DEF UploadSide
<1>4. CASE IngestNext(g)
  <2> DEFINE n == sync[g].next
             p == outbound[n]
  <2>1. n \in 1..Len(outbound)
    BY <1>4 DEF IngestNext, IInv, DownSide, TypeOK, SyncRecord
  <2>2. p \in Offered  BY <2>1 DEF IInv, TypeOK
  <2>3. /\ Ingest(g, p, sync[g].time)
        /\ \E at \in {"ack", "ingest"} : Step(g, at, {}, sync[g].to, n + 1)
        /\ UNCHANGED <<held, observed, job>>
    BY <1>4 DEF IngestNext, backend
  <2> HIDE DEF n, p
  <2>4. \A h \in Gateways : sync'[h].at = "mark" => sync'[h] = sync[h]  BY <2>3, <1>a, StepEffect
  <2> QED  BY <2>2, <2>3, <2>4, <1>a, IngestEffect, UploadFrame
<1> QED  BY <1>1, <1>2, <1>3, <1>4 DEF Synchronise

LEMMA AcceptUpload == ASSUME IInv, NEW g \in Gateways, Accept(g) PROVE UploadSide'
<1>a. /\ TypeOK /\ UploadSide /\ (job.todo # {} => job.request \in RequestRecord)
      /\ requests \subseteq RequestRecord /\ \A m \in requests : m.g \in Gateways
  BY DEF IInv, UploadSide, TypeOK, RequestRecord
<1>1. ASSUME NEW m \in requests, Register(m) \/ AnswerPoll(m) \/ AnswerAck(m) PROVE UploadSide'
  <2>1. \/ UNCHANGED sync
        \/ Stop(m.g)
        \/ \E at \in {"upload", "ingest"} : \E items, to, next : Step(m.g, at, items, to, next)
    BY <1>1 DEF Register, AnswerPoll, AnswerAck, Answer, Finish
  <2>2. \A h \in Gateways : sync'[h].at = "mark" => sync'[h] = sync[h]
    BY <2>1, <1>a, StepEffect DEF Idle
  <2>3. UNCHANGED <<held, observed, upload, job>>
    BY <1>1 DEF Register, AnswerPoll, AnswerAck, backend
  <2> QED  BY <2>2, <2>3, <1>a, UploadFrame
<1>2. ASSUME NEW m \in requests, BeginUpload(m) PROVE UploadSide'
  <2>1. UNCHANGED <<held, observed, upload, sync>>  BY <1>2 DEF BeginUpload, phones
  <2>2. job'.done = {} /\ job'.request = m  BY <1>2 DEF BeginUpload, NoJob
  <2> QED  BY <2>1, <2>2, <1>a DEF UploadSide, UploadedIsHeld, Done
<1> QED  BY <1>1, <1>2 DEF Accept

LEMMA WorkUpload == ASSUME IInv, Work \/ (\E p \in Published : Publish(p)) PROVE UploadSide'
<1>a. /\ TypeOK /\ UploadSide /\ (job.todo # {} => job.request \in RequestRecord)
      /\ job \in JobRecord
  BY DEF IInv, UploadSide, TypeOK, JobRecord
<1>1. ASSUME NEW p \in Offered, TakeItem(p) PROVE UploadSide'
  <2>1. /\ UNCHANGED <<held, upload, sync>> /\ observed \subseteq observed'
        /\ job'.request = job.request /\ job'.todo = job.todo \ {p} /\ p \in job.todo
        /\ job.fresh = None
    BY <1>1, <1>a DEF TakeItem, phones, Observed, JobRecord
  <2>2. \/ job'.done = job.done /\ job'.fresh = None
        \/ job'.done = job.done \cup {p} /\ <<job.request.g, p>> \in observed'
              /\ (p \in held \/ job'.fresh = p)
    BY <1>1, <1>a DEF TakeItem, Observed, Outcome, JobRecord
  <2>3. None \notin job.done  BY <1>a, NoneAssumption DEF JobRecord, Offered
  <2>4. \A q \in job'.done : <<job'.request.g, q>> \in observed' /\ (q \in held' \/ q = job'.fresh)
    BY <2>1, <2>2, <2>3, <1>a DEF UploadSide
  <2> QED  BY <2>1, <2>4, <1>a DEF UploadSide, UploadedIsHeld, Done
<1>2. CASE PutPacket
  <2>1. /\ UNCHANGED <<observed, upload, sync>> /\ held' = held \cup {job.fresh}
        /\ job'.request = job.request /\ job'.todo = job.todo /\ job'.done = job.done
    BY <1>2, <1>a DEF PutPacket, phones, JobRecord
  <2> QED  BY <2>1, <1>a DEF UploadSide, UploadedIsHeld, Done
<1>3. CASE Enqueue
  <2>1. UNCHANGED <<held, observed, upload, sync>>  BY <1>3 DEF Enqueue, phones
  <2>2. \/ job'.todo = {} /\ job'.done = {}
        \/ job'.request = job.request /\ job'.todo = job.todo /\ job'.done = job.done
              /\ job'.fresh = job.fresh
    BY <1>3, <1>a DEF Enqueue, JobRecord, NoJob
  <2> QED  BY <2>1, <2>2, <1>a DEF UploadSide, UploadedIsHeld, Done
<1>4. CASE AnswerUpload
  <2> DEFINE m == job.request
  <2>1. m \in RequestRecord /\ m.g \in Gateways
    BY <1>4, <1>a DEF AnswerUpload, JobRecord, RequestRecord
  <2>2. \A p \in job.done : Done(m.g, p)
    BY <1>4, <1>a, NoneAssumption DEF AnswerUpload, UploadSide, Done, JobRecord, Offered
  <2>3. \/ UNCHANGED sync
        \/ \E at : Step(m.g, at, job.done, 0, 0)
    BY <1>4 DEF AnswerUpload, Answer
  <2>4. UNCHANGED <<held, observed, upload>> /\ job'.todo = {} /\ job'.done = {}
    BY <1>4 DEF AnswerUpload, NoJob
  <2> HIDE DEF m
  <2>5. \A h \in Gateways : sync'[h].at = "mark" => \A q \in sync'[h].items : Done(h, q)'
    <3>1. CASE UNCHANGED sync  BY <3>1, <2>4, <1>a DEF UploadSide, Done
    <3>2. ASSUME NEW at, Step(m.g, at, job.done, 0, 0)
          PROVE  \A h \in Gateways : sync'[h].at = "mark" => \A q \in sync'[h].items : Done(h, q)'
      <4>1. sync'[m.g].items = job.done /\ \A h \in Gateways : h # m.g => sync'[h] = sync[h]
        BY <3>2, <2>1, <1>a, StepEffect
      <4> QED  BY <4>1, <2>2, <2>4, <1>a DEF UploadSide, Done
    <3> QED  BY <2>3, <3>1, <3>2
  <2> QED  BY <2>4, <2>5, <1>a DEF UploadSide, UploadedIsHeld
<1>5. ASSUME NEW p \in Published, Publish(p) PROVE UploadSide'
  <2>1. UNCHANGED <<observed, upload, sync>> /\ held' = held \cup {p} /\ job'.todo = {} /\ job'.done = {}
    BY <1>5 DEF Publish, phones, NoJob
  <2> QED  BY <2>1, <1>a DEF UploadSide, UploadedIsHeld, Done
<1> QED  BY <1>1, <1>2, <1>3, <1>4, <1>5 DEF Work

LEMMA UploadStep == ASSUME IInv, [Next]_vars PROVE UploadSide'
<1>a. TypeOK /\ UploadSide /\ (job.todo # {} => job.request \in RequestRecord)
  BY DEF IInv, UploadSide
<1>1. ASSUME NEW g \in Gateways, NEW p \in Reports, Receive(g, p) PROVE UploadSide'
  <2>1. p \in Offered  BY DEF Offered, Packets
  <2>2. Ingest(g, p, now) /\ UNCHANGED <<held, observed, sync, job>>  BY <1>1 DEF Receive, backend
  <2> QED  BY <2>1, <2>2, <1>a, IngestEffect, UploadFrame
<1>2. ASSUME NEW g \in Gateways, GiveUp(g) \/ RestartPhone(g) PROVE UploadSide'
  <2>1. Stop(g) /\ job' = OrphanedJob(g) /\ UNCHANGED <<held, observed, upload>>
    BY <1>2 DEF GiveUp, RestartPhone
  <2>2. \A h \in Gateways : sync'[h].at = "mark" => sync'[h] = sync[h]
    BY <2>1, <1>a, StepEffect DEF Idle
  <2> QED  BY <2>1, <2>2, <1>a, OrphanedJobIs, UploadFrame
<1>3. CASE CrashBackend
  <2>1. job'.todo = {} /\ job'.done = {} /\ UNCHANGED <<held, observed, upload>>
    BY <1>3 DEF CrashBackend, NoJob
  <2>2. \A h \in Gateways : sync'[h] = sync[h] \/ sync'[h] = Idle  BY <1>3 DEF CrashBackend
  <2> QED  BY <2>1, <2>2, <1>a DEF UploadSide, UploadedIsHeld, Done, Idle
<1>4. CASE Tick \/ UNCHANGED vars
  BY <1>4, <1>a DEF Tick, vars, phones, backend, UploadSide, UploadedIsHeld, Done
<1> QED  BY <1>1, <1>2, <1>3, <1>4, SynchroniseUpload, AcceptUpload, WorkUpload DEF Next, Faults

-----------------------------------------------------------------------------
(* The acknowledgements *)

LEMMA AckFrame ==
  ASSUME AckSide, held \subseteq held', UNCHANGED outbound,
         \A p \in Packets : job'.due = AckFor[p] => p \in held',
         \A g \in Gateways, p \in Packets : row'[g][AckFor[p]] # 0 => p \in held'
  PROVE  AckSide'
BY DEF AckSide, InOutbound, AckIsTrue

LEMMA AckStep == ASSUME IInv, [Next]_vars PROVE AckSide'
<1>a. /\ TypeOK /\ AckSide /\ job \in JobRecord
      /\ \A p \in Packets : job.due = AckFor[p] => p \in held
      /\ \A g \in Gateways, p \in Packets : row[g][AckFor[p]] # 0 => p \in held
      /\ \A p \in Packets : AckFor[p] \in Offered /\ AckFor[p] \in Acks /\ AckFor[p] \notin Packets
      /\ \A p \in Packets : AckFor[p] # None
      /\ \A m \in requests : m.g \in Gateways
      /\ outbound \in Seq(Offered)
  <2>1. /\ \A p \in Packets : AckFor[p] \in Offered /\ AckFor[p] \in Acks /\ AckFor[p] \notin Packets
        /\ \A p \in Packets : AckFor[p] # None
    BY PacketsAssumption, NoneAssumption DEF Offered
  <2>2. TypeOK /\ AckSide  BY DEF IInv
  <2>3. job \in JobRecord /\ outbound \in Seq(Offered)  BY <2>2 DEF TypeOK, JobRecord
  <2>4. \A m \in requests : m.g \in Gateways  BY <2>2 DEF TypeOK, RequestRecord
  <2> QED  BY <2>1, <2>2, <2>3, <2>4 DEF AckSide, AckIsTrue
\* Steps that touch no row and nothing of the backend's packets.
<1>b. ASSUME UNCHANGED <<row, outbound>>, held \subseteq held',
             job'.due = job.due \/ job'.due \notin Acks
      PROVE  AckSide'
  <2>1. \A p \in Packets : job'.due = AckFor[p] => p \in held'  BY <1>a, <1>b
  <2>2. \A g \in Gateways, p \in Packets : row'[g][AckFor[p]] # 0 => p \in held'  BY <1>a, <1>b
  <2> QED  BY <2>1, <2>2, <1>a, <1>b, AckFrame
<1>n. None \notin Acks  BY NoneAssumption DEF Offered
<1>1. ASSUME NEW g \in Gateways, Synchronise(g), ~IngestNext(g) PROVE AckSide'
  <2>1. UNCHANGED <<row, outbound, held, job>>
    BY <1>1 DEF Synchronise, Probe, SendUpload, Mark, SendPoll, SendAck, backend
  <2> QED  BY <2>1, <1>b
<1>2. ASSUME NEW g \in Gateways, NEW p \in Offered, NEW time, Ingest(g, p, time),
             UNCHANGED backend, InOutbound(p) \/ p \in Packets
      PROVE  AckSide'
  <2>1. \A h \in Gateways, q \in Offered : row'[h][q] # 0 => row[h][q] # 0 \/ q = p
    BY <1>2, <1>a, IngestEffect
  <2>2. \A q \in Packets : p = AckFor[q] => q \in held  BY <1>2, <1>a DEF AckSide
  <2>3. \A h \in Gateways, q \in Packets : row'[h][AckFor[q]] # 0 => q \in held  BY <2>1, <2>2, <1>a
  <2> QED  BY <2>3, <1>2, <1>a, AckFrame DEF backend
<1>3. ASSUME NEW g \in Gateways, IngestNext(g) PROVE AckSide'
  <2> DEFINE n == sync[g].next
             p == outbound[n]
  <2>1. n \in 1..Len(outbound)
    BY <1>3 DEF IngestNext, IInv, DownSide, TypeOK, SyncRecord
  <2>2. p \in Offered /\ InOutbound(p)  BY <2>1, <1>a DEF InOutbound
  <2>3. Ingest(g, p, sync[g].time) /\ UNCHANGED backend  BY <1>3 DEF IngestNext
  <2> HIDE DEF n, p
  <2> QED  BY <2>2, <2>3, <1>2
<1>4. ASSUME NEW g \in Gateways, NEW p \in Reports, Receive(g, p) PROVE AckSide'
  <2>1. p \in Offered /\ p \in Packets  BY DEF Offered, Packets
  <2> QED  BY <2>1, <1>2, <1>4 DEF Receive
<1>5. ASSUME NEW g \in Gateways, Accept(g) PROVE AckSide'
  <2>1. UNCHANGED <<row, outbound, held>>
    BY <1>5 DEF Accept, Register, BeginUpload, AnswerPoll, AnswerAck, backend, phones
  <2>2. job'.due = job.due \/ job'.due = None
    BY <1>5 DEF Accept, Register, BeginUpload, AnswerPoll, AnswerAck, backend, NoJob
  <2> QED  BY <2>1, <2>2, <1>b, <1>n
<1>6. ASSUME NEW p \in Offered, TakeItem(p) PROVE AckSide'
  BY <1>6, <1>a, <1>b DEF TakeItem, phones, JobRecord
<1>7. CASE PutPacket
  <2>1. job.fresh \in Packets /\ held' = held \cup {job.fresh} /\ job'.due = AckFor[job.fresh]
    BY <1>7, <1>a DEF PutPacket, JobRecord
  <2>2. \A p \in Packets : job'.due = AckFor[p] => p \in held'  BY <2>1, PacketsAssumption
  <2>3. UNCHANGED <<row, outbound>>  BY <1>7 DEF PutPacket, phones
  <2> QED  BY <2>1, <2>2, <2>3, <1>a, AckFrame
<1>8. CASE Enqueue
  <2>1. /\ UNCHANGED <<row, held>>
        /\ outbound' = outbound \/ outbound' = Append(outbound, job.due)
        /\ job'.due = None
    BY <1>8, <1>a DEF Enqueue, phones, NoJob, JobRecord
  <2>2. job.due \in Offered  BY <1>8, <1>a DEF Enqueue, JobRecord
  <2>3. \A p \in Offered : InOutbound(p)' => InOutbound(p) \/ job.due = p
    BY <2>1, <2>2, <1>a DEF InOutbound
  <2> QED  BY <2>1, <2>3, <1>a DEF AckSide, AckIsTrue
<1>9. CASE AnswerUpload
  BY <1>9, <1>b, <1>n DEF AnswerUpload, NoJob
<1>10. ASSUME NEW p \in Published, Publish(p) PROVE AckSide'
  <2>1. p \notin Acks  BY PacketsAssumption DEF Packets
  <2> QED  BY <2>1, <1>10, <1>b DEF Publish, phones, NoJob
<1>11. ASSUME NEW g \in Gateways, GiveUp(g) \/ RestartPhone(g) PROVE AckSide'
  <2>1. job'.due = job.due  BY <1>11, OrphanedJobIs DEF GiveUp, RestartPhone
  <2> QED  BY <2>1, <1>11, <1>b DEF GiveUp, RestartPhone
<1>12. CASE CrashBackend
  BY <1>12, <1>b, <1>n DEF CrashBackend, NoJob
<1>13. CASE Tick \/ UNCHANGED vars
  BY <1>13, <1>b DEF Tick, vars, phones, backend
<1> QED
  BY <1>1, <1>3, <1>4, <1>5, <1>6, <1>7, <1>8, <1>9, <1>10, <1>11, <1>12, <1>13 DEF Next, Work, Faults

-----------------------------------------------------------------------------
(* The download *)

\* A phone that goes on leaves no live request behind, a phone that sends has none.
LEMMA NoneLive ==
  ASSUME IInv, NEW g \in Gateways, sync[g].at # "await"
  PROVE  /\ \A m \in requests : m.g = g => ~m.live
         /\ job.request # None /\ job.request.live => job.request.g # g
BY DEF IInv, OneLive

LEMMA SendLive ==
  ASSUME IInv, NEW g \in Gateways, sync[g].at # "await", NEW r, r.g = g,
         requests' = requests \cup {r}, UNCHANGED job,
         sync'[g].at = "await", \A h \in Gateways : h # g => sync'[h] = sync[h]
  PROVE  OneLive'
<1>a. /\ OneLive /\ \A m \in requests : m.g = g => ~m.live
      /\ job.request # None /\ job.request.live => job.request.g # g
      /\ \A m \in requests : m.g \in Gateways
  BY NoneLive DEF IInv, TypeOK, RequestRecord
<1>1. \A m \in requests' : m.live => sync'[m.g].at = "await"  BY <1>a DEF OneLive
<1>2. \A m, n \in requests' : m.live /\ n.live /\ m.g = n.g => m = n  BY <1>a DEF OneLive
<1>3. job.request # None /\ job.request.live => job.request.g \in Gateways
  BY DEF IInv, TypeOK, RequestRecord
<1>4. job'.request # None /\ job'.request.live =>
        /\ sync'[job'.request.g].at = "await"
        /\ \A m \in requests' : m.live => m.g # job'.request.g
  BY <1>a, <1>3 DEF OneLive
<1> QED  BY <1>1, <1>2, <1>4 DEF OneLive

\* Phone h stops waiting, or stays where it is; its live request is gone.
LEMMA LeaveLive ==
  ASSUME IInv, NEW g \in Gateways,
         \A m \in requests' : m.live => m \in requests /\ m.g # g,
         job'.request # None /\ job'.request.live =>
           job'.request = job.request /\ job.request.g # g,
         \A h \in Gateways : h # g => sync'[h] = sync[h]
  PROVE  OneLive'
<1>a. OneLive /\ \A m \in requests : m.g \in Gateways
  BY DEF IInv, TypeOK, RequestRecord
<1>1. \A m \in requests' : m.live => sync'[m.g].at = "await"  BY <1>a DEF OneLive
<1>2. \A m, n \in requests' : m.live /\ n.live /\ m.g = n.g => m = n  BY <1>a DEF OneLive
<1>3. job.request # None /\ job.request.live => job.request.g \in Gateways
  BY DEF IInv, TypeOK, RequestRecord
<1>4. job'.request # None /\ job'.request.live =>
        /\ sync'[job'.request.g].at = "await"
        /\ \A m \in requests' : m.live => m.g # job'.request.g
  BY <1>a, <1>3 DEF OneLive
<1> QED  BY <1>1, <1>2, <1>4 DEF OneLive

LEMMA OrphanedIs ==
  ASSUME IInv, NEW g \in Gateways
  PROVE  /\ \A m \in Orphaned(g) : m.live => m \in requests /\ m.g # g
         /\ job' = OrphanedJob(g) /\ job'.request # None /\ job'.request.live =>
              job'.request = job.request /\ job.request.g # g
<1>1. \A m \in requests : [m EXCEPT !.live = FALSE].live = FALSE
  BY DEF IInv, TypeOK, RequestRecord
<1>2. \A m \in Orphaned(g) : m.live => m \in requests /\ m.g # g  BY <1>1 DEF Orphaned
<1>3. ASSUME job' = OrphanedJob(g), job'.request # None, job'.request.live
      PROVE  job'.request = job.request /\ job.request.g # g
  <2>1. job \in JobRecord  BY DEF IInv, TypeOK, JobRecord
  <2>2. CASE job.request # None /\ job.request.g = g
    <3>1. job.request \in RequestRecord  BY <2>1, <2>2 DEF JobRecord
    <3>2. job'.request = [job.request EXCEPT !.live = FALSE]
      BY <1>3, <2>1, <2>2 DEF OrphanedJob, JobRecord
    <3> QED  BY <3>1, <3>2, <1>3 DEF RequestRecord
  <2>3. CASE ~(job.request # None /\ job.request.g = g)
    <3>1. job' = job  BY <1>3, <2>3 DEF OrphanedJob
    <3> QED  BY <3>1, <1>3, <2>3
  <2> QED  BY <2>2, <2>3
<1> QED  BY <1>2, <1>3

\* An answered request is gone, and its phone goes on if it still waited.
LEMMA AnswerLive ==
  ASSUME IInv, NEW m \in requests, requests' = requests \ {m}, UNCHANGED job, job = NoJob,
         ~m.live => UNCHANGED sync,
         m.live => \A h \in Gateways : h # m.g => sync'[h] = sync[h]
  PROVE  OneLive'
<1>a. m.g \in Gateways /\ job'.request = None  BY DEF IInv, TypeOK, RequestRecord, NoJob
<1>1. CASE m.live
  <2>1. \A n \in requests' : n.live => n \in requests /\ n.g # m.g  BY <1>1 DEF IInv, OneLive
  <2> QED  BY <1>1, <1>a, <2>1, LeaveLive
<1>2. CASE ~m.live
  BY <1>2, <1>a DEF IInv, OneLive
<1> QED  BY <1>1, <1>2

LEMMA LiveStep == ASSUME IInv, [Next]_vars PROVE OneLive'
<1>a. /\ TypeOK /\ OneLive /\ \A m \in requests : m.g \in Gateways
      /\ sync \in [Gateways -> SyncRecord]
  BY DEF IInv, TypeOK, RequestRecord
\* Steps of a phone that does not wait and sends nothing.
<1>b. ASSUME NEW g \in Gateways, UNCHANGED <<requests, job>>, sync[g].at # "await",
             \A h \in Gateways : h # g => sync'[h] = sync[h]
      PROVE  OneLive'
  BY <1>b, NoneLive, LeaveLive
\* Steps that send.
<1>c. ASSUME NEW g \in Gateways, NEW stage, NEW items, NEW from, NEW to, sync[g].at # "await",
             Await(g, stage, items, from, to), UNCHANGED job
      PROVE  OneLive'
  <2> DEFINE r == Request(g, stage, items, from)
  <2>1. r.g = g  BY DEF Request
  <2>2. requests' = requests \cup {r} /\ Step(g, "await", items, to, from)  BY <1>c DEF Await
  <2> HIDE DEF r
  <2>3. sync'[g].at = "await" /\ \A h \in Gateways : h # g => sync'[h] = sync[h]
    BY <2>2, <1>a, StepEffect
  <2> QED  BY <2>1, <2>2, <2>3, <1>c, SendLive
<1>1. ASSUME NEW g \in Gateways, Probe(g) PROVE OneLive'
  <2> DEFINE r == Request(g, "register", {}, 0)
  <2>1. r.g = g /\ sync[g].at # "await"  BY <1>1 DEF Request, Probe, Idle
  <2>2. requests' = requests \cup {r} /\ UNCHANGED job  BY <1>1 DEF Probe, backend
  <2> HIDE DEF r
  <2>3. sync'[g].at = "await" /\ \A h \in Gateways : h # g => sync'[h] = sync[h]
    BY <1>1, <1>a DEF Probe, Idle
  <2> QED  BY <2>1, <2>2, <2>3, SendLive
<1>2. ASSUME NEW g \in Gateways, SendUpload(g) PROVE OneLive'
  <2>1. sync[g].at # "await" /\ UNCHANGED job  BY <1>2 DEF SendUpload, backend
  <2>2. \/ Step(g, "poll", {}, 0, 0) /\ UNCHANGED requests
        \/ Await(g, "upload", Batch(g), 0, 0)
    BY <1>2 DEF SendUpload
  <2>3. CASE Step(g, "poll", {}, 0, 0) /\ UNCHANGED requests  BY <2>1, <2>3, <1>a, <1>b, StepEffect
  <2>4. CASE Await(g, "upload", Batch(g), 0, 0)  BY <2>1, <2>4, <1>c
  <2> QED  BY <2>2, <2>3, <2>4
<1>3. ASSUME NEW g \in Gateways, NEW p \in Offered, Mark(g, p) PROVE OneLive'
  <2>1. sync[g].at # "await" /\ UNCHANGED <<requests, job>>  BY <1>3 DEF Mark, backend
  <2>2. \E at, items : Step(g, at, items, 0, 0)  BY <1>3 DEF Mark
  <2> QED  BY <2>1, <2>2, <1>a, <1>b, StepEffect
<1>4. ASSUME NEW g \in Gateways, SendPoll(g) \/ SendAck(g) PROVE OneLive'
  <2>1. sync[g].at # "await" /\ UNCHANGED job  BY <1>4 DEF SendPoll, SendAck, backend
  <2>2. \/ Await(g, "poll", {}, cursor[g], 0)
        \/ Await(g, "ack", {}, sync[g].to, sync[g].to)
    BY <1>4 DEF SendPoll, SendAck
  <2> QED  BY <2>1, <2>2, <1>c
<1>5. ASSUME NEW g \in Gateways, IngestNext(g) PROVE OneLive'
  <2>1. sync[g].at # "await" /\ UNCHANGED <<requests, job>>  BY <1>5 DEF IngestNext, backend
  <2>2. \E at, to, next : Step(g, at, {}, to, next)  BY <1>5 DEF IngestNext
  <2> QED  BY <2>1, <2>2, <1>a, <1>b, StepEffect
<1>6. ASSUME NEW m \in requests, Register(m) \/ AnswerPoll(m) \/ AnswerAck(m) PROVE OneLive'
  <2>1. /\ requests' = requests \ {m} /\ UNCHANGED job /\ job = NoJob
        /\ (~m.live => UNCHANGED sync)
        /\ m.live => Stop(m.g) \/ \E at, items, to, next : Step(m.g, at, items, to, next)
    BY <1>6 DEF Register, AnswerPoll, AnswerAck, Answer, Finish, backend
  <2>2. m.live => \A h \in Gateways : h # m.g => sync'[h] = sync[h]  BY <2>1, <1>a, StepEffect
  <2> QED  BY <2>1, <2>2, AnswerLive
<1>7. ASSUME NEW m \in requests, BeginUpload(m) PROVE OneLive'
  BY <1>7, <1>a DEF BeginUpload, OneLive, NoJob, phones
<1>8. ASSUME UNCHANGED <<requests, sync>>, job'.request = job.request PROVE OneLive'
  BY <1>8, <1>a DEF OneLive
<1>9. ASSUME NEW p \in Offered, TakeItem(p) PROVE OneLive'
  <2>1. job'.request = job.request  BY <1>9 DEF TakeItem, IInv, TypeOK
  <2> QED  BY <2>1, <1>8, <1>9 DEF TakeItem, phones
<1>10. CASE PutPacket
  <2>1. job'.request = job.request  BY <1>10 DEF PutPacket, IInv, TypeOK
  <2> QED  BY <2>1, <1>8, <1>10 DEF PutPacket, phones
<1>11. CASE Enqueue
  <2>1. job'.request = job.request  BY <1>11 DEF Enqueue, NoJob, IInv, TypeOK
  <2> QED  BY <2>1, <1>8, <1>11 DEF Enqueue, phones
<1>12. CASE AnswerUpload
  <2> DEFINE m == job.request
  <2>1. /\ m \in RequestRecord /\ m.g \in Gateways /\ m # None
        /\ job'.request = None /\ UNCHANGED requests
    BY <1>12 DEF AnswerUpload, NoJob, IInv, TypeOK, RequestRecord
  <2>2. /\ (~m.live => UNCHANGED sync)
        /\ m.live => \E at : Step(m.g, at, job.done, 0, 0)
    BY <1>12 DEF AnswerUpload, Answer
  <2>3. m.live => \A n \in requests : n.live => n.g # m.g  BY <2>1, <1>a DEF OneLive
  <2> HIDE DEF m
  <2>4. CASE m.live
    <3>1. \A h \in Gateways : h # m.g => sync'[h] = sync[h]  BY <2>4, <2>2, <2>1, <1>a, StepEffect
    <3> QED  BY <3>1, <2>1, <2>3, <2>4, LeaveLive
  <2>5. CASE ~m.live  BY <2>5, <2>1, <2>2, <1>a DEF OneLive
  <2> QED  BY <2>4, <2>5
<1>13. ASSUME NEW p \in Published, Publish(p) PROVE OneLive'
  <2>1. job'.request = job.request  BY <1>13 DEF Publish, NoJob
  <2> QED  BY <2>1, <1>8, <1>13 DEF Publish, phones
<1>14. ASSUME NEW g \in Gateways, NEW p \in Reports, Receive(g, p) PROVE OneLive'
  BY <1>14, <1>8 DEF Receive, backend
<1>15. ASSUME NEW g \in Gateways, GiveUp(g) \/ RestartPhone(g) PROVE OneLive'
  <2>1. Stop(g) /\ requests' = Orphaned(g) /\ job' = OrphanedJob(g)
    BY <1>15 DEF GiveUp, RestartPhone
  <2>2. \A h \in Gateways : h # g => sync'[h] = sync[h]  BY <2>1, <1>a, StepEffect
  <2> QED  BY <2>1, <2>2, OrphanedIs, LeaveLive
<1>16. CASE CrashBackend  BY <1>16 DEF CrashBackend, OneLive, NoJob
<1>17. CASE Tick \/ UNCHANGED vars
  BY <1>17, <1>8 DEF Tick, vars, phones, backend
<1> QED
  BY <1>1, <1>2, <1>3, <1>4, <1>5, <1>6, <1>7, <1>9, <1>10, <1>11, <1>12, <1>13, <1>14, <1>15, <1>16, <1>17
     DEF Next, Synchronise, Accept, Work, Faults

\* What was handed stays handed.
LEMMA HandedGrows ==
  ASSUME TypeOK, Len(outbound) <= Len(outbound'),
         \A i \in 1..Len(outbound) : outbound'[i] = outbound[i],
         \A g \in Gateways : handed[g] \subseteq handed'[g],
         Len(outbound') \in Nat,
         NEW g \in Gateways, NEW n \in Int, HandedTo(g, n)
  PROVE  n <= Len(outbound') /\ \A i \in 1..n : outbound'[i] \in handed'[g]
<1>1. n <= Len(outbound) /\ Len(outbound) \in Nat  BY DEF HandedTo, TypeOK
<1>2. \A i \in 1..n : i \in 1..Len(outbound)  BY <1>1
<1> QED  BY <1>1, <1>2 DEF HandedTo

\* What a step must not disturb for the download side to stay true.
LEMMA DownFrame ==
  ASSUME IInv, Len(outbound) <= Len(outbound'), Len(outbound') \in Nat,
         \A i \in 1..Len(outbound) : outbound'[i] = outbound[i],
         \A g \in Gateways : handed[g] \subseteq handed'[g],
         \A m \in requests' : m.live /\ m.stage \in {"poll", "ack"} =>
           m \in requests /\ cursor'[m.g] = cursor[m.g],
         \A g \in Gateways : sync'[g].at \in {"ingest", "ack"} => sync'[g] = sync[g],
         UNCHANGED cursor \/ \A g \in Gateways : cursor'[g] \in {0, cursor[g]}
  PROVE  DownSide'
<1>a. /\ TypeOK /\ DownSide /\ \A m \in requests : m.g \in Gateways /\ m.from \in Nat
      /\ \A g \in Gateways : sync[g].to \in Nat /\ sync[g].next \in Nat /\ cursor[g] \in Nat
  <2>1. TypeOK /\ DownSide  BY DEF IInv
  <2>2. \A m \in requests : m.g \in Gateways /\ m.from \in Nat  BY <2>1 DEF TypeOK, RequestRecord
  <2>3. \A g \in Gateways : sync[g].to \in Nat /\ sync[g].next \in Nat  BY <2>1 DEF TypeOK, SyncRecord
  <2>4. \A g \in Gateways : cursor[g] \in Nat  BY <2>1 DEF TypeOK
  <2> QED  BY <2>1, <2>2, <2>3, <2>4
<1>g. \A g \in Gateways, n \in Int : HandedTo(g, n) =>
        n <= Len(outbound') /\ \A i \in 1..n : outbound'[i] \in handed'[g]
  BY <1>a, HandedGrows
<1>1. \A m \in requests' : m.live /\ m.stage = "poll" => m.from = cursor'[m.g]  BY <1>a DEF DownSide
<1>2. ASSUME NEW m \in requests', m.live, m.stage = "ack"
      PROVE  m.from <= Len(outbound') /\ \A i \in 1..m.from : outbound'[i] \in handed'[m.g]
  BY <1>2, <1>a, <1>g DEF DownSide
<1>3. ASSUME NEW g \in Gateways, sync'[g].at = "ingest"
      PROVE  /\ sync'[g].next \in 1..sync'[g].to /\ sync'[g].to <= Len(outbound')
             /\ sync'[g].next - 1 <= Len(outbound')
             /\ \A i \in 1..(sync'[g].next - 1) : outbound'[i] \in handed'[g]
  <2>1. sync'[g] = sync[g] /\ sync[g].next - 1 \in Int /\ HandedTo(g, sync[g].next - 1)
    BY <1>3, <1>a DEF DownSide
  <2>2. sync[g].next \in 1..sync[g].to /\ sync[g].to <= Len(outbound) /\ Len(outbound) \in Nat
    BY <1>3, <2>1, <1>a DEF DownSide, TypeOK
  <2> QED  BY <2>1, <2>2, <1>a, <1>g
<1>4. ASSUME NEW g \in Gateways, sync'[g].at = "ack"
      PROVE  sync'[g].to <= Len(outbound') /\ \A i \in 1..sync'[g].to : outbound'[i] \in handed'[g]
  BY <1>4, <1>a, <1>g DEF DownSide
<1>5. ASSUME NEW g \in Gateways
      PROVE  cursor'[g] <= Len(outbound') /\ \A i \in 1..cursor'[g] : outbound'[i] \in handed'[g]
  <2>1. CASE cursor'[g] = cursor[g]  BY <2>1, <1>a, <1>g DEF DownSide
  <2>2. CASE cursor'[g] = 0  BY <2>2
  <2> QED  BY <2>1, <2>2
<1> QED  BY <1>1, <1>2, <1>3, <1>4, <1>5 DEF DownSide, HandedTo

\* The frame of a step that leaves outbound, handed and the cursors alone.
LEMMA DownStill ==
  ASSUME IInv, UNCHANGED <<outbound, handed, cursor>>,
         \A m \in requests' : m.live /\ m.stage \in {"poll", "ack"} => m \in requests,
         \A g \in Gateways : sync'[g].at \in {"ingest", "ack"} => sync'[g] = sync[g]
  PROVE  DownSide'
<1>1. Len(outbound) \in Nat  BY DEF IInv, TypeOK
<1> QED  BY <1>1, DownFrame

LEMMA SynchroniseDown == ASSUME IInv, NEW g \in Gateways, Synchronise(g) PROVE DownSide'
<1>a. /\ TypeOK /\ DownSide /\ OneLive /\ sync \in [Gateways -> SyncRecord]
      /\ handed \in [Gateways -> SUBSET Offered] /\ Len(outbound) \in Nat
      /\ sync[g].to \in Nat /\ sync[g].next \in Nat
      /\ \A m \in requests : m.g \in Gateways /\ m.from \in Nat
      /\ \A h \in Gateways : sync[h].to \in Nat /\ sync[h].next \in Nat /\ cursor[h] \in Nat
  <2>1. TypeOK /\ DownSide /\ OneLive  BY DEF IInv
  <2>2. \A m \in requests : m.g \in Gateways /\ m.from \in Nat  BY <2>1 DEF TypeOK, RequestRecord
  <2>3. \A h \in Gateways : sync[h].to \in Nat /\ sync[h].next \in Nat  BY <2>1 DEF TypeOK, SyncRecord
  <2>4. \A h \in Gateways : cursor[h] \in Nat  BY <2>1 DEF TypeOK
  <2>5. sync \in [Gateways -> SyncRecord] /\ handed \in [Gateways -> SUBSET Offered] /\ Len(outbound) \in Nat
    BY <2>1 DEF TypeOK
  <2> QED  BY <2>1, <2>2, <2>3, <2>4, <2>5
<1>1. CASE Probe(g)
  <2>1. \A h \in Gateways : sync'[h].at \in {"ingest", "ack"} => sync'[h] = sync[h]
    BY <1>1, <1>a DEF Probe, Idle
  <2>2. \A m \in requests' : m.live /\ m.stage \in {"poll", "ack"} => m \in requests
    BY <1>1 DEF Probe, Request
  <2> QED  BY <2>1, <2>2, <1>1, DownStill DEF Probe, backend
<1>2. CASE SendUpload(g)
  <2>1. \E at \in {"poll", "await"} : \E items, to, next : Step(g, at, items, to, next)
    BY <1>2 DEF SendUpload, Await
  <2>2. \A h \in Gateways : sync'[h].at \in {"ingest", "ack"} => sync'[h] = sync[h]
    BY <2>1, <1>a, StepEffect
  <2>3. \A m \in requests' : m.live /\ m.stage \in {"poll", "ack"} => m \in requests
    BY <1>2 DEF SendUpload, Await, Request
  <2> QED  BY <2>2, <2>3, <1>2, DownStill DEF SendUpload, backend
<1>3. ASSUME NEW p \in Offered, Mark(g, p) PROVE DownSide'
  <2>1. \E at \in {"poll", "mark"} : \E items : Step(g, at, items, 0, 0)  BY <1>3 DEF Mark
  <2>2. \A h \in Gateways : sync'[h].at \in {"ingest", "ack"} => sync'[h] = sync[h]
    BY <2>1, <1>a, StepEffect
  <2> QED  BY <2>2, <1>3, DownStill DEF Mark, backend
<1>4. CASE SendPoll(g) \/ SendAck(g)
  <2>1. \/ Await(g, "poll", {}, cursor[g], 0)
        \/ Await(g, "ack", {}, sync[g].to, sync[g].to) /\ HandedTo(g, sync[g].to)
    BY <1>4, <1>a DEF SendPoll, SendAck, DownSide
  <2>2. \E items, to, next : Step(g, "await", items, to, next)  BY <2>1 DEF Await
  <2>3. \A h \in Gateways : sync'[h].at \in {"ingest", "ack"} => sync'[h] = sync[h]
    BY <2>2, <1>a, StepEffect
  <2>4. UNCHANGED <<outbound, handed, cursor>>  BY <1>4 DEF SendPoll, SendAck, backend
  <2>5. \A m \in requests' : m \in requests \/ (m.g = g /\ m.stage = "poll" /\ m.from = cursor[g])
          \/ (m.g = g /\ m.stage = "ack" /\ HandedTo(g, m.from))
    BY <2>1 DEF Await, Request
  <2>6. \A m \in requests' : m.live /\ m.stage = "poll" => m.from = cursor'[m.g]
    BY <2>4, <2>5, <1>a DEF DownSide
  <2>7. \A m \in requests' : m.live /\ m.stage = "ack" => HandedTo(m.g, m.from)'
    BY <2>4, <2>5, <1>a DEF DownSide, HandedTo
  <2> QED  BY <2>3, <2>4, <2>6, <2>7, <1>a DEF DownSide, HandedTo
<1>5. CASE IngestNext(g)
  <2> DEFINE n == sync[g].next
             to == sync[g].to
             p == outbound[n]
  <2>1. n \in 1..to /\ to <= Len(outbound) /\ HandedTo(g, n - 1) /\ n \in Nat /\ to \in Nat
    BY <1>5, <1>a DEF IngestNext, DownSide
  <2>2. /\ handed' = [handed EXCEPT ![g] = @ \cup {p}] /\ UNCHANGED <<outbound, cursor, requests>>
        /\ IF n = to THEN Step(g, "ack", {}, to, n + 1) ELSE Step(g, "ingest", {}, to, n + 1)
    BY <1>5 DEF IngestNext, backend
  <2>3. p = outbound[n]  OBVIOUS
  <2> HIDE DEF n, to, p
  <2>4. handed'[g] = handed[g] \cup {p} /\ \A h \in Gateways : h # g => handed'[h] = handed[h]
    BY <2>2, <1>a
  <2>5. n <= Len(outbound) /\ \A i \in 1..n : outbound'[i] \in handed'[g]
    <3>1. \A i \in 1..(n - 1) : outbound[i] \in handed[g]  BY <2>1 DEF HandedTo
    <3> QED  BY <3>1, <2>1, <2>2, <2>3, <2>4, <1>a
  <2>6. /\ sync'[g].to = to /\ sync'[g].next = n + 1
        /\ IF n = to THEN sync'[g].at = "ack" ELSE sync'[g].at = "ingest"
        /\ \A h \in Gateways : h # g => sync'[h] = sync[h]
    BY <2>2, <1>a, StepEffect
  <2>7. \A h \in Gateways, k \in Int : HandedTo(h, k) =>
          k <= Len(outbound') /\ \A i \in 1..k : outbound'[i] \in handed'[h]
    BY <2>2, <2>4, <1>a, HandedGrows
  <2>9. ASSUME NEW h \in Gateways, sync'[h].at = "ingest"
        PROVE  /\ sync'[h].next \in 1..sync'[h].to /\ sync'[h].to <= Len(outbound')
               /\ sync'[h].next - 1 <= Len(outbound')
               /\ \A i \in 1..(sync'[h].next - 1) : outbound'[i] \in handed'[h]
    <3>1. CASE h # g
      <4>1. sync'[h] = sync[h] /\ HandedTo(h, sync[h].next - 1) /\ sync[h].next - 1 \in Int
            /\ sync[h].next \in 1..sync[h].to /\ sync[h].to <= Len(outbound)
        BY <2>9, <3>1, <2>6, <1>a DEF DownSide
      <4> QED  BY <4>1, <2>7, <2>2
    <3>2. CASE h = g
      <4>1. n # to /\ sync'[g].next - 1 = n  BY <3>2, <2>9, <2>6, <2>1
      <4>2. n + 1 \in 1..to  BY <4>1, <2>1
      <4> QED  BY <3>2, <4>1, <4>2, <2>1, <2>2, <2>5, <2>6
    <3> QED  BY <3>1, <3>2
  <2>10. ASSUME NEW h \in Gateways, sync'[h].at = "ack"
         PROVE  sync'[h].to <= Len(outbound') /\ \A i \in 1..sync'[h].to : outbound'[i] \in handed'[h]
    <3>1. CASE h # g
      <4>1. sync'[h] = sync[h] /\ HandedTo(h, sync[h].to) /\ sync[h].to \in Int
        BY <2>10, <3>1, <2>6, <1>a DEF DownSide
      <4> QED  BY <4>1, <2>7
    <3>2. CASE h = g
      <4>1. n = to  BY <3>2, <2>10, <2>6
      <4> QED  BY <3>2, <4>1, <2>1, <2>2, <2>5, <2>6
    <3> QED  BY <3>1, <3>2
  <2>11. ASSUME NEW m \in requests', m.live, m.stage = "ack"
         PROVE  m.from <= Len(outbound') /\ \A i \in 1..m.from : outbound'[i] \in handed'[m.g]
    BY <2>11, <2>2, <2>7, <1>a DEF DownSide
  <2>12. ASSUME NEW h \in Gateways
         PROVE  cursor'[h] <= Len(outbound') /\ \A i \in 1..cursor'[h] : outbound'[i] \in handed'[h]
    <3>1. HandedTo(h, cursor[h]) /\ cursor[h] \in Int /\ cursor' = cursor  BY <2>2, <1>a DEF DownSide
    <3> QED  BY <3>1, <2>7
  <2>13. \A m \in requests' : m.live /\ m.stage = "poll" => m.from = cursor'[m.g]
    BY <2>2, <1>a DEF DownSide
  <2> QED  BY <2>9, <2>10, <2>11, <2>12, <2>13 DEF DownSide, HandedTo
<1> QED  BY <1>1, <1>2, <1>3, <1>4, <1>5 DEF Synchronise

LEMMA AcceptDown == ASSUME IInv, NEW g \in Gateways, Accept(g) PROVE DownSide'
<1>a. /\ TypeOK /\ DownSide /\ OneLive /\ Len(outbound) \in Nat
      /\ \A m \in requests : m.g \in Gateways /\ m.from \in Nat
      /\ cursor \in [Gateways -> 0..Len(outbound)]
  BY DEF IInv, TypeOK, RequestRecord
<1>1. ASSUME NEW m \in requests, Register(m) \/ BeginUpload(m) PROVE DownSide'
  <2>1. UNCHANGED sync \/ Step(m.g, "upload", {}, 0, 0)
    BY <1>1 DEF Register, BeginUpload, Answer, phones
  <2>2. \A h \in Gateways : sync'[h].at \in {"ingest", "ack"} => sync'[h] = sync[h]
    BY <2>1, <1>a, StepEffect
  <2>3. requests' \subseteq requests /\ UNCHANGED <<outbound, handed, cursor>>
    BY <1>1 DEF Register, BeginUpload, phones
  <2> QED  BY <2>2, <2>3, DownStill
<1>2. ASSUME NEW m \in requests, AnswerPoll(m) PROVE DownSide'
  <2> DEFINE end == PageEnd(m.from)
  <2>1. /\ requests' = requests \ {m} /\ UNCHANGED <<outbound, handed, cursor>>
        /\ \/ UNCHANGED sync \/ Stop(m.g)
           \/ /\ m.live /\ m.stage = "poll" /\ ~(end <= m.from)
              /\ Step(m.g, "ingest", {}, end, m.from + 1)
    BY <1>2 DEF AnswerPoll, Finish, Answer, backend
  <2>2. end \in Nat /\ end <= Len(outbound)  BY <1>a, PageEndIs
  <2> HIDE DEF end
  <2>3. CASE UNCHANGED sync \/ Stop(m.g)
    <3>1. \A h \in Gateways : sync'[h].at \in {"ingest", "ack"} => sync'[h] = sync[h]
      BY <2>3, <1>a, StepEffect DEF Idle
    <3> QED  BY <3>1, <2>1, DownStill
  <2>4. CASE /\ m.live /\ m.stage = "poll" /\ ~(end <= m.from)
             /\ Step(m.g, "ingest", {}, end, m.from + 1)
    <3>1. /\ sync'[m.g].at = "ingest" /\ sync'[m.g].to = end /\ sync'[m.g].next = m.from + 1
          /\ \A h \in Gateways : h # m.g => sync'[h] = sync[h]
      BY <2>4, <1>a, StepEffect
    <3>2. m.from = cursor[m.g] /\ HandedTo(m.g, m.from)  BY <2>4, <1>a DEF DownSide
    <3>3. m.from + 1 \in 1..end /\ m.from + 1 - 1 = m.from  BY <2>2, <2>4, <1>a
    <3>4. \A h \in Gateways : sync'[h].at = "ingest" =>
            /\ sync'[h].next \in 1..sync'[h].to /\ sync'[h].to <= Len(outbound)
            /\ HandedTo(h, sync'[h].next - 1)
      BY <3>1, <3>2, <3>3, <2>2, <1>a DEF DownSide
    <3>5. \A h \in Gateways : sync'[h].at = "ack" => HandedTo(h, sync'[h].to)
      BY <3>1, <1>a DEF DownSide
    <3>6. /\ \A k \in requests' : k.live /\ k.stage = "poll" => k.from = cursor[k.g]
          /\ \A k \in requests' : k.live /\ k.stage = "ack" => HandedTo(k.g, k.from)
          /\ \A h \in Gateways : HandedTo(h, cursor[h])
      BY <2>1, <1>a DEF DownSide
    <3> QED  BY <3>4, <3>5, <3>6, <2>1 DEF DownSide, HandedTo
  <2> QED  BY <2>1, <2>3, <2>4
<1>3. ASSUME NEW m \in requests, AnswerAck(m) PROVE DownSide'
  <2>1. /\ requests' = requests \ {m} /\ UNCHANGED <<outbound, handed>> /\ Finish(m)
        /\ m.stage = "ack"
        /\ cursor' = IF m.live THEN [cursor EXCEPT ![m.g] = m.from] ELSE cursor
    BY <1>3 DEF AnswerAck, backend
  <2>2. UNCHANGED sync \/ Stop(m.g)  BY <2>1 DEF Finish
  <2>3. \A h \in Gateways : sync'[h].at \in {"ingest", "ack"} => sync'[h] = sync[h]
    BY <2>2, <1>a, StepEffect DEF Idle
  <2>4. CASE ~m.live  BY <2>1, <2>3, <2>4, DownStill
  <2>5. CASE m.live
    <3>1. /\ cursor'[m.g] = m.from /\ \A h \in Gateways : h # m.g => cursor'[h] = cursor[h]
      BY <2>1, <2>5, <1>a
    <3>2. \A k \in requests' : k.live => k \in requests /\ k.g # m.g  BY <2>1, <2>5, <1>a DEF OneLive
    <3>3. HandedTo(m.g, m.from)  BY <2>1, <2>5, <1>a DEF DownSide
    <3>4. \A h \in Gateways : HandedTo(h, cursor'[h])  BY <3>1, <3>3, <1>a DEF DownSide
    <3>5. \A k \in requests' : k.live /\ k.stage = "poll" => k.from = cursor'[k.g]
      BY <3>1, <3>2, <1>a DEF DownSide
    <3>6. \A k \in requests' : k.live /\ k.stage = "ack" => HandedTo(k.g, k.from)
      BY <3>2, <1>a DEF DownSide
    <3>7. \A h \in Gateways : sync'[h].at = "ingest" =>
            /\ sync'[h].next \in 1..sync'[h].to /\ sync'[h].to <= Len(outbound)
            /\ HandedTo(h, sync'[h].next - 1)
      BY <2>3, <1>a DEF DownSide
    <3>8. \A h \in Gateways : sync'[h].at = "ack" => HandedTo(h, sync'[h].to)
      BY <2>3, <1>a DEF DownSide
    <3> QED  BY <3>4, <3>5, <3>6, <3>7, <3>8, <2>1 DEF DownSide, HandedTo
  <2> QED  BY <2>4, <2>5
<1> QED  BY <1>1, <1>2, <1>3 DEF Accept

LEMMA DownStep == ASSUME IInv, [Next]_vars PROVE DownSide'
<1>a. /\ TypeOK /\ DownSide /\ Len(outbound) \in Nat /\ outbound \in Seq(Offered)
      /\ \A m \in requests : m.g \in Gateways
      /\ cursor \in [Gateways -> 0..Len(outbound)]
  BY DEF IInv, TypeOK, RequestRecord
<1>1. CASE (\E p \in Offered : TakeItem(p)) \/ PutPacket
  BY <1>1, DownStill DEF TakeItem, PutPacket, phones
<1>2. CASE Enqueue
  <2>1. job.due \in Offered  BY <1>2 DEF Enqueue, IInv, TypeOK
  <2>2. outbound' = outbound \/ outbound' = Append(outbound, job.due)  BY <1>2 DEF Enqueue
  <2>3. /\ Len(outbound') \in Nat /\ Len(outbound) <= Len(outbound')
        /\ \A i \in 1..Len(outbound) : outbound'[i] = outbound[i]
    BY <2>1, <2>2, <1>a
  <2>4. UNCHANGED <<handed, cursor, requests, sync>>  BY <1>2 DEF Enqueue, phones
  <2> QED  BY <2>3, <2>4, DownFrame
<1>3. CASE AnswerUpload
  <2> DEFINE m == job.request
  <2>1. m \in RequestRecord /\ m.g \in Gateways
    BY <1>3 DEF AnswerUpload, IInv, TypeOK, RequestRecord
  <2>2. UNCHANGED sync \/ \E at \in {"poll", "mark"} : Step(m.g, at, job.done, 0, 0)
    BY <1>3 DEF AnswerUpload, Answer
  <2> HIDE DEF m
  <2>3. \A h \in Gateways : sync'[h].at \in {"ingest", "ack"} => sync'[h] = sync[h]
    BY <2>1, <2>2, <1>a, StepEffect
  <2> QED  BY <1>3, <2>3, DownStill DEF AnswerUpload
<1>4. ASSUME NEW p \in Published, Publish(p) PROVE DownSide'
  BY <1>4, DownStill DEF Publish, phones
<1>5. ASSUME NEW g \in Gateways, NEW p \in Reports, Receive(g, p) PROVE DownSide'
  BY <1>5, DownStill DEF Receive, backend
<1>6. ASSUME NEW g \in Gateways, GiveUp(g) \/ RestartPhone(g) PROVE DownSide'
  <2>1. /\ Stop(g) /\ requests' = Orphaned(g) /\ UNCHANGED <<outbound, handed>>
        /\ cursor' = cursor \/ cursor' = [cursor EXCEPT ![g] = 0]
    BY <1>6 DEF GiveUp, RestartPhone
  <2>2. \A h \in Gateways : sync'[h].at \in {"ingest", "ack"} => sync'[h] = sync[h]
    BY <2>1, <1>a, StepEffect DEF Idle
  <2>3. \A m \in requests' : m.live => m \in requests /\ m.g # g  BY <2>1, OrphanedIs
  <2>4. \A h \in Gateways : cursor'[h] \in {0, cursor[h]} /\ (h # g => cursor'[h] = cursor[h])
    BY <2>1, <1>a
  <2> QED  BY <2>1, <2>2, <2>3, <2>4, <1>a, DownFrame
<1>7. CASE CrashBackend
  <2>1. /\ requests' = {} /\ UNCHANGED <<outbound, handed, cursor>>
        /\ \A h \in Gateways : sync'[h] \in {Idle, sync[h]}
    BY <1>7 DEF CrashBackend
  <2>2. \A h \in Gateways : sync'[h].at \in {"ingest", "ack"} => sync'[h] = sync[h]
    BY <2>1 DEF Idle
  <2> QED  BY <2>1, <2>2, DownStill
<1>8. CASE Tick \/ UNCHANGED vars
  BY <1>8, DownStill DEF Tick, vars, phones, backend
<1> QED
  BY <1>1, <1>2, <1>3, <1>4, <1>5, <1>6, <1>7, <1>8, SynchroniseDown, AcceptDown DEF Next, Work, Faults

-----------------------------------------------------------------------------
(* The theorems *)

LEMMA InitIInv == Init => IInv
<1> SUFFICES ASSUME Init PROVE IInv  OBVIOUS
<1>1. TypeOK  BY TypeInit
<1>a. /\ \A g \in Gateways : sync[g] = Idle /\ cursor[g] = 0
      /\ \A g \in Gateways, p \in Offered : upload[g][p] = "none" /\ row[g][p] = 0
      /\ requests = {} /\ job = NoJob /\ outbound = <<>>
  BY DEF Init
<1>b. Acks \subseteq Offered /\ (\A p \in Packets : AckFor[p] \in Acks) /\ None \notin Acks
  BY PacketsAssumption, NoneAssumption DEF Offered
<1>2. UploadSide  BY <1>a, <1>b DEF UploadSide, UploadedIsHeld, Idle, NoJob
<1>3. AckSide  BY <1>a, <1>b DEF AckSide, AckIsTrue, NoJob, InOutbound
<1>4. OneLive  BY <1>a DEF OneLive, NoJob
<1>5. DownSide  BY <1>a DEF DownSide, HandedTo, Idle
<1> QED  BY <1>1, <1>2, <1>3, <1>4, <1>5 DEF IInv

\* The inductive invariant of the exchange: what is under way between the
\* phones and the backend agrees with what both have stored.
THEOREM ExchangeInvariant == Spec => []IInv
<1>1. Init => IInv  BY InitIInv
<1>2. IInv /\ [Next]_vars => IInv'
  BY TypeStep, UploadStep, AckStep, LiveStep, DownStep DEF IInv
<1> QED  BY <1>1, <1>2, PTL DEF Spec

\* Every variable keeps the shape of the state it models.
THEOREM ExchangeTypeCorrect == Spec => []TypeOK
<1>1. IInv => TypeOK  BY DEF IInv
<1> QED  BY <1>1, ExchangeInvariant, PTL

\* A phone stops offering a packet only once the backend holds it and has
\* noted that this phone brought it.
THEOREM UploadIsSafe == Spec => []UploadedIsHeld
<1>1. IInv => UploadedIsHeld  BY DEF IInv, UploadSide
<1> QED  BY <1>1, ExchangeInvariant, PTL

\* An acknowledgement a phone holds is true.
THEOREM AcknowledgedIsHeld == Spec => []AckIsTrue
<1>1. IInv => AckIsTrue  BY DEF IInv, AckSide
<1> QED  BY <1>1, ExchangeInvariant, PTL

\* The cursor passes no packet that was not handed to ingest.
THEOREM CursorIsSafe == Spec => []NothingSkipped
<1>1. IInv => NothingSkipped  BY DEF IInv, DownSide, HandedTo, NothingSkipped
<1> QED  BY <1>1, ExchangeInvariant, PTL
=============================================================================
