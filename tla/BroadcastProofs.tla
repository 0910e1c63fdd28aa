--------------------------- MODULE BroadcastProofs ---------------------------
(***************************************************************************)
(* Proofs about the broadcast desk and the phones that listen to it, for   *)
(* any campaigns, phones, frame counts and bounds.                         *)
(*                                                                         *)
(* The desk half of the inductive invariant says, record by record, that   *)
(* whatever a campaign carries of validation, approval, program and test   *)
(* belongs to the version it has now, and that the sets of packets that    *)
(* were approved, tested and cut contain the packets the record rests on.  *)
(* The radio half says what a receiver has kept of what was heard: every   *)
(* key is marked once, and a handle that only one packet has used is       *)
(* either recovered or has all of its heard frames in its assembly.        *)
(***************************************************************************)
EXTENDS BroadcastDesk, TLAPS

Records == [state : States, version : Nat, validated : Nat, approval : Nat, program : Nat,
            passed : BOOLEAN, events : SUBSET {"exported", "played"}]

Receivers == [seen : SUBSET (Nat \X Nat), parts : SUBSET Frames, recovered : SUBSET Packets]

\* What holds of the record r of a campaign c.
RecordOK(c, r, approved, exact) ==
  /\ r.state # "absent" => r.version > 0
  /\ r.validated # None => r.validated = r.version /\ <<c, r.version>> \notin OverBudget
  /\ r.approval # None => r.approval = r.version /\ <<c, r.version>> \in approved
  /\ r.state \in OnApproval => r.approval = r.version
  /\ r.program # None => r.program = r.version /\ r.approval = r.version
  /\ r.passed => r.program # None /\ <<c, r.program>> \in exact
  /\ r.events # {} => <<c, r.version>> \in approved /\ <<c, r.version>> \in exact

DeskInv ==
  /\ campaigns \in [Campaigns -> Records]
  /\ approvals \subseteq Packets /\ tested \subseteq Packets
  /\ \A c \in Campaigns : RecordOK(c, campaigns[c], approvals, tested)
  /\ programs \subseteq approvals
  /\ approvals \cap OverBudget = {}

----------------------------------------------------------------------------
(* Records.                                                                *)

\* New content carries nothing of what the old content had.
LEMMA BuiltIsFresh ==
  ASSUME NEW state \in States, NEW version \in Nat, state # "absent" => version > 0,
         state \notin OnApproval, NEW c, NEW A, NEW T
  PROVE  Built(state, version) \in Records /\ RecordOK(c, Built(state, version), A, T)
BY DEF Built, Records, RecordOK, None

\* An edit leads to a state of a kept campaign that rests on no approval.
LEMMA EditedState ==
  ASSUME NEW state \in States, state # "absent"
  PROVE  /\ ContentEdited(state) \in States /\ ContentEdited(state) # "absent"
         /\ ContentEdited(state) \notin OnApproval
BY DEF ContentEdited, States, OnApproval

\* What holds of a record goes on to hold when more packets are approved and tested.
LEMMA RecordMonotone ==
  ASSUME NEW c, NEW r, NEW A, NEW T, NEW A2, NEW T2, RecordOK(c, r, A, T), A \subseteq A2, T \subseteq T2
  PROVE  RecordOK(c, r, A2, T2)
BY DEF RecordOK

\* The desk changes one record at a time and never takes back an approval or a
\* test, so only that record has to be looked at.
LEMMA OneRecord ==
  ASSUME DeskInv, NEW c \in Campaigns, NEW r \in Records,
         campaigns' = [campaigns EXCEPT ![c] = r],
         approvals \subseteq approvals', tested \subseteq tested',
         approvals' \subseteq Packets, tested' \subseteq Packets,
         RecordOK(c, r, approvals', tested'),
         programs' \subseteq approvals', approvals' \cap OverBudget = {}
  PROVE  DeskInv'
<1>1. campaigns' \in [Campaigns -> Records]
  BY DEF DeskInv
<1>2. \A d \in Campaigns : RecordOK(d, campaigns'[d], approvals', tested')
  <2> TAKE d \in Campaigns
  <2>1. CASE d = c
    BY <2>1 DEF DeskInv
  <2>2. CASE d # c
    <3>1. campaigns'[d] = campaigns[d]
      BY <2>2 DEF DeskInv
    <3>2. RecordOK(d, campaigns[d], approvals, tested)
      BY DEF DeskInv
    <3> QED
      BY <3>1, <3>2, RecordMonotone
  <2> QED
    BY <2>1, <2>2
<1>3. (\A d \in Campaigns : RecordOK(d, campaigns[d], approvals, tested))'
  BY <1>2
<1> QED
  BY <1>1, <1>3 DEF DeskInv

----------------------------------------------------------------------------
(* The operations of the desk.                                             *)

LEMMA InitDesk == Init => DeskInv
<1> SUFFICES ASSUME Init PROVE DeskInv
  OBVIOUS
<1>1. \A c \in Campaigns : Built("absent", 0) \in Records /\ RecordOK(c, Built("absent", 0), {}, {})
  BY BuiltIsFresh DEF States, OnApproval
<1>2. campaigns \in [Campaigns -> Records]
  BY <1>1 DEF Init
<1>3. \A c \in Campaigns : RecordOK(c, campaigns[c], approvals, tested)
  BY <1>1 DEF Init
<1> QED
  BY <1>2, <1>3 DEF Init, DeskInv

LEMMA CreateDesk ==
  ASSUME DeskInv, NEW c \in Campaigns, Create(c)
  PROVE  DeskInv'
<1>1. Built("draft", 1) \in Records /\ RecordOK(c, Built("draft", 1), approvals, tested)
  BY BuiltIsFresh DEF States, OnApproval
<1> QED
  BY <1>1, OneRecord DEF Create, DeskInv

LEMMA UpdateDesk ==
  ASSUME DeskInv, NEW c \in Campaigns, Update(c)
  PROVE  DeskInv'
<1> DEFINE r == Built(ContentEdited(campaigns[c].state), campaigns[c].version + 1)
<1>1. campaigns[c].state \in States /\ campaigns[c].state # "absent" /\ campaigns[c].version \in Nat
  BY DEF DeskInv, Records, Update, Kept
<1>2. r \in Records /\ RecordOK(c, r, approvals, tested)
  BY <1>1, EditedState, BuiltIsFresh
<1>3. campaigns' = [campaigns EXCEPT ![c] = r]
  BY DEF Update
<1> HIDE DEF r
<1> QED
  BY <1>2, <1>3, OneRecord DEF Update, DeskInv

\* A legal move to a state past the approval starts from one, or is the approval.
LEMMA LegalApproval ==
  ASSUME NEW from, NEW to, <<from, to>> \in Legal
  PROVE  /\ from # "absent" /\ to # "absent"
         /\ to \in OnApproval => from \in OnApproval \/ to = "approved"
BY DEF Legal, OnApproval

LEMMA TransitionDesk ==
  ASSUME DeskInv, NEW c \in Campaigns, NEW to \in States, Transition(c, to)
  PROVE  DeskInv'
<1> DEFINE old == campaigns[c]
           r == [old EXCEPT !.state = to,
                            !.validated = IF to = "validated" THEN old.version ELSE @,
                            !.approval = IF to = "approved" THEN old.version ELSE @]
<1>1. old \in Records /\ RecordOK(c, old, approvals, tested) /\ MayMove(c, to)
  BY DEF DeskInv, Transition
<1>2. campaigns' = [campaigns EXCEPT ![c] = r]
  BY DEF Transition
<1>3. approvals' = (IF to = "approved" THEN approvals \cup {<<c, old.version>>} ELSE approvals)
      /\ tested' = tested /\ programs' = programs
  BY DEF Transition
<1>4. r \in Records
  BY <1>1 DEF Records
<1>5. old.version > 0
  BY <1>1, LegalApproval DEF MayMove, RecordOK
<1>6. to = "approved" => old.validated = old.version /\ <<c, old.version>> \notin OverBudget
  BY <1>1, <1>5 DEF MayMove, RecordOK, Records, None
<1>7. <<c, old.version>> \in Packets
  BY <1>1 DEF Records, Packets
<1>8. approvals \subseteq approvals' /\ approvals' \subseteq Packets /\ approvals' \cap OverBudget = {}
  BY <1>3, <1>6, <1>7 DEF DeskInv
<1>9. RecordOK(c, r, approvals', tested')
  <2>1. RecordOK(c, old, approvals', tested')
    BY <1>1, <1>3, <1>8, RecordMonotone
  <2>2. /\ r.state = to /\ r.version = old.version /\ r.program = old.program
        /\ r.passed = old.passed /\ r.events = old.events
        /\ r.validated = (IF to = "validated" THEN old.version ELSE old.validated)
        /\ r.approval = (IF to = "approved" THEN old.version ELSE old.approval)
    BY <1>1 DEF Records
  <2>3. to = "validated" => <<c, old.version>> \notin OverBudget
    BY <1>1 DEF MayMove
  <2>4. to = "approved" => <<c, old.version>> \in approvals'
    BY <1>3
  <2>5. to \in OnApproval => old.state \in OnApproval \/ to = "approved"
    BY <1>1, LegalApproval DEF MayMove
  <2>6. old.version \in Nat
    BY <1>1 DEF Records
  <2> HIDE DEF r, old
  <2> QED
    BY <2>1, <2>2, <2>3, <2>4, <2>5, <2>6, <1>5 DEF RecordOK, None
<1> HIDE DEF r, old
<1> QED
  BY <1>2, <1>3, <1>4, <1>8, <1>9, OneRecord DEF DeskInv

LEMMA PrepareDesk ==
  ASSUME DeskInv, NEW c \in Campaigns, Prepare(c)
  PROVE  DeskInv'
<1> DEFINE old == campaigns[c]
           r == [old EXCEPT !.state = IF @ = "broadcaster-ready" THEN "audio-generated" ELSE @,
                            !.program = old.version]
<1>1. old \in Records /\ RecordOK(c, old, approvals, tested)
  BY DEF DeskInv
<1>2. campaigns' = [campaigns EXCEPT ![c] = r]
  BY DEF Prepare
<1>3. approvals' = approvals /\ tested' = tested /\ programs' = programs \cup {<<c, old.version>>}
  BY DEF Prepare
<1>4. r \in Records
  BY <1>1 DEF Records, States
<1>5. old.state \in OnApproval /\ old.state # "absent" /\ old.program = None
  BY DEF Prepare, OnApproval
<1>6. old.approval = old.version /\ old.version > 0 /\ old.version \in Nat
  BY <1>1, <1>5 DEF RecordOK, Records
<1>7. <<c, old.version>> \in approvals
  BY <1>1, <1>6 DEF RecordOK, None
<1>8. RecordOK(c, r, approvals, tested)
  <2>1. /\ r.version = old.version /\ r.program = old.version /\ r.state # "absent"
        /\ r.passed = old.passed /\ r.events = old.events
        /\ r.validated = old.validated /\ r.approval = old.approval
    BY <1>1, <1>5 DEF Records
  <2>2. ~old.passed
    BY <1>1, <1>5 DEF RecordOK
  <2> HIDE DEF r, old
  <2> QED
    BY <2>1, <2>2, <1>1, <1>6, <1>7 DEF RecordOK, None
<1> HIDE DEF r, old
<1> QED
  BY <1>2, <1>3, <1>4, <1>7, <1>8, OneRecord DEF DeskInv

LEMMA VerifyDesk ==
  ASSUME DeskInv, NEW c \in Campaigns, NEW recording, Verify(c, recording)
  PROVE  DeskInv'
<1> DEFINE old == campaigns[c]
           passed == Exact(c, recording)
           r == [old EXCEPT !.passed = passed,
                            !.state = IF passed /\ @ = "audio-generated" THEN "decode-tested" ELSE @]
<1>1. old \in Records /\ RecordOK(c, old, approvals, tested) /\ old.program # None
  BY DEF DeskInv, Verify
<1>2. campaigns' = [campaigns EXCEPT ![c] = r]
  BY DEF Verify
<1>3. tested' = (IF passed THEN tested \cup {<<c, old.program>>} ELSE tested)
      /\ approvals' = approvals /\ programs' = programs
  BY DEF Verify
<1>4. passed \in BOOLEAN
  BY DEF Exact
<1> HIDE DEF passed
<1>5. r \in Records
  BY <1>1, <1>4 DEF Records, States
<1>6. tested \subseteq tested' /\ tested' \subseteq Packets /\ (passed => <<c, old.program>> \in tested')
  BY <1>1, <1>3 DEF Records, Packets, DeskInv
<1>7. RecordOK(c, r, approvals', tested')
  <2>1. RecordOK(c, old, approvals', tested')
    BY <1>1, <1>3, <1>6, RecordMonotone
  <2>2. /\ r.version = old.version /\ r.program = old.program /\ r.events = old.events
        /\ r.validated = old.validated /\ r.approval = old.approval /\ r.passed = passed
        /\ r.state \in OnApproval => old.state \in OnApproval
        /\ r.state # "absent" => old.state # "absent"
    BY <1>1 DEF Records, OnApproval
  <2> HIDE DEF r, old
  <2> QED
    BY <2>1, <2>2, <1>1, <1>6 DEF RecordOK
<1> HIDE DEF r, old
<1> QED
  BY <1>2, <1>3, <1>5, <1>6, <1>7, OneRecord DEF DeskInv

LEMMA RecordDesk ==
  ASSUME DeskInv, NEW c \in Campaigns, NEW event \in {"exported", "played"}, Record(c, event)
  PROVE  DeskInv'
<1> DEFINE old == campaigns[c]
           r == [old EXCEPT !.state = IF event = "exported" THEN "scheduled" ELSE "played",
                            !.events = @ \cup {event}]
<1>1. old \in Records /\ RecordOK(c, old, approvals, tested)
  BY DEF DeskInv
<1>2. campaigns' = [campaigns EXCEPT ![c] = r]
  BY DEF Record, RecordEvent
<1>3. approvals' = approvals /\ tested' = tested /\ programs' = programs
  BY DEF Record
<1>4. old.program # None /\ old.passed /\ old.state \in OnApproval /\ old.state # "absent"
  BY DEF Record, MayRecord, OnApproval
<1>5. r \in Records
  BY <1>1 DEF Records, States
<1>6. RecordOK(c, r, approvals, tested)
  <2>1. /\ r.version = old.version /\ r.program = old.program /\ r.passed = old.passed
        /\ r.validated = old.validated /\ r.approval = old.approval
    BY <1>1 DEF Records
  <2>2. old.version > 0 /\ old.approval = old.version /\ old.version \in Nat
        /\ <<c, old.version>> \in tested
    BY <1>1, <1>4 DEF RecordOK, Records
  <2>3. <<c, old.version>> \in approvals
    BY <2>2, <1>1 DEF RecordOK, None
  <2> HIDE DEF r, old
  <2> QED
    BY <2>1, <2>2, <2>3, <1>1 DEF RecordOK
<1> HIDE DEF r, old
<1> QED
  BY <1>2, <1>3, <1>5, <1>6, OneRecord DEF DeskInv

\* A step that leaves the desk alone keeps what holds of it.
LEMMA DeskFrame ==
  ASSUME DeskInv, UNCHANGED desk
  PROVE  DeskInv'
BY DEF DeskInv, desk

----------------------------------------------------------------------------
(* One receiver r that has heard the frames h.                             *)

Air == {f \in Frames : f.index \in 1..FrameCount[f.packet[1]]}

Alone(f, h) == \A g \in h : Handle(g) = Handle(f) => g.packet = f.packet
Full(f, h) == \A i \in 1..FrameCount[f.packet[1]] : [packet |-> f.packet, index |-> i] \in h
Of(set, f) == {g \in set : Handle(g) = Handle(f)}

ReceiverOK(r, h) ==
  /\ r.seen = {Key(g) : g \in h}
  /\ r.parts \subseteq h
  /\ \A f \in h : Alone(f, h) =>
       f.packet \in r.recovered \/ (Of(r.parts, f) = Of(h, f) /\ ~Full(f, h))

RadioInv ==
  /\ receivers \in [Phones -> Receivers]
  /\ heard \in [Phones -> SUBSET Air]
  /\ \A p \in Phones : ReceiverOK(receivers[p], heard[p]) /\ receivers[p].recovered \subseteq programs

LEMMA AirFields ==
  ASSUME NEW f \in Air
  PROVE  /\ f \in Frames /\ f.packet \in Packets /\ f.index \in 1..FrameCount[f.packet[1]]
         /\ f = [packet |-> f.packet, index |-> f.index]
         /\ Handle(f) \in Nat /\ Key(f) \in Nat \X Nat
<1>1. f.packet \in Packets /\ f.index \in Nat /\ f = [packet |-> f.packet, index |-> f.index]
  BY DEF Air, Frames
<1>2. f.packet[2] \in Nat
  BY <1>1 DEF Packets
<1>3. Handle(f) \in Nat
  BY <1>2 DEF Handle
<1> QED
  BY <1>1, <1>3 DEF Air, Key

\* Two frames of one packet with one key are the same frame.
LEMMA KeyOfPacket ==
  ASSUME NEW f \in Air, NEW g \in Air, Key(f) = Key(g), f.packet = g.packet
  PROVE  f = g
<1>1. f.index = g.index
  BY DEF Key
<1> QED
  BY <1>1, AirFields

LEMMA SameHandle ==
  ASSUME NEW f, NEW g, f.packet = g.packet
  PROVE  Handle(f) = Handle(g)
BY DEF Handle

LEMMA SameKeyHandle ==
  ASSUME NEW f, NEW g, Key(f) = Key(g)
  PROVE  Handle(f) = Handle(g)
BY DEF Key

\* If no other packet uses the handle and the assembly holds all frames heard of
\* it, the assembly decodes exactly when all frames have been heard.
LEMMA WholeIsFull ==
  ASSUME NEW r, NEW h, h \subseteq Air, NEW f \in Air, Alone(f, h \cup {f}), Of(r.parts, f) = Of(h, f)
  PROVE  Whole(r, f) <=> Full(f, h \cup {f})
<1> DEFINE N == FrameCount[f.packet[1]]
           P == Parts(r, f)
<1>1. P = Of(h \cup {f}, f)
  BY DEF Parts, Of
<1>2. \A g \in P : g \in Air /\ g.packet = f.packet /\ g \in h \cup {f}
  BY <1>1 DEF Of, Alone
<1>3. \A g \in P : g.index \in 1..N /\ g = [packet |-> f.packet, index |-> g.index]
  BY <1>2, AirFields
<1>4. {g.packet : g \in P} = {f.packet}
  BY <1>2 DEF Parts
<1>5. ASSUME Whole(r, f) PROVE Full(f, h \cup {f})
  <2> SUFFICES ASSUME NEW i \in 1..N PROVE [packet |-> f.packet, index |-> i] \in h \cup {f}
    BY DEF Full
  <2>1. PICK g \in P : g.index = i
    BY <1>5 DEF Whole
  <2> QED
    BY <2>1, <1>2, <1>3
<1>6. ASSUME Full(f, h \cup {f}) PROVE Whole(r, f)
  <2>1. ASSUME NEW i \in 1..N PROVE i \in {g.index : g \in P}
    <3> DEFINE x == [packet |-> f.packet, index |-> i]
    <3>1. x \in h \cup {f}
      BY <1>6 DEF Full
    <3>2. x.packet = f.packet /\ x.index = i
      OBVIOUS
    <3>3. Handle(x) = Handle(f)
      BY <3>2, SameHandle
    <3> QED
      BY <3>1, <3>2, <3>3, <1>1 DEF Of
  <2>2. {g.index : g \in P} = 1..N
    BY <2>1, <1>3
  <2> QED
    BY <2>2, <1>4 DEF Whole
<1> QED
  BY <1>5, <1>6

\* What a frame with another handle does to the frames of a handle: nothing.
LEMMA OtherHandle ==
  ASSUME NEW h, NEW f, NEW x \in h, Handle(x) # Handle(f)
  PROVE  /\ Alone(x, h \cup {f}) => Alone(x, h)
         /\ Of(h \cup {f}, x) = Of(h, x)
         /\ Full(x, h \cup {f}) => Full(x, h)
<1>1. ASSUME NEW i, [packet |-> x.packet, index |-> i] = f PROVE FALSE
  BY <1>1, SameHandle
<1> QED
  BY <1>1 DEF Alone, Of, Full

LEMMA AcceptSeen ==
  ASSUME NEW r \in Receivers, NEW h, h \subseteq Air, NEW f \in Air, ReceiverOK(r, h), Key(f) \in r.seen
  PROVE  ReceiverOK(r, h \cup {f})
<1>1. PICK g \in h : Key(g) = Key(f)
  BY DEF ReceiverOK
<1>2. Handle(g) = Handle(f)
  BY <1>1, SameKeyHandle
<1>3. r.seen = {Key(x) : x \in h \cup {f}} /\ r.parts \subseteq h \cup {f}
  BY DEF ReceiverOK
<1>4. ASSUME NEW x \in h \cup {f}, Alone(x, h \cup {f})
      PROVE  x.packet \in r.recovered \/ (Of(r.parts, x) = Of(h \cup {f}, x) /\ ~Full(x, h \cup {f}))
  <2>1. CASE Handle(x) = Handle(f)
    <3>1. g.packet = f.packet
      BY <2>1, <1>2, <1>4 DEF Alone
    <3>2. g = f
      BY <3>1, <1>1, KeyOfPacket
    <3>3. h \cup {f} = h
      BY <3>2
    <3> QED
      BY <3>3, <1>4 DEF ReceiverOK
  <2>2. CASE Handle(x) # Handle(f)
    <3>1. x \in h
      BY <2>2
    <3> QED
      BY <3>1, <2>2, <1>4, OtherHandle DEF ReceiverOK
  <2> QED
    BY <2>1, <2>2
<1> QED
  BY <1>3, <1>4 DEF ReceiverOK

LEMMA AcceptNew ==
  ASSUME NEW r \in Receivers, NEW h, h \subseteq Air, NEW f \in Air, ReceiverOK(r, h), Key(f) \notin r.seen
  PROVE  ReceiverOK(Accept(r, f), h \cup {f})
<1> DEFINE a == Accept(r, f)
           k == h \cup {f}
<1>1. /\ a.seen = r.seen \cup {Key(f)}
      /\ a.parts = (IF Whole(r, f) THEN {g \in r.parts : Handle(g) # Handle(f)} ELSE r.parts \cup {f})
      /\ a.recovered = (IF Whole(r, f) THEN r.recovered \cup {f.packet} ELSE r.recovered)
  BY DEF Accept, Receivers
<1> HIDE DEF a
<1>2. a.seen = {Key(x) : x \in k} /\ a.parts \subseteq k
  BY <1>1 DEF ReceiverOK
<1>3. ASSUME NEW x \in k, Alone(x, k)
      PROVE  x.packet \in a.recovered \/ (Of(a.parts, x) = Of(k, x) /\ ~Full(x, k))
  <2>1. CASE Handle(x) # Handle(f)
    <3>1. x \in h
      BY <2>1
    <3>2. Of(a.parts, x) = Of(r.parts, x)
      BY <2>1, <1>1 DEF Of
    <3>3. x.packet \in r.recovered \/ (Of(r.parts, x) = Of(h, x) /\ ~Full(x, h))
      BY <3>1, <2>1, <1>3, OtherHandle DEF ReceiverOK
    <3> QED
      BY <3>1, <3>2, <3>3, <2>1, <1>1, OtherHandle
  <2>2. CASE Handle(x) = Handle(f)
    <3>1. x.packet = f.packet
      BY <2>2, <1>3 DEF Alone
    <3>2. Alone(f, k) /\ Of(k, x) = Of(k, f) /\ Of(a.parts, x) = Of(a.parts, f)
      BY <2>2, <3>1, <1>3 DEF Alone, Of
    <3>3. f.packet \in r.recovered \/ Of(r.parts, f) = Of(h, f)
      <4>1. CASE Of(h, f) = {}
        BY <4>1 DEF Of, ReceiverOK
      <4>2. CASE Of(h, f) # {}
        <5>1. PICK g \in h : Handle(g) = Handle(f)
          BY <4>2 DEF Of
        <5>2. g.packet = f.packet /\ Alone(g, h) /\ Of(h, g) = Of(h, f) /\ Of(r.parts, g) = Of(r.parts, f)
          BY <5>1, <3>2 DEF Alone, Of
        <5> QED
          BY <5>2 DEF ReceiverOK
      <4> QED
        BY <4>1, <4>2
    <3>4. CASE f.packet \in r.recovered
      BY <3>4, <3>1, <1>1
    <3>5. CASE Of(r.parts, f) = Of(h, f)
      <4>1. Whole(r, f) <=> Full(f, k)
        BY <3>5, <3>2, WholeIsFull
      <4>2. CASE Whole(r, f)
        BY <4>2, <1>1, <3>1
      <4>3. CASE ~Whole(r, f)
        <5>1. Of(a.parts, f) = Of(k, f)
          BY <4>3, <1>1, <3>5 DEF Of
        <5>2. ~Full(x, k)
          BY <4>3, <4>1, <3>1 DEF Full
        <5> QED
          BY <5>1, <5>2, <3>2
      <4> QED
        BY <4>2, <4>3
    <3> QED
      BY <3>3, <3>4, <3>5
  <2> QED
    BY <2>1, <2>2
<1> HIDE DEF k
<1>4. ReceiverOK(a, k)
  BY <1>2, <1>3 DEF ReceiverOK
<1> QED
  BY <1>4 DEF a, k

\* A receiver that is given a frame stays one, and recovers no other packet.
LEMMA AcceptType ==
  ASSUME NEW r \in Receivers, NEW f \in Air
  PROVE  /\ Accept(r, f) \in Receivers
         /\ Accept(r, f).recovered \subseteq r.recovered \cup {f.packet}
<1>1. Key(f) \in Nat \X Nat /\ f \in Frames /\ f.packet \in Packets
  BY AirFields
<1> QED
  BY <1>1 DEF Accept, Receivers

LEMMA AcceptOK ==
  ASSUME NEW r \in Receivers, NEW h, h \subseteq Air, NEW f \in Air, ReceiverOK(r, h)
  PROVE  ReceiverOK(Accept(r, f), h \cup {f})
<1>1. CASE Key(f) \in r.seen
  <2>1. Accept(r, f) = r
    BY <1>1 DEF Accept
  <2> QED
    BY <1>1, <2>1, AcceptSeen
<1>2. CASE Key(f) \notin r.seen
  BY <1>2, AcceptNew
<1> QED
  BY <1>1, <1>2

----------------------------------------------------------------------------
(* The phones.                                                             *)

LEMMA SilentOK == Silent \in Receivers /\ ReceiverOK(Silent, {}) /\ Silent.recovered = {}
BY DEF Silent, Receivers, ReceiverOK

LEMMA InitRadio == Init => RadioInv
BY SilentOK DEF Init, RadioInv

LEMMA StartRadio ==
  ASSUME RadioInv, NEW p \in Phones, StartListening(p)
  PROVE  RadioInv'
<1>1. receivers' \in [Phones -> Receivers] /\ heard' \in [Phones -> SUBSET Air]
  BY SilentOK DEF RadioInv, StartListening
<1>2. ASSUME NEW q \in Phones
      PROVE  ReceiverOK(receivers'[q], heard'[q]) /\ receivers'[q].recovered \subseteq programs'
  <2>1. programs' = programs
    BY DEF StartListening, desk
  <2>2. CASE q = p
    BY <2>2, SilentOK DEF StartListening, RadioInv
  <2>3. CASE q # p
    BY <2>1, <2>3 DEF StartListening, RadioInv
  <2> QED
    BY <2>2, <2>3
<1> QED
  BY <1>1, <1>2 DEF RadioInv

LEMMA SendRadio ==
  ASSUME DeskInv, RadioInv, NEW packet \in programs, NEW f \in Cut(packet), NEW hearers, Send(f, hearers)
  PROVE  RadioInv'
<1>1. packet \in Packets /\ f.packet = packet
  BY DEF DeskInv, Cut
<1>2. f \in Air
  BY <1>1, FramesAssumption DEF Cut, Air, Frames, Packets
<1>3. programs' = programs
  BY DEF Send, desk
<1>4. ASSUME NEW p \in Phones
      PROVE  /\ receivers'[p] \in Receivers /\ heard'[p] \in SUBSET Air
             /\ ReceiverOK(receivers'[p], heard'[p]) /\ receivers'[p].recovered \subseteq programs'
  <2>1. receivers[p] \in Receivers /\ heard[p] \subseteq Air /\ ReceiverOK(receivers[p], heard[p])
        /\ receivers[p].recovered \subseteq programs
    BY DEF RadioInv
  <2>2. CASE p \in hearers
    <3>1. receivers'[p] = Accept(receivers[p], f) /\ heard'[p] = heard[p] \cup {f}
      BY <2>2 DEF Send
    <3> QED
      BY <3>1, <2>1, <1>1, <1>2, <1>3, AcceptOK, AcceptType
  <2>3. CASE p \notin hearers
    <3>1. receivers'[p] = receivers[p] /\ heard'[p] = heard[p]
      BY <2>3 DEF Send
    <3> QED
      BY <3>1, <2>1, <1>3
  <2> QED
    BY <2>2, <2>3
<1>5. receivers' \in [Phones -> Receivers] /\ heard' \in [Phones -> SUBSET Air]
  BY <1>4 DEF Send
<1> QED
  BY <1>4, <1>5 DEF RadioInv

\* The desk cuts more programs and never touches a receiver.
LEMMA RadioFrame ==
  ASSUME RadioInv, UNCHANGED radio, programs \subseteq programs'
  PROVE  RadioInv'
<1>1. receivers' = receivers /\ heard' = heard
  BY DEF radio
<1> QED
  BY <1>1 DEF RadioInv

----------------------------------------------------------------------------
(* The invariant of the whole, and what it implies.                        *)

IInv == DeskInv /\ RadioInv

LEMMA StepDesk ==
  ASSUME IInv, [Next]_vars
  PROVE  DeskInv'
<1> USE DEF IInv
<1>1. CASE Operate
  <2>1. PICK c \in Campaigns :
          \/ Create(c)
          \/ Update(c)
          \/ \E to \in States : Transition(c, to)
          \/ Prepare(c)
          \/ \E recording \in Recordings : Verify(c, recording)
          \/ \E event \in {"exported", "played"} : Record(c, event)
    BY <1>1 DEF Operate
  <2> QED
    BY <2>1, CreateDesk, UpdateDesk, TransitionDesk, PrepareDesk, VerifyDesk, RecordDesk
<1>2. CASE Listen
  BY <1>2, DeskFrame DEF Listen, StartListening, Send
<1>3. CASE UNCHANGED vars
  BY <1>3, DeskFrame DEF vars
<1> QED
  BY <1>1, <1>2, <1>3 DEF Next

LEMMA StepRadio ==
  ASSUME IInv, [Next]_vars
  PROVE  RadioInv'
<1> USE DEF IInv
<1>1. CASE Operate
  <2>1. UNCHANGED radio /\ programs \subseteq programs'
    BY <1>1 DEF Operate, Create, Update, Transition, Prepare, Verify, Record
  <2> QED
    BY <2>1, RadioFrame
<1>2. CASE Listen
  BY <1>2, StartRadio, SendRadio DEF Listen
<1>3. CASE UNCHANGED vars
  BY <1>3, RadioFrame DEF vars, desk
<1> QED
  BY <1>1, <1>2, <1>3 DEF Next

\* The invariant of the desk and the phones: every record rests on approvals,
\* programs and tests of its own version, and every receiver has kept of what it
\* heard what it needs to recover a packet.
THEOREM BroadcastInvariant == Spec => []IInv
<1>1. Init => IInv
  BY InitDesk, InitRadio DEF IInv
<1>2. IInv /\ [Next]_vars => IInv'
  BY StepDesk, StepRadio DEF IInv
<1> QED
  BY <1>1, <1>2, PTL DEF Spec

\* Every variable of the desk and the phones keeps its shape.
THEOREM BroadcastTypeCorrect == Spec => []TypeOK
<1>1. IInv => TypeOK
  <2> SUFFICES ASSUME IInv PROVE TypeOK
    OBVIOUS
  <2>1. programs \subseteq Packets
    BY DEF IInv, DeskInv
  <2>2. heard \in [Phones -> SUBSET Frames]
    BY DEF IInv, RadioInv, Air
  <2> QED
    BY <2>1, <2>2 DEF IInv, DeskInv, RadioInv, TypeOK, Records, Receivers
<1> QED
  BY <1>1, BroadcastInvariant, PTL

\* A campaign past its approval rests on an approval of its present content, and a
\* program on file carries that content: edits and returns to draft leave neither
\* behind.
THEOREM ApprovalFollowsContent == Spec => []ApprovalIsCurrent
<1>1. IInv => ApprovalIsCurrent
  BY DEF IInv, DeskInv, RecordOK, ApprovalIsCurrent
<1> QED
  BY <1>1, BroadcastInvariant, PTL

\* Nothing is approved that does not fit the time on the air.
THEOREM ApprovalsFit == Spec => []ApprovedFits
<1>1. IInv => ApprovedFits
  BY DEF IInv, DeskInv, ApprovedFits
<1> QED
  BY <1>1, BroadcastInvariant, PTL

\* A recorded export or play is of content that was approved and decode tested.
THEOREM RecordedIsTested == Spec => []RecordedWasTested
<1>1. IInv => RecordedWasTested
  BY DEF IInv, DeskInv, RecordOK, RecordedWasTested
<1> QED
  BY <1>1, BroadcastInvariant, PTL

\* What a phone recovers over the air has been approved.
THEOREM RecoveredIsApproved == Spec => []RecoveredWasApproved
<1>1. IInv => RecoveredWasApproved
  BY DEF IInv, DeskInv, RadioInv, RecoveredWasApproved
<1> QED
  BY <1>1, BroadcastInvariant, PTL

\* A phone that has heard all frames of a packet, and no other packet with its
\* handle, has recovered it, in whatever order and however often they came.
THEOREM HeardPacketIsRecovered == Spec => []HeardIsRecovered
<1>1. IInv => HeardIsRecovered
  <2> SUFFICES ASSUME IInv, NEW p \in Phones, NEW f \in heard[p], Alone(f, heard[p]), Full(f, heard[p])
               PROVE  f.packet \in receivers[p].recovered
    BY DEF HeardIsRecovered, Alone, Full
  <2>1. ReceiverOK(receivers[p], heard[p])
    BY DEF IInv, RadioInv
  <2> QED
    BY <2>1 DEF ReceiverOK
<1> QED
  BY <1>1, BroadcastInvariant, PTL
=============================================================================
