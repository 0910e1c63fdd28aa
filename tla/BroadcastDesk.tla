---- MODULE BroadcastDesk ----
(***************************************************************************)
(* The authority's radio campaigns and the phones that listen to them.     *)
(* Operators write a campaign, have it validated and approved, let the     *)
(* desk cut the approved packet into acoustic frames, test that the frames *)
(* decode, and play them from a browser console; a phone collects frames   *)
(* and hands a packet to its node once it has all of them.                 *)
(*                                                                         *)
(* Every edit of a campaign builds a new packet, so a packet is named by   *)
(* its campaign and version: digests and byte comparisons tell apart these *)
(* names and nothing else.  The content revision moves with the version    *)
(* and is not kept apart.  A console plays a campaign as it was when last  *)
(* fetched, so it may send the frames of any program that the desk has     *)
(* ever cut, whatever has become of the campaign since, and as often as    *)
(* the repeats and the operator like.                                      *)
(***************************************************************************)
EXTENDS Naturals, FiniteSets

CONSTANTS Campaigns,     \* campaigns the operators may create
          Phones,        \* phones that listen
          FrameCount,    \* acoustic frames of a campaign's packets
          LastVersion,   \* bound: the version after which a campaign is not edited
          OverBudget     \* packets whose program would last too long

Packets == Campaigns \X Nat

ASSUME FramesAssumption == FrameCount \in [Campaigns -> Nat \ {0}]
ASSUME VersionAssumption == LastVersion \in [Campaigns -> Nat \ {0}]
ASSUME BudgetAssumption == OverBudget \subseteq Packets

VARIABLES campaigns,     \* the desk's campaign records
          approvals,     \* packets an operator has approved (bookkeeping)
          tested,        \* packets whose program was recovered exactly (bookkeeping)
          programs,      \* packets cut into frames, which consoles may hold
          receivers,     \* each phone's Tier 2 receiver
          heard          \* intact frames since the phone began to listen (bookkeeping)

desk == <<campaigns, approvals, tested, programs>>
radio == <<receivers, heard>>
vars == <<desk, radio>>

None == 0                \* an optional number that is not there

States == {"absent", "draft", "validated", "approved", "broadcaster-ready", "audio-generated",
           "decode-tested", "scheduled", "played", "archived", "failed"}

\* The legal moves of a campaign.
Legal ==
  ({"draft"} \X {"validated", "failed"}) \cup ({"validated"} \X {"approved", "draft", "failed"})
  \cup ({"approved"} \X {"broadcaster-ready", "draft"})
  \cup ({"broadcaster-ready"} \X {"audio-generated", "draft"})
  \cup ({"audio-generated"} \X {"decode-tested", "draft", "failed"})
  \cup ({"decode-tested"} \X {"scheduled", "draft", "failed"})
  \cup ({"scheduled"} \X {"played", "draft", "failed"})
  \cup ({"played"} \X {"archived"}) \cup ({"failed"} \X {"draft"})

\* States that rest on an approval of the content, and fall back with an edit.
OnApproval == {"approved", "broadcaster-ready", "audio-generated", "decode-tested", "scheduled"}

\* Mutant: a scheduled campaign keeps its state through an edit.
ContentEditedLate(state) == IF state \in OnApproval \ {"scheduled"} THEN "draft" ELSE state

ContentEdited(state) == IF state \in OnApproval THEN "draft" ELSE state

\* Mutant: the program built from the old content is kept, under the number before.
BuiltWithProgram(state, version) ==
  [state |-> state, version |-> version, validated |-> None, approval |-> None,
   program |-> version - 1, passed |-> FALSE, events |-> {}]

\* A record as it is built from new content: whatever the campaign carried of
\* validation, approval, program, decode test and plays is not part of it.
Built(state, version) ==
  [state |-> state, version |-> version, validated |-> None, approval |-> None,
   program |-> None, passed |-> FALSE, events |-> {}]

Kept(c) == campaigns[c].state # "absent"

----------------------------------------------------------------------------
(* What operators ask of the desk.  Every request is one synchronous step  *)
(* that ends with the save of the operations snapshot.                     *)

Create(c) ==
  /\ ~Kept(c)
  /\ campaigns' = [campaigns EXCEPT ![c] = Built("draft", 1)]
  /\ UNCHANGED <<approvals, tested, programs, radio>>

Update(c) ==
  /\ Kept(c)
  /\ campaigns[c].version < LastVersion[c]
  /\ campaigns' = [campaigns EXCEPT
       ![c] = Built(ContentEdited(@.state), @.version + 1)]
  /\ UNCHANGED <<approvals, tested, programs, radio>>

\* Mutant: an approval asks for some validation, not for one of this content.
MayMoveOnceValidated(c, to) ==
  /\ <<campaigns[c].state, to>> \in Legal
  /\ to = "validated" => <<c, campaigns[c].version>> \notin OverBudget

\* The three guards: the budget for a validation, the table of legal moves,
\* and for an approval that this very content was validated.
MayMove(c, to) ==
  /\ <<campaigns[c].state, to>> \in Legal
  /\ to = "validated" => <<c, campaigns[c].version>> \notin OverBudget
  /\ to = "approved" => campaigns[c].validated = campaigns[c].version

Transition(c, to) ==
  /\ Kept(c)
  /\ MayMove(c, to)
  /\ campaigns' = [campaigns EXCEPT
       ![c].state = to,
       ![c].validated = IF to = "validated" THEN campaigns[c].version ELSE @,
       ![c].approval = IF to = "approved" THEN campaigns[c].version ELSE @]
  /\ approvals' = IF to = "approved" THEN approvals \cup {<<c, campaigns[c].version>>} ELSE approvals
  /\ UNCHANGED <<tested, programs, radio>>

\* A program that is on file is returned as it is, and the state stays too.
Prepare(c) ==
  /\ campaigns[c].state \in {"broadcaster-ready", "audio-generated", "decode-tested"}
  /\ campaigns[c].program = None
  /\ campaigns' = [campaigns EXCEPT
       ![c].state = IF @ = "broadcaster-ready" THEN "audio-generated" ELSE @,
       ![c].program = campaigns[c].version]
  /\ programs' = programs \cup {<<c, campaigns[c].version>>}
  /\ UNCHANGED <<approvals, tested, radio>>

\* A station posts the frames it recovered of the playback of some program:
\* intact when they are all its frames, with no corrupt or foreign one among them.
Recordings == [packet : programs, intact : BOOLEAN]

\* The tally against the program's frames, and the packet put together out of
\* them against the packet on the record.
Exact(c, recording) ==
  /\ recording.intact
  /\ recording.packet = <<c, campaigns[c].program>>
  /\ recording.packet = <<c, campaigns[c].version>>

Verify(c, recording) ==
  /\ campaigns[c].program # None
  /\ LET passed == Exact(c, recording) IN
       /\ campaigns' = [campaigns EXCEPT
            ![c].passed = passed,
            ![c].state = IF passed /\ @ = "audio-generated" THEN "decode-tested" ELSE @]
       /\ tested' = IF passed THEN tested \cup {<<c, campaigns[c].program>>} ELSE tested
  /\ UNCHANGED <<approvals, programs, radio>>

\* Mutant: a program on file is enough.
MayRecordUntested(c, event) ==
  /\ campaigns[c].program # None
  /\ campaigns[c].state \in (IF event = "exported" THEN {"decode-tested", "scheduled"} ELSE {"scheduled"})

\* The record of an export or a play, and the state it moves the campaign to.
MayRecord(c, event) ==
  /\ campaigns[c].program # None
  /\ campaigns[c].passed
  /\ campaigns[c].state \in (IF event = "exported" THEN {"decode-tested", "scheduled"} ELSE {"scheduled"})

RecordEvent(c, event) ==
  campaigns' = [campaigns EXCEPT
    ![c].state = IF event = "exported" THEN "scheduled" ELSE "played",
    ![c].events = @ \cup {event}]

\* The console posts a play when its transmission has ended, and the desk records
\* it on the campaign as it is by then, or refuses.
Record(c, event) ==
  /\ MayRecord(c, event)
  /\ RecordEvent(c, event)
  /\ UNCHANGED <<approvals, tested, programs, radio>>

----------------------------------------------------------------------------
(* The phones.  A receiver tells frames apart by the campaign handle, the  *)
(* campaign version, the packet handle and the index they carry.  The desk *)
(* puts the version in for the handle and 1 for the packet handle, so that *)
(* the 16 bits of the handle decide.                                       *)

Handle(f) == f.packet[2] % 65536

Key(f) == <<Handle(f), f.index>>

Silent == [seen |-> {}, parts |-> {}, recovered |-> {}]

\* Mutant: a new listening forgets the assemblies and keeps the frames it has seen.
StartListeningSeen(p) ==
  /\ receivers' = [receivers EXCEPT ![p] = [Silent EXCEPT !.seen = receivers[p].seen]]
  /\ heard' = [heard EXCEPT ![p] = {}]
  /\ UNCHANGED desk

\* A new listening resets the receiver.  Stopping does not, and a frame that
\* arrives after the stop is accepted like any other, so that a stopped phone is
\* one that hears nothing until it begins to listen again.
StartListening(p) ==
  /\ receivers' = [receivers EXCEPT ![p] = Silent]
  /\ heard' = [heard EXCEPT ![p] = {}]
  /\ UNCHANGED desk

\* The parts of one assembly, with the frame that has just arrived.
Parts(r, f) == {g \in r.parts : Handle(g) = Handle(f)} \cup {f}

\* The assembly decodes if its parts are the frames of one packet and all of
\* them: any other bytes fail the packet's digest.  The frame count it is tried
\* against is that of its first frame, and so of that packet.
Whole(r, f) ==
  /\ {g.packet : g \in Parts(r, f)} = {f.packet}
  /\ {g.index : g \in Parts(r, f)} = 1..FrameCount[f.packet[1]]

\* An intact frame.  It counts as seen before its assembly is tried.
Accept(r, f) ==
  IF Key(f) \in r.seen THEN r
  ELSE IF Whole(r, f)
       THEN [r EXCEPT !.seen = @ \cup {Key(f)},
                      !.parts = {g \in @ : Handle(g) # Handle(f)},
                      !.recovered = @ \cup {f.packet}]
       ELSE [r EXCEPT !.seen = @ \cup {Key(f)},
                      !.parts = @ \cup {f}]

\* A console sends a frame of a program it holds.  The phones in hearers get it
\* intact; for the others it is lost in noise or corrupt, and a corrupt frame is
\* dropped.
Send(f, hearers) ==
  /\ receivers' = [p \in Phones |-> IF p \in hearers THEN Accept(receivers[p], f) ELSE receivers[p]]
  /\ heard' = [p \in Phones |-> IF p \in hearers THEN heard[p] \cup {f} ELSE heard[p]]
  /\ UNCHANGED desk

----------------------------------------------------------------------------
Init ==
  /\ campaigns = [c \in Campaigns |-> Built("absent", 0)]
  /\ approvals = {} /\ tested = {} /\ programs = {}
  /\ receivers = [p \in Phones |-> Silent]
  /\ heard = [p \in Phones |-> {}]

Operate ==
  \E c \in Campaigns :
    \/ Create(c)
    \/ Update(c)
    \/ \E to \in States : Transition(c, to)
    \/ Prepare(c)
    \/ \E recording \in Recordings : Verify(c, recording)
    \/ \E event \in {"exported", "played"} : Record(c, event)

\* The frames of a program.
Cut(packet) == [packet : {packet}, index : 1..FrameCount[packet[1]]]

\* Mutant: a console cuts and plays the content that is being written as well.
ListenDraft ==
  \/ \E p \in Phones : StartListening(p)
  \/ \E packet \in programs \cup {<<c, campaigns[c].version>> : c \in {d \in Campaigns : Kept(d)}} :
       \E f \in Cut(packet), hearers \in (SUBSET Phones) \ {{}} : Send(f, hearers)

\* What the radio brings: a phone begins to listen, or a console sends a frame of a
\* program it holds.
Listen ==
  \/ \E p \in Phones : StartListening(p)
  \/ \E packet \in programs : \E f \in Cut(packet), hearers \in (SUBSET Phones) \ {{}} : Send(f, hearers)

Next == Operate \/ Listen

Spec == Init /\ [][Next]_vars

----------------------------------------------------------------------------
Frames == [packet : Packets, index : Nat]

TypeOK ==
  /\ campaigns \in [Campaigns -> [state : States, version : Nat, validated : Nat,
                                  approval : Nat, program : Nat, passed : BOOLEAN,
                                  events : SUBSET {"exported", "played"}]]
  /\ approvals \subseteq Packets /\ tested \subseteq Packets /\ programs \subseteq Packets
  /\ receivers \in [Phones -> [seen : SUBSET (Nat \X Nat),
                               parts : SUBSET Frames, recovered : SUBSET Packets]]
  /\ heard \in [Phones -> SUBSET Frames]

\* What a campaign past its approval rests on is an approval of the content it
\* has now, and a program on file carries the content the campaign has now:
\* however edits, returns to draft and renewed approvals follow each other, no
\* step leaves an approval or a program of an earlier content in place.
ApprovalIsCurrent ==
  \A c \in Campaigns :
    /\ campaigns[c].state \in OnApproval => campaigns[c].approval = campaigns[c].version
    /\ campaigns[c].program # None =>
         campaigns[c].program = campaigns[c].version /\ campaigns[c].approval = campaigns[c].version

\* No content is approved whose program would last too long, also when it took the
\* place of content that had been validated.
ApprovedFits == approvals \cap OverBudget = {}

\* A campaign with a play or an export on its record has an approved program on
\* file that was recovered exactly in a decode test, of the content the campaign
\* has now: also when it was tested before a return to draft, when a later test
\* failed, and when its state was moved by hand past the decode test.
RecordedWasTested ==
  \A c \in Campaigns : campaigns[c].events # {} =>
    <<c, campaigns[c].version>> \in approvals \cap tested

\* Whatever a phone's receiver recovers over the air, and so hands to its node, is
\* a packet an operator approved, though nobody tells the phone what is on the
\* air: no edit is on the air before its approval, however long a console goes on
\* playing what the desk once cut.
RecoveredWasApproved ==
  \A p \in Phones : receivers[p].recovered \subseteq approvals

\* A phone that has heard every frame of a packet in one listening, and no frame
\* of another packet with the same handle, has recovered the packet, in
\* whichever order and however often the frames came.
HeardIsRecovered ==
  \A p \in Phones : \A f \in heard[p] :
    (/\ \A g \in heard[p] : Handle(g) = Handle(f) => g.packet = f.packet
     /\ \A i \in 1..FrameCount[f.packet[1]] : [packet |-> f.packet, index |-> i] \in heard[p])
      => f.packet \in receivers[p].recovered
====
