-------------------------- MODULE RadioBridgeProofs --------------------------
(***************************************************************************)
(* Proofs about the native radio bridge, for any sessions and records and  *)
(* any bounds.                                                             *)
(*                                                                         *)
(* The inductive invariant has three parts.  TypeInv gives the types of    *)
(* the tables (RadioOK, SetupOK, QueuesOK) and says what a thread may have *)
(* left to do and in which order (TodoInv, ShapeOf).  WritesInv says that  *)
(* a record under way is in one place only: with one thread, in one queue  *)
(* or on the air (OneCopy), so that it is confirmed once, and that the     *)
(* resolutions of a session, with the completion its thread is about to    *)
(* make, are no more than its confirmations (ConfirmInv).  OpensInv says   *)
(* who settles an open that waits (TendedInv), and that a session has no   *)
(* connection or table entry before its open has begun (BegunInv).         *)
(***************************************************************************)
EXTENDS RadioBridge, FiniteSetTheorems, SequenceTheorems, TLAPS

----------------------------------------------------------------------------
(* What a thread may have left to do.                                      *)

StepShape(t, e) ==
  /\ e \in StepRecord
  /\ e.op \notin StopOps => e.s \in Sessions
  /\ e.op \in CarryOps <=> e.w # None
  /\ e.op \in OpeningOps => t = "module"
  /\ e.op \in StopOps => t \in {"module", "main"}
  /\ e.op = "completed" => t = e.s

\* The step a may come somewhere before the step b.
Precedes(a, b) ==
  /\ a.s = b.s
  /\ a.op \notin SendingOps /\ b.op \notin SendingOps
  /\ a.op \in OpeningOps <=> b.op \in OpeningOps
  /\ a.op \in StopOps <=> b.op \in StopOps
  /\ b.op \in SettleOps => a.op \in {"cancelTimeout", "rejectPending"}
  /\ a.op \in PastOps \cup {"rejectOpens"} => b.op \in PastOps
  /\ b.op # "put" /\ (b.op = "schedule" => a.op = "put") /\ b.op # "stopGatts"
  /\ b.op = "connect" => a.op \in {"put", "schedule"}

\* The step a is followed at once by the step b.
Leads(a, b) ==
  /\ a.op = "put" => b.op = "schedule"
  /\ a.op = "schedule" => b.op = "connect"
  /\ a.op = "connect" => b.op = "putGatt"
  /\ a.op = "cancelTimeout" => b.op \in SettleOps
  /\ a.op = "stopGatts" => b.op = "rejectOpens"

\* The step a may be the last.
Ends(a) ==
  /\ a.op \notin {"put", "connect", "cancelTimeout"}
  /\ a.op \in StopOps => a.op = "clearRest"

ShapeOf(t, T) ==
  /\ T \in Seq(StepRecord)
  /\ \A k \in 1..Len(T) : StepShape(t, T[k])
  /\ \A j, k \in 1..Len(T) : j < k => Precedes(T[j], T[k])
  /\ \A k \in 1..Len(T) : k + 1 \in 1..Len(T) => Leads(T[k], T[k + 1])
  /\ T # <<>> => Ends(T[Len(T)])

----------------------------------------------------------------------------
(* The tables, and the sessions of the steps.                              *)

QueueOps == {"add", "poll", "drain"}

\* The steps of a thread refer to what is there.
StepFits(e, qs, op) ==
  /\ e.op \in QueueOps => e.q \in 1..Len(qs[e.s])
  /\ e.op \in OpeningOps => op[e.s] # "no"

TodoInv ==
  /\ todo \in [Threads -> Seq(StepRecord)]
  /\ \A t \in Threads : ShapeOf(t, todo[t])
  /\ \A t \in Threads : \A k \in 1..Len(todo[t]) : StepFits(todo[t][k], queues, opened)

RadioOK ==
  /\ selectedMode \in {"ble", "classic"} /\ stops \in 0..MaxStops
  /\ link \in [Sessions -> Alive \cup {"none", "calling", "gone", "closed"}]
  /\ air \in [Sessions -> Records \cup {None}]

SetupOK ==
  /\ clientGatts \cup pendingSessions \cup sessionTimeouts \cup overtaken
       \subseteq {s \in Sessions : opened[s] # "no"}
  /\ serverDevices \subseteq {s \in Sessions : opened[s] = "no" /\ link[s] # "none"}
  /\ classicSockets \subseteq Sessions /\ negotiatedMtu \subseteq Sessions
  /\ opened \in [Sessions -> {"no", "waiting", "resolved", "rejected"}]
  /\ \A s \in Sessions : link[s] = "calling" => opened[s] # "no"

QueuesOK ==
  /\ activeWrites \in [Sessions -> Records \cup {None}]
  /\ queues \in [Sessions -> Seq(Seq(Records))] /\ writeQueues \in [Sessions -> Nat]
  /\ \A s \in Sessions : writeQueues[s] \in 0..Len(queues[s])
  /\ outcome \in [Records -> {"unsent", "waiting", "resolved", "rejected"}]
  /\ written \subseteq Records

TypeInv == RadioOK /\ SetupOK /\ QueuesOK /\ TodoInv

----------------------------------------------------------------------------
(* Where the records are.                                                  *)

\* The record was sent, and the link has not confirmed it.
Live(w) == outcome[w] # "unsent" /\ w \notin written

Carries(t, w) == todo[t] # <<>> /\ Head(todo[t]).w = w
QueuedAt(s, q, i, w) == q \in 1..Len(queues[s]) /\ i \in 1..Len(queues[s][q]) /\ queues[s][q][i] = w

\* The record is in one place at most, and only while it is live.
OneCopy(w) ==
  /\ \A t \in Threads : Carries(t, w) =>
       /\ Head(todo[t]).s = SessionOf[w] /\ Live(w)
       /\ \A u \in Threads : Carries(u, w) => u = t
       /\ \A s \in Sessions : air[s] # w /\ \A q, i \in Nat : ~QueuedAt(s, q, i, w)
  /\ \A s \in Sessions : air[s] = w =>
       /\ s = SessionOf[w] /\ Live(w)
       /\ \A r \in Sessions : \A q, i \in Nat : ~QueuedAt(r, q, i, w)
  /\ \A s \in Sessions : \A q, i \in Nat : QueuedAt(s, q, i, w) =>
       /\ s = SessionOf[w] /\ Live(w)
       /\ \A r, j \in Nat : QueuedAt(s, r, j, w) => r = q /\ j = i

Completions(s) == IF todo[s] # <<>> /\ Head(todo[s]).op = "completed" THEN 1 ELSE 0

Resolved(s) == {w \in Of(s, Records) : outcome[w] = "resolved"}

Sent == {w \in Records : outcome[w] # "unsent"}

ConfirmInv ==
  /\ IsFiniteSet(Sent) /\ written \subseteq Sent
  /\ \A s \in Sessions : activeWrites[s] # None => SessionOf[activeWrites[s]] = s
  /\ \A s \in Sessions : Cardinality(Resolved(s)) + Completions(s) <= Cardinality(Of(s, written))

WritesInv == (\A w \in Records : OneCopy(w)) /\ ConfirmInv

----------------------------------------------------------------------------
(* Who settles an open.                                                    *)

PutAhead(s) == \E k \in 1..Len(todo["module"]) : todo["module"][k].op = "put" /\ todo["module"][k].s = s

\* The session's open is neither to come nor about to be put on the table.
Begun(s) ==
  /\ link[s] # "calling" /\ (opened[s] = "no" => link[s] # "none")
  /\ ~PutAhead(s)

\* The open was settled, or the Stop of the notification ran into it.
Over(s) == opened[s] # "waiting" \/ s \in overtaken

SettledBefore(T, k) == \A j \in 1..(k - 1) : T[j].op \notin SettleOps

Linked(s) == link[s] \notin {"none", "calling"}

\* What the steps that are left suppose.
StepBegun(e) ==
  /\ e.op \in ClosingOps => Begun(e.s)
  /\ e.op = "put" => opened[e.s] = "waiting" /\ e.s \notin pendingSessions
  /\ e.op \in {"put", "schedule", "connect"} => link[e.s] # "calling"
  /\ e.op = "connect" => link[e.s] = "none"

BegunInv ==
  /\ \A s \in Sessions : Linked(s) => Begun(s)
  /\ \A s \in Sessions : link[s] = "calling" => opened[s] = "waiting"
  /\ \A s \in pendingSessions \cup sessionTimeouts : Begun(s)
  /\ \A s \in clientGatts \cup serverDevices \cup classicSockets : Linked(s)
  /\ \A s \in classicSockets : opened[s] # "waiting"
  /\ \A t \in Threads : \A k \in 1..Len(todo[t]) : StepBegun(todo[t][k])
  /\ \A t \in Threads : todo[t] # <<>> /\ Head(todo[t]).op = "putGatt" => Linked(Head(todo[t]).s)

TendedInv ==
  /\ \A s \in Sessions \ overtaken : opened[s] = "waiting" =>
       link[s] = "calling" \/ PutAhead(s) \/ s \in pendingSessions
  /\ \A s \in pendingSessions : ~Over(s) => s \in sessionTimeouts \/ Settling(s)
  /\ \A t \in Threads : todo[t] # <<>> /\ Head(todo[t]).op \in PastOps =>
       \A s \in pendingSessions : Over(s)
  /\ \A t \in Threads : \A k \in 1..Len(todo[t]) :
       todo[t][k].op \in {"drop", "report"} /\ SettledBefore(todo[t], k) => Over(todo[t][k].s)

OpensInv == BegunInv /\ TendedInv

----------------------------------------------------------------------------
(* Sequences of steps.                                                     *)

LEMMA TailElements ==
  ASSUME NEW S, NEW q \in Seq(S), q # <<>>
  PROVE  /\ Tail(q) \in Seq(S) /\ Head(q) \in S /\ Head(q) = q[1]
         /\ Len(Tail(q)) = Len(q) - 1 /\ Len(q) \in Nat /\ Len(q) > 0
         /\ \A i \in 1..Len(Tail(q)) : i + 1 \in 1..Len(q) /\ Tail(q)[i] = q[i + 1]
BY HeadTailProperties, LenProperties

LEMMA FrontElements ==
  ASSUME NEW S, NEW q \in Seq(S), NEW h \in S
  PROVE  /\ <<h>> \o q \in Seq(S) /\ Len(<<h>> \o q) = Len(q) + 1 /\ Len(q) \in Nat
         /\ <<h>> \o q # <<>> /\ (<<h>> \o q)[1] = h /\ Head(<<h>> \o q) = h
         /\ \A i \in 1..Len(q) : (<<h>> \o q)[i + 1] = q[i]
<1>1. <<h>> \in Seq(S) /\ Len(<<h>>) = 1 /\ <<h>>[1] = h
  OBVIOUS
<1>2. Len(q) \in Nat
  BY LenProperties
<1> QED BY <1>1, <1>2, ConcatProperties

LEMMA StepsElements ==
  ASSUME NEW ops \in Seq(Ops), NEW s \in Sessions \cup {None}
  PROVE  /\ Steps(ops, s) \in Seq(StepRecord) /\ Len(Steps(ops, s)) = Len(ops) /\ Len(ops) \in Nat
         /\ \A k \in 1..Len(ops) : /\ Steps(ops, s)[k] = Step(ops[k], s)
                                   /\ Steps(ops, s)[k].op = ops[k] /\ Steps(ops, s)[k].s = s
                                   /\ Steps(ops, s)[k].w = None
<1>1. Len(ops) \in Nat /\ DOMAIN ops = 1..Len(ops) /\ \A k \in 1..Len(ops) : ops[k] \in Ops
  BY LenProperties
<1>2. \A k \in 1..Len(ops) : Step(ops[k], s) \in StepRecord
  BY <1>1 DEF Step, StepRecord
<1>3. Steps(ops, s) = [k \in 1..Len(ops) |-> Step(ops[k], s)]
  BY <1>1 DEF Steps
<1>4. Steps(ops, s) \in [1..Len(ops) -> StepRecord]
  BY <1>2, <1>3
<1>5. Steps(ops, s) \in Seq(StepRecord)
  BY <1>1, <1>4, SeqDef
<1>6. Len(Steps(ops, s)) = Len(ops)
  BY <1>1, <1>4, <1>5, LenProperties
<1> QED BY <1>1, <1>3, <1>5, <1>6 DEF Step

LEMMA TailShape ==
  ASSUME NEW t, NEW T, ShapeOf(t, T), T # <<>>
  PROVE  ShapeOf(t, Tail(T))
<1>1. /\ T \in Seq(StepRecord) /\ Tail(T) \in Seq(StepRecord)
      /\ Len(Tail(T)) = Len(T) - 1 /\ Len(T) \in Nat /\ Len(T) > 0
      /\ \A i \in 1..Len(Tail(T)) : i + 1 \in 1..Len(T) /\ Tail(T)[i] = T[i + 1]
  BY TailElements DEF ShapeOf
<1>2. \A k \in 1..Len(Tail(T)) : StepShape(t, Tail(T)[k])
  BY <1>1 DEF ShapeOf
<1>3. \A j, k \in 1..Len(Tail(T)) : j < k => Precedes(Tail(T)[j], Tail(T)[k])
  BY <1>1 DEF ShapeOf
<1>4. \A k \in 1..Len(Tail(T)) : k + 1 \in 1..Len(Tail(T)) => Leads(Tail(T)[k], Tail(T)[k + 1])
  BY <1>1 DEF ShapeOf
<1>5. Tail(T) # <<>> => Ends(Tail(T)[Len(Tail(T))])
  <2> SUFFICES ASSUME Tail(T) # <<>> PROVE Ends(Tail(T)[Len(Tail(T))])
    OBVIOUS
  <2>1. Len(Tail(T)) > 0
    BY <1>1, EmptySeq
  <2>2. Tail(T)[Len(Tail(T))] = T[Len(T)]
    BY <1>1, <2>1
  <2> QED BY <2>2 DEF ShapeOf
<1> QED BY <1>1, <1>2, <1>3, <1>4, <1>5 DEF ShapeOf

\* A step of sending a record is the only one of its thread.
LEMMA SendingAlone ==
  ASSUME NEW t, NEW T, ShapeOf(t, T), NEW k \in 1..Len(T), T[k].op \in SendingOps
  PROVE  Len(T) = 1 /\ k = 1
<1>1. Len(T) \in Nat
  BY LenProperties DEF ShapeOf
<1>2. \A j \in 1..Len(T) : j = k
  <2> SUFFICES ASSUME NEW j \in 1..Len(T), j # k PROVE FALSE
    OBVIOUS
  <2>1. CASE j < k
    BY <2>1, <1>1 DEF ShapeOf, Precedes
  <2>2. CASE k < j
    BY <2>2, <1>1 DEF ShapeOf, Precedes
  <2> QED BY <2>1, <2>2, <1>1
<1>3. 1 \in 1..Len(T) /\ Len(T) \in 1..Len(T)
  BY <1>1
<1> QED BY <1>1, <1>2, <1>3

\* The step at the head gives way to the next of the same sending or closing.
LEMMA HeadShape ==
  ASSUME NEW t, NEW T, ShapeOf(t, T), T # <<>>, NEW h, StepShape(t, h),
         \/ Head(T).op \in SendingOps /\ h.op \in SendingOps
         \/ Head(T).op = "failQueue" /\ h.op = "drain" /\ h.s = Head(T).s
  PROVE  ShapeOf(t, <<h>> \o Tail(T))
<1> DEFINE U == <<h>> \o Tail(T)
<1>1. /\ T \in Seq(StepRecord) /\ Tail(T) \in Seq(StepRecord) /\ Head(T) = T[1]
      /\ Len(Tail(T)) = Len(T) - 1 /\ Len(T) \in Nat /\ Len(T) > 0
      /\ \A i \in 1..Len(Tail(T)) : i + 1 \in 1..Len(T) /\ Tail(T)[i] = T[i + 1]
  BY TailElements DEF ShapeOf
<1>2. h \in StepRecord
  BY DEF StepShape
<1>3. /\ U \in Seq(StepRecord) /\ Len(U) = Len(T) /\ U[1] = h
      /\ \A i \in 1..Len(Tail(T)) : U[i + 1] = Tail(T)[i]
  BY <1>1, <1>2, FrontElements
<1>4. \A k \in 1..Len(T) : k # 1 => U[k] = T[k]
  <2> TAKE k \in 1..Len(T)
  <2> HAVE k # 1
  <2>1. k - 1 \in 1..Len(Tail(T)) /\ (k - 1) + 1 = k
    BY <1>1
  <2> QED BY <1>1, <1>3, <2>1
<1>5. CASE Head(T).op \in SendingOps /\ h.op \in SendingOps
  <2>1. Len(T) = 1
    BY <1>1, <1>5, SendingAlone
  <2>2. Ends(h)
    BY <1>5 DEF Ends, SendingOps, CarryOps, StopOps, PastOps
  <2> HIDE DEF U
  <2>3. ShapeOf(t, U)
    BY <1>3, <2>1, <2>2 DEF ShapeOf
  <2> QED BY <2>3 DEF U
<1>6. CASE Head(T).op = "failQueue" /\ h.op = "drain" /\ h.s = Head(T).s
  <2> HIDE DEF U
  <2>1. \A k \in 1..Len(T) : 1 < k => Precedes(h, T[k])
    <3> TAKE k \in 1..Len(T)
    <3> HAVE 1 < k
    <3>1. Precedes(T[1], T[k])
      BY <1>1 DEF ShapeOf
    <3> QED BY <3>1, <1>1, <1>6 DEF Precedes, SendingOps, CarryOps, OpeningOps, StopOps, PastOps, SettleOps
  <2>2. \A b : Leads(h, b)
    BY <1>6 DEF Leads
  <2>3. Ends(h)
    BY <1>6 DEF Ends, StopOps, PastOps
  <2>4. \A k \in 1..Len(U) : StepShape(t, U[k])
    BY <1>1, <1>3, <1>4 DEF ShapeOf
  <2>5. \A j, k \in 1..Len(U) : j < k => Precedes(U[j], U[k])
    BY <1>1, <1>3, <1>4, <2>1 DEF ShapeOf
  <2>6. \A k \in 1..Len(U) : k + 1 \in 1..Len(U) => Leads(U[k], U[k + 1])
    BY <1>1, <1>3, <1>4, <2>2 DEF ShapeOf
  <2>7. Ends(U[Len(U)])
    BY <1>1, <1>3, <1>4, <2>3 DEF ShapeOf
  <2>8. ShapeOf(t, U)
    BY <1>3, <2>4, <2>5, <2>6, <2>7 DEF ShapeOf
  <2> QED BY <2>8 DEF U
<1> QED BY <1>5, <1>6

LEMMA EmptyShape == ASSUME NEW t PROVE ShapeOf(t, <<>>)
<1>1. <<>> \in Seq(StepRecord) /\ Len(<<>>) = 0
  BY EmptySeq
<1> QED BY <1>1 DEF ShapeOf

----------------------------------------------------------------------------
(* What a thread starts with.                                              *)

LEMMA OneShape ==
  ASSUME NEW t, NEW e, StepShape(t, e), Ends(e)
  PROVE  ShapeOf(t, <<e>>) /\ Len(<<e>>) = 1 /\ <<e>>[1] = e
<1>1. <<e>> \in Seq(StepRecord) /\ Len(<<e>>) = 1 /\ <<e>>[1] = e
  BY DEF StepShape
<1> QED BY <1>1 DEF ShapeOf

\* Steps that are all of one session, given by their operations.
Plan(T, ops, s) ==
  /\ T \in Seq(StepRecord) /\ Len(T) = Len(ops)
  /\ \A k \in 1..Len(ops) : T[k].op = ops[k] /\ T[k].s = s /\ T[k].w = None


LEMMA OpenPlan ==
  ASSUME NEW t, t = "module", NEW s \in Sessions
  PROVE  ShapeOf(t, Steps(<<"put", "schedule", "connect", "putGatt">>, s)) /\ Plan(Steps(<<"put", "schedule", "connect", "putGatt">>, s), <<"put", "schedule", "connect", "putGatt">>, s)
<1> DEFINE ops == <<"put", "schedule", "connect", "putGatt">>
           T == Steps(<<"put", "schedule", "connect", "putGatt">>, s)
<1>1. ops \in Seq(Ops) /\ Len(ops) = 4
  BY DEF Ops, OpeningOps, SendingOps, CarryOps, SettleOps, ClosingOps, PastOps, StopOps
<1>2. T = Steps(ops, s)
  OBVIOUS
<1>3. Plan(T, ops, s)
  <2> HIDE DEF T, ops
  <2> QED BY <1>1, <1>2, StepsElements DEF Plan
<1>4. /\ T \in Seq(StepRecord) /\ Len(T) = 4
      /\ \A k \in 1..4 : T[k] \in StepRecord /\ T[k].s = s /\ T[k].w = None
      /\ T[1].op = "put" /\ T[2].op = "schedule" /\ T[3].op = "connect" /\ T[4].op = "putGatt"
  <2> HIDE DEF T
  <2>1. T \in Seq(StepRecord) /\ Len(T) = 4
    BY <1>1, <1>3 DEF Plan
  <2>2. \A k \in 1..4 : T[k] \in StepRecord
    BY <2>1, ElementOfSeq
  <2>3. \A k \in 1..4 : T[k].op = ops[k] /\ T[k].s = s /\ T[k].w = None
    BY <1>1, <1>3 DEF Plan
  <2> QED BY <2>1, <2>2, <2>3
<1> HIDE DEF T
<1>5. \A k \in 1..4 : StepShape(t, T[k])
  BY <1>4 DEF StepShape, Ops, OpeningOps, CarryOps, SendingOps, SettleOps, ClosingOps, PastOps, StopOps
<1>6. \A j, k \in 1..4 : j < k => Precedes(T[j], T[k])
  BY <1>4 DEF Precedes, OpeningOps, CarryOps, SendingOps, SettleOps, ClosingOps, PastOps, StopOps
<1>7. \A k \in 1..4 : k + 1 \in 1..4 => Leads(T[k], T[k + 1])
  BY <1>4 DEF Leads, SettleOps
<1>8. Ends(T[4])
  BY <1>4 DEF Ends, PastOps, StopOps
<1>9. ShapeOf(t, T)
  BY <1>4, <1>5, <1>6, <1>7, <1>8 DEF ShapeOf
<1> QED BY <1>3, <1>9 DEF T

LEMMA ClosePlan ==
  ASSUME NEW t, NEW s \in Sessions
  PROVE  ShapeOf(t, CloseSteps(s)) /\ Plan(CloseSteps(s), <<"cancelTimeout", "rejectPending", "failActive", "failQueue", "drop">>, s)
<1> DEFINE ops == <<"cancelTimeout", "rejectPending", "failActive", "failQueue", "drop">>
           T == CloseSteps(s)
<1>1. ops \in Seq(Ops) /\ Len(ops) = 5
  BY DEF Ops, OpeningOps, SendingOps, CarryOps, SettleOps, ClosingOps, PastOps, StopOps
<1>2. T = Steps(ops, s)
  BY DEF CloseSteps
<1>3. Plan(T, ops, s)
  <2> HIDE DEF T, ops
  <2> QED BY <1>1, <1>2, StepsElements DEF Plan
<1>4. /\ T \in Seq(StepRecord) /\ Len(T) = 5
      /\ \A k \in 1..5 : T[k] \in StepRecord /\ T[k].s = s /\ T[k].w = None
      /\ T[1].op = "cancelTimeout" /\ T[2].op = "rejectPending" /\ T[3].op = "failActive" /\ T[4].op = "failQueue" /\ T[5].op = "drop"
  <2> HIDE DEF T
  <2>1. T \in Seq(StepRecord) /\ Len(T) = 5
    BY <1>1, <1>3 DEF Plan
  <2>2. \A k \in 1..5 : T[k] \in StepRecord
    BY <2>1, ElementOfSeq
  <2>3. \A k \in 1..5 : T[k].op = ops[k] /\ T[k].s = s /\ T[k].w = None
    BY <1>1, <1>3 DEF Plan
  <2> QED BY <2>1, <2>2, <2>3
<1> HIDE DEF T
<1>5. \A k \in 1..5 : StepShape(t, T[k])
  BY <1>4 DEF StepShape, Ops, OpeningOps, CarryOps, SendingOps, SettleOps, ClosingOps, PastOps, StopOps
<1>6. \A j, k \in 1..5 : j < k => Precedes(T[j], T[k])
  BY <1>4 DEF Precedes, OpeningOps, CarryOps, SendingOps, SettleOps, ClosingOps, PastOps, StopOps
<1>7. \A k \in 1..5 : k + 1 \in 1..5 => Leads(T[k], T[k + 1])
  BY <1>4 DEF Leads, SettleOps
<1>8. Ends(T[5])
  BY <1>4 DEF Ends, PastOps, StopOps
<1>9. ShapeOf(t, T)
  BY <1>4, <1>5, <1>6, <1>7, <1>8 DEF ShapeOf
<1> QED BY <1>3, <1>9 DEF T

LEMMA FailPlan ==
  ASSUME NEW t, NEW s \in Sessions
  PROVE  ShapeOf(t, FailSteps(s)) /\ Plan(FailSteps(s), <<"cancelTimeout", "rejectPending", "drop">>, s)
<1> DEFINE ops == <<"cancelTimeout", "rejectPending", "drop">>
           T == FailSteps(s)
<1>1. ops \in Seq(Ops) /\ Len(ops) = 3
  BY DEF Ops, OpeningOps, SendingOps, CarryOps, SettleOps, ClosingOps, PastOps, StopOps
<1>2. T = Steps(ops, s)
  BY DEF FailSteps
<1>3. Plan(T, ops, s)
  <2> HIDE DEF T, ops
  <2> QED BY <1>1, <1>2, StepsElements DEF Plan
<1>4. /\ T \in Seq(StepRecord) /\ Len(T) = 3
      /\ \A k \in 1..3 : T[k] \in StepRecord /\ T[k].s = s /\ T[k].w = None
      /\ T[1].op = "cancelTimeout" /\ T[2].op = "rejectPending" /\ T[3].op = "drop"
  <2> HIDE DEF T
  <2>1. T \in Seq(StepRecord) /\ Len(T) = 3
    BY <1>1, <1>3 DEF Plan
  <2>2. \A k \in 1..3 : T[k] \in StepRecord
    BY <2>1, ElementOfSeq
  <2>3. \A k \in 1..3 : T[k].op = ops[k] /\ T[k].s = s /\ T[k].w = None
    BY <1>1, <1>3 DEF Plan
  <2> QED BY <2>1, <2>2, <2>3
<1> HIDE DEF T
<1>5. \A k \in 1..3 : StepShape(t, T[k])
  BY <1>4 DEF StepShape, Ops, OpeningOps, CarryOps, SendingOps, SettleOps, ClosingOps, PastOps, StopOps
<1>6. \A j, k \in 1..3 : j < k => Precedes(T[j], T[k])
  BY <1>4 DEF Precedes, OpeningOps, CarryOps, SendingOps, SettleOps, ClosingOps, PastOps, StopOps
<1>7. \A k \in 1..3 : k + 1 \in 1..3 => Leads(T[k], T[k + 1])
  BY <1>4 DEF Leads, SettleOps
<1>8. Ends(T[3])
  BY <1>4 DEF Ends, PastOps, StopOps
<1>9. ShapeOf(t, T)
  BY <1>4, <1>5, <1>6, <1>7, <1>8 DEF ShapeOf
<1> QED BY <1>3, <1>9 DEF T

LEMMA ReadyPlan ==
  ASSUME NEW t, NEW s \in Sessions
  PROVE  ShapeOf(t, Steps(<<"cancelTimeout", "resolvePending">>, s)) /\ Plan(Steps(<<"cancelTimeout", "resolvePending">>, s), <<"cancelTimeout", "resolvePending">>, s)
<1> DEFINE ops == <<"cancelTimeout", "resolvePending">>
           T == Steps(<<"cancelTimeout", "resolvePending">>, s)
<1>1. ops \in Seq(Ops) /\ Len(ops) = 2
  BY DEF Ops, OpeningOps, SendingOps, CarryOps, SettleOps, ClosingOps, PastOps, StopOps
<1>2. T = Steps(ops, s)
  OBVIOUS
<1>3. Plan(T, ops, s)
  <2> HIDE DEF T, ops
  <2> QED BY <1>1, <1>2, StepsElements DEF Plan
<1>4. /\ T \in Seq(StepRecord) /\ Len(T) = 2
      /\ \A k \in 1..2 : T[k] \in StepRecord /\ T[k].s = s /\ T[k].w = None
      /\ T[1].op = "cancelTimeout" /\ T[2].op = "resolvePending"
  <2> HIDE DEF T
  <2>1. T \in Seq(StepRecord) /\ Len(T) = 2
    BY <1>1, <1>3 DEF Plan
  <2>2. \A k \in 1..2 : T[k] \in StepRecord
    BY <2>1, ElementOfSeq
  <2>3. \A k \in 1..2 : T[k].op = ops[k] /\ T[k].s = s /\ T[k].w = None
    BY <1>1, <1>3 DEF Plan
  <2> QED BY <2>1, <2>2, <2>3
<1> HIDE DEF T
<1>5. \A k \in 1..2 : StepShape(t, T[k])
  BY <1>4 DEF StepShape, Ops, OpeningOps, CarryOps, SendingOps, SettleOps, ClosingOps, PastOps, StopOps
<1>6. \A j, k \in 1..2 : j < k => Precedes(T[j], T[k])
  BY <1>4 DEF Precedes, OpeningOps, CarryOps, SendingOps, SettleOps, ClosingOps, PastOps, StopOps
<1>7. \A k \in 1..2 : k + 1 \in 1..2 => Leads(T[k], T[k + 1])
  BY <1>4 DEF Leads, SettleOps
<1>8. Ends(T[2])
  BY <1>4 DEF Ends, PastOps, StopOps
<1>9. ShapeOf(t, T)
  BY <1>4, <1>5, <1>6, <1>7, <1>8 DEF ShapeOf
<1> QED BY <1>3, <1>9 DEF T

LEMMA NoServicePlan ==
  ASSUME NEW t, NEW s \in Sessions
  PROVE  ShapeOf(t, Steps(<<"rejectPending", "report">>, s)) /\ Plan(Steps(<<"rejectPending", "report">>, s), <<"rejectPending", "report">>, s)
<1> DEFINE ops == <<"rejectPending", "report">>
           T == Steps(<<"rejectPending", "report">>, s)
<1>1. ops \in Seq(Ops) /\ Len(ops) = 2
  BY DEF Ops, OpeningOps, SendingOps, CarryOps, SettleOps, ClosingOps, PastOps, StopOps
<1>2. T = Steps(ops, s)
  OBVIOUS
<1>3. Plan(T, ops, s)
  <2> HIDE DEF T, ops
  <2> QED BY <1>1, <1>2, StepsElements DEF Plan
<1>4. /\ T \in Seq(StepRecord) /\ Len(T) = 2
      /\ \A k \in 1..2 : T[k] \in StepRecord /\ T[k].s = s /\ T[k].w = None
      /\ T[1].op = "rejectPending" /\ T[2].op = "report"
  <2> HIDE DEF T
  <2>1. T \in Seq(StepRecord) /\ Len(T) = 2
    BY <1>1, <1>3 DEF Plan
  <2>2. \A k \in 1..2 : T[k] \in StepRecord
    BY <2>1, ElementOfSeq
  <2>3. \A k \in 1..2 : T[k].op = ops[k] /\ T[k].s = s /\ T[k].w = None
    BY <1>1, <1>3 DEF Plan
  <2> QED BY <2>1, <2>2, <2>3
<1> HIDE DEF T
<1>5. \A k \in 1..2 : StepShape(t, T[k])
  BY <1>4 DEF StepShape, Ops, OpeningOps, CarryOps, SendingOps, SettleOps, ClosingOps, PastOps, StopOps
<1>6. \A j, k \in 1..2 : j < k => Precedes(T[j], T[k])
  BY <1>4 DEF Precedes, OpeningOps, CarryOps, SendingOps, SettleOps, ClosingOps, PastOps, StopOps
<1>7. \A k \in 1..2 : k + 1 \in 1..2 => Leads(T[k], T[k + 1])
  BY <1>4 DEF Leads, SettleOps
<1>8. Ends(T[2])
  BY <1>4 DEF Ends, PastOps, StopOps
<1>9. ShapeOf(t, T)
  BY <1>4, <1>5, <1>6, <1>7, <1>8 DEF ShapeOf
<1> QED BY <1>3, <1>9 DEF T

LEMMA ClientLostPlan ==
  ASSUME NEW t, NEW s \in Sessions
  PROVE  ShapeOf(t, Steps(<<"rejectPending", "failActive", "failQueue", "report">>, s)) /\ Plan(Steps(<<"rejectPending", "failActive", "failQueue", "report">>, s), <<"rejectPending", "failActive", "failQueue", "report">>, s)
<1> DEFINE ops == <<"rejectPending", "failActive", "failQueue", "report">>
           T == Steps(<<"rejectPending", "failActive", "failQueue", "report">>, s)
<1>1. ops \in Seq(Ops) /\ Len(ops) = 4
  BY DEF Ops, OpeningOps, SendingOps, CarryOps, SettleOps, ClosingOps, PastOps, StopOps
<1>2. T = Steps(ops, s)
  OBVIOUS
<1>3. Plan(T, ops, s)
  <2> HIDE DEF T, ops
  <2> QED BY <1>1, <1>2, StepsElements DEF Plan
<1>4. /\ T \in Seq(StepRecord) /\ Len(T) = 4
      /\ \A k \in 1..4 : T[k] \in StepRecord /\ T[k].s = s /\ T[k].w = None
      /\ T[1].op = "rejectPending" /\ T[2].op = "failActive" /\ T[3].op = "failQueue" /\ T[4].op = "report"
  <2> HIDE DEF T
  <2>1. T \in Seq(StepRecord) /\ Len(T) = 4
    BY <1>1, <1>3 DEF Plan
  <2>2. \A k \in 1..4 : T[k] \in StepRecord
    BY <2>1, ElementOfSeq
  <2>3. \A k \in 1..4 : T[k].op = ops[k] /\ T[k].s = s /\ T[k].w = None
    BY <1>1, <1>3 DEF Plan
  <2> QED BY <2>1, <2>2, <2>3
<1> HIDE DEF T
<1>5. \A k \in 1..4 : StepShape(t, T[k])
  BY <1>4 DEF StepShape, Ops, OpeningOps, CarryOps, SendingOps, SettleOps, ClosingOps, PastOps, StopOps
<1>6. \A j, k \in 1..4 : j < k => Precedes(T[j], T[k])
  BY <1>4 DEF Precedes, OpeningOps, CarryOps, SendingOps, SettleOps, ClosingOps, PastOps, StopOps
<1>7. \A k \in 1..4 : k + 1 \in 1..4 => Leads(T[k], T[k + 1])
  BY <1>4 DEF Leads, SettleOps
<1>8. Ends(T[4])
  BY <1>4 DEF Ends, PastOps, StopOps
<1>9. ShapeOf(t, T)
  BY <1>4, <1>5, <1>6, <1>7, <1>8 DEF ShapeOf
<1> QED BY <1>3, <1>9 DEF T

LEMMA ServerLostPlan ==
  ASSUME NEW t, NEW s \in Sessions
  PROVE  ShapeOf(t, Steps(<<"failActive", "failQueue", "dropServer", "report">>, s)) /\ Plan(Steps(<<"failActive", "failQueue", "dropServer", "report">>, s), <<"failActive", "failQueue", "dropServer", "report">>, s)
<1> DEFINE ops == <<"failActive", "failQueue", "dropServer", "report">>
           T == Steps(<<"failActive", "failQueue", "dropServer", "report">>, s)
<1>1. ops \in Seq(Ops) /\ Len(ops) = 4
  BY DEF Ops, OpeningOps, SendingOps, CarryOps, SettleOps, ClosingOps, PastOps, StopOps
<1>2. T = Steps(ops, s)
  OBVIOUS
<1>3. Plan(T, ops, s)
  <2> HIDE DEF T, ops
  <2> QED BY <1>1, <1>2, StepsElements DEF Plan
<1>4. /\ T \in Seq(StepRecord) /\ Len(T) = 4
      /\ \A k \in 1..4 : T[k] \in StepRecord /\ T[k].s = s /\ T[k].w = None
      /\ T[1].op = "failActive" /\ T[2].op = "failQueue" /\ T[3].op = "dropServer" /\ T[4].op = "report"
  <2> HIDE DEF T
  <2>1. T \in Seq(StepRecord) /\ Len(T) = 4
    BY <1>1, <1>3 DEF Plan
  <2>2. \A k \in 1..4 : T[k] \in StepRecord
    BY <2>1, ElementOfSeq
  <2>3. \A k \in 1..4 : T[k].op = ops[k] /\ T[k].s = s /\ T[k].w = None
    BY <1>1, <1>3 DEF Plan
  <2> QED BY <2>1, <2>2, <2>3
<1> HIDE DEF T
<1>5. \A k \in 1..4 : StepShape(t, T[k])
  BY <1>4 DEF StepShape, Ops, OpeningOps, CarryOps, SendingOps, SettleOps, ClosingOps, PastOps, StopOps
<1>6. \A j, k \in 1..4 : j < k => Precedes(T[j], T[k])
  BY <1>4 DEF Precedes, OpeningOps, CarryOps, SendingOps, SettleOps, ClosingOps, PastOps, StopOps
<1>7. \A k \in 1..4 : k + 1 \in 1..4 => Leads(T[k], T[k + 1])
  BY <1>4 DEF Leads, SettleOps
<1>8. Ends(T[4])
  BY <1>4 DEF Ends, PastOps, StopOps
<1>9. ShapeOf(t, T)
  BY <1>4, <1>5, <1>6, <1>7, <1>8 DEF ShapeOf
<1> QED BY <1>3, <1>9 DEF T

LEMMA StopPlan ==
  ASSUME NEW t, t \in {"module", "main"}
  PROVE  ShapeOf(t, StopSteps) /\ Plan(StopSteps, <<"stopGatts", "rejectOpens", "clearOpens", "rejectActive", "clearActive", "rejectQueues", "clearQueues", "clearRest">>, None)
<1> DEFINE ops == <<"stopGatts", "rejectOpens", "clearOpens", "rejectActive", "clearActive", "rejectQueues", "clearQueues", "clearRest">>
           T == StopSteps
<1>1. ops \in Seq(Ops) /\ Len(ops) = 8
  BY DEF Ops, OpeningOps, SendingOps, CarryOps, SettleOps, ClosingOps, PastOps, StopOps
<1>2. T = Steps(ops, None)
  BY DEF StopSteps
<1>3. Plan(T, ops, None)
  <2> HIDE DEF T, ops
  <2> QED BY <1>1, <1>2, StepsElements DEF Plan
<1>4. /\ T \in Seq(StepRecord) /\ Len(T) = 8
      /\ \A k \in 1..8 : T[k] \in StepRecord /\ T[k].s = None /\ T[k].w = None
      /\ T[1].op = "stopGatts" /\ T[2].op = "rejectOpens" /\ T[3].op = "clearOpens" /\ T[4].op = "rejectActive" /\ T[5].op = "clearActive" /\ T[6].op = "rejectQueues" /\ T[7].op = "clearQueues" /\ T[8].op = "clearRest"
  <2> HIDE DEF T
  <2>1. T \in Seq(StepRecord) /\ Len(T) = 8
    BY <1>1, <1>3 DEF Plan
  <2>2. \A k \in 1..8 : T[k] \in StepRecord
    BY <2>1, ElementOfSeq
  <2>3. \A k \in 1..8 : T[k].op = ops[k] /\ T[k].s = None /\ T[k].w = None
    BY <1>1, <1>3 DEF Plan
  <2> QED BY <2>1, <2>2, <2>3
<1> HIDE DEF T
<1>5. \A k \in 1..8 : StepShape(t, T[k])
  BY <1>4 DEF StepShape, Ops, OpeningOps, CarryOps, SendingOps, SettleOps, ClosingOps, PastOps, StopOps
<1>6. \A j, k \in 1..8 : j < k => Precedes(T[j], T[k])
  BY <1>4 DEF Precedes, OpeningOps, CarryOps, SendingOps, SettleOps, ClosingOps, PastOps, StopOps
<1>7. \A k \in 1..8 : k + 1 \in 1..8 => Leads(T[k], T[k + 1])
  BY <1>4 DEF Leads, SettleOps
<1>8. Ends(T[8])
  BY <1>4 DEF Ends, PastOps, StopOps
<1>9. ShapeOf(t, T)
  BY <1>4, <1>5, <1>6, <1>7, <1>8 DEF ShapeOf
<1> QED BY <1>3, <1>9 DEF T

\* The timeout's: the closing of the session after its open was settled.
LEMMA TimeoutPlan ==
  ASSUME NEW t, NEW s \in Sessions
  PROVE  LET T == Steps(<<"rejectPending">>, s) \o CloseSteps(s)
         IN  /\ ShapeOf(t, T)
             /\ Plan(T, <<"rejectPending", "cancelTimeout", "rejectPending", "failActive", "failQueue", "drop">>, s)
<1> DEFINE ops == <<"rejectPending", "cancelTimeout", "rejectPending", "failActive", "failQueue", "drop">>
           H == Steps(<<"rejectPending">>, s)
           C == CloseSteps(s)
           T == H \o C
<1>1. /\ C \in Seq(StepRecord) /\ Len(C) = 5
      /\ \A k \in 1..5 : C[k].s = s /\ C[k].w = None
      /\ C[1].op = "cancelTimeout" /\ C[2].op = "rejectPending" /\ C[3].op = "failActive"
      /\ C[4].op = "failQueue" /\ C[5].op = "drop"
  <2> HIDE DEF C
  <2>1. Plan(C, <<"cancelTimeout", "rejectPending", "failActive", "failQueue", "drop">>, s)
    BY ClosePlan DEF C
  <2> QED BY <2>1 DEF Plan
<1>2. /\ H \in Seq(StepRecord) /\ Len(H) = 1
      /\ H[1].s = s /\ H[1].w = None /\ H[1].op = "rejectPending"
  <2> DEFINE one == <<"rejectPending">>
  <2>1. one \in Seq(Ops) /\ Len(one) = 1 /\ one[1] = "rejectPending"
    BY DEF Ops, ClosingOps, SettleOps
  <2> HIDE DEF one
  <2>2. Steps(one, s) \in Seq(StepRecord) /\ Len(Steps(one, s)) = 1
    BY <2>1, StepsElements
  <2>3. Steps(one, s)[1].s = s /\ Steps(one, s)[1].w = None /\ Steps(one, s)[1].op = "rejectPending"
    BY <2>1, StepsElements
  <2> QED BY <2>2, <2>3 DEF one
<1> HIDE DEF C, H
<1>3. T \in Seq(StepRecord) /\ Len(T) = 6 /\ T[1] = H[1] /\ \A k \in 2..6 : T[k] = C[k - 1]
  <2>1. /\ H \o C \in Seq(StepRecord) /\ Len(H \o C) = Len(H) + Len(C)
        /\ \A i \in 1..Len(H) + Len(C) : (H \o C)[i] = IF i <= Len(H) THEN H[i] ELSE C[i - Len(H)]
    BY <1>1, <1>2, ConcatProperties
  <2> QED BY <1>1, <1>2, <2>1
<1>4. /\ T \in Seq(StepRecord) /\ Len(T) = 6
      /\ \A k \in 1..6 : T[k] \in StepRecord /\ T[k].s = s /\ T[k].w = None
      /\ T[1].op = "rejectPending" /\ T[2].op = "cancelTimeout" /\ T[3].op = "rejectPending"
      /\ T[4].op = "failActive" /\ T[5].op = "failQueue" /\ T[6].op = "drop"
  <2> HIDE DEF T
  <2>1. \A k \in 1..6 : T[k] \in StepRecord
    BY <1>3, ElementOfSeq
  <2>2. T[2] = C[1] /\ T[3] = C[2] /\ T[4] = C[3] /\ T[5] = C[4] /\ T[6] = C[5]
    BY <1>3
  <2> QED BY <1>1, <1>2, <1>3, <2>1, <2>2
<1> HIDE DEF T
<1>5. \A k \in 1..6 : StepShape(t, T[k])
  BY <1>4 DEF StepShape, Ops, OpeningOps, CarryOps, SendingOps, SettleOps, ClosingOps, PastOps, StopOps
<1>6. \A j, k \in 1..6 : j < k => Precedes(T[j], T[k])
  BY <1>4 DEF Precedes, OpeningOps, CarryOps, SendingOps, SettleOps, ClosingOps, PastOps, StopOps
<1>7. \A k \in 1..6 : k + 1 \in 1..6 => Leads(T[k], T[k + 1])
  BY <1>4 DEF Leads, SettleOps
<1>8. Ends(T[6])
  BY <1>4 DEF Ends, PastOps, StopOps
<1>9. ShapeOf(t, T)
  BY <1>4, <1>5, <1>6, <1>7, <1>8 DEF ShapeOf
<1>10. Plan(T, ops, s)
  BY <1>4 DEF Plan
<1> QED BY <1>9, <1>10 DEF T, H, C

\* One step of a session.
LEMMA OneStep ==
  ASSUME NEW op \in Ops, NEW s \in Sessions \cup {None}
  PROVE  /\ Steps(<<op>>, s) = <<Step(op, s)>> /\ Step(op, s) \in StepRecord
         /\ Step(op, s).op = op /\ Step(op, s).s = s /\ Step(op, s).w = None
<1>1. <<op>> \in Seq(Ops) /\ Len(<<op>>) = 1 /\ <<op>>[1] = op
  OBVIOUS
<1>2. Step(op, s) \in StepRecord /\ Step(op, s).op = op /\ Step(op, s).s = s /\ Step(op, s).w = None
  BY DEF Step, StepRecord
<1>3. Steps(<<op>>, s) \in Seq(StepRecord) /\ Len(Steps(<<op>>, s)) = 1 /\ Steps(<<op>>, s)[1] = Step(op, s)
  <2> DEFINE ops == <<op>>
  <2> HIDE DEF ops
  <2>1. ops \in Seq(Ops) /\ Len(ops) = 1 /\ ops[1] = op
    BY <1>1 DEF ops
  <2>2. Steps(ops, s) \in Seq(StepRecord) /\ Len(Steps(ops, s)) = 1 /\ Steps(ops, s)[1] = Step(op, s)
    BY <2>1, StepsElements
  <2> QED BY <2>2 DEF ops
<1>4. <<Step(op, s)>> \in Seq(StepRecord) /\ Len(<<Step(op, s)>>) = 1
  BY <1>2
<1>5. Steps(<<op>>, s) = <<Step(op, s)>>
  BY <1>3, <1>4, SeqEqual
<1> QED BY <1>2, <1>5

----------------------------------------------------------------------------
(* What a step does to what its thread has left to do.                     *)

Pops(t)      == todo[t] # <<>> /\ todo' = [todo EXCEPT ![t] = Tail(@)]
Clears(t)    == todo[t] # <<>> /\ todo' = [todo EXCEPT ![t] = <<>>]
Swaps(t, h)  == todo[t] # <<>> /\ todo' = [todo EXCEPT ![t] = <<h>> \o Tail(@)]
Starts(t, T) == todo[t] = <<>> /\ todo' = [todo EXCEPT ![t] = T]

\* Queues only come, and no open is taken back.
Grows ==
  /\ \A s \in Sessions : opened[s] # "no" => opened'[s] # "no"
  /\ \A s \in Sessions : Len(queues[s]) \in Nat /\ Len(queues'[s]) \in Nat /\ Len(queues[s]) <= Len(queues'[s])

LEMMA FitsGrows ==
  ASSUME Grows, NEW t, NEW e, StepShape(t, e), StepFits(e, queues, opened)
  PROVE  StepFits(e, queues', opened')
BY DEF Grows, StepFits, StepShape, QueueOps, OpeningOps, StopOps, PastOps

LEMMA TodoMoves ==
  ASSUME TodoInv, Grows, NEW t \in Threads, NEW X, ShapeOf(t, X),
         todo' = [todo EXCEPT ![t] = X], \A k \in 1..Len(X) : StepFits(X[k], queues', opened')
  PROVE  TodoInv' /\ todo'[t] = X /\ \A u \in Threads : u # t => todo'[u] = todo[u]
<1>1. /\ todo' \in [Threads -> Seq(StepRecord)] /\ todo'[t] = X
      /\ \A u \in Threads : u # t => todo'[u] = todo[u]
  BY DEF TodoInv, ShapeOf
<1>2. \A u \in Threads : ShapeOf(u, todo'[u])
  BY <1>1 DEF TodoInv
<1>3. \A u \in Threads : \A k \in 1..Len(todo'[u]) : StepFits(todo'[u][k], queues', opened')
  <2> TAKE u \in Threads
  <2> TAKE k \in 1..Len(todo'[u])
  <2>1. CASE u = t
    BY <1>1, <2>1
  <2>2. CASE u # t
    <3>1. todo'[u] = todo[u] /\ StepFits(todo[u][k], queues, opened) /\ StepShape(u, todo[u][k])
      BY <1>1, <2>2 DEF TodoInv, ShapeOf
    <3>2. StepFits(todo[u][k], queues', opened')
      BY <3>1, FitsGrows
    <3> QED BY <3>1, <3>2
  <2> QED BY <2>1, <2>2
<1> QED BY <1>1, <1>2, <1>3 DEF TodoInv

LEMMA PopsKeeps ==
  ASSUME TodoInv, Grows, NEW t \in Threads, Pops(t)
  PROVE  /\ TodoInv' /\ \A u \in Threads : u # t => todo'[u] = todo[u]
         /\ todo'[t] = Tail(todo[t]) /\ Len(todo'[t]) = Len(todo[t]) - 1 /\ Len(todo[t]) \in Nat \ {0}
         /\ \A k \in 1..Len(todo'[t]) : k + 1 \in 1..Len(todo[t]) /\ todo'[t][k] = todo[t][k + 1]
<1>1. ShapeOf(t, Tail(todo[t])) /\ todo' = [todo EXCEPT ![t] = Tail(todo[t])]
  BY TailShape DEF TodoInv, Pops
<1>2. /\ Len(Tail(todo[t])) = Len(todo[t]) - 1 /\ Len(todo[t]) \in Nat \ {0}
      /\ \A k \in 1..Len(Tail(todo[t])) : k + 1 \in 1..Len(todo[t]) /\ Tail(todo[t])[k] = todo[t][k + 1]
  BY TailElements DEF TodoInv, Pops
<1>3. \A k \in 1..Len(Tail(todo[t])) : StepFits(Tail(todo[t])[k], queues', opened')
  <2> TAKE k \in 1..Len(Tail(todo[t]))
  <2>1. k + 1 \in 1..Len(todo[t]) /\ Tail(todo[t])[k] = todo[t][k + 1]
    BY <1>2
  <2>2. StepFits(todo[t][k + 1], queues, opened) /\ StepShape(t, todo[t][k + 1])
    BY <2>1 DEF TodoInv, ShapeOf
  <2> QED BY <2>1, <2>2, FitsGrows
<1>4. TodoInv' /\ todo'[t] = Tail(todo[t]) /\ \A u \in Threads : u # t => todo'[u] = todo[u]
  BY <1>1, <1>3, TodoMoves
<1> QED BY <1>2, <1>4

LEMMA ClearsKeeps ==
  ASSUME TodoInv, Grows, NEW t \in Threads, Clears(t)
  PROVE  TodoInv' /\ todo'[t] = <<>> /\ Len(todo'[t]) = 0 /\ \A u \in Threads : u # t => todo'[u] = todo[u]
<1>1. ShapeOf(t, <<>>) /\ todo' = [todo EXCEPT ![t] = <<>>] /\ Len(<<>>) = 0
  BY EmptyShape, EmptySeq DEF Clears
<1>2. \A k \in 1..Len(<<>>) : StepFits(<<>>[k], queues', opened')
  BY <1>1
<1> QED BY <1>1, <1>2, TodoMoves

LEMMA SwapsKeeps ==
  ASSUME TodoInv, Grows, NEW t \in Threads, NEW h, Swaps(t, h),
         StepShape(t, h), StepFits(h, queues', opened'),
         \/ Head(todo[t]).op \in SendingOps /\ h.op \in SendingOps
         \/ Head(todo[t]).op = "failQueue" /\ h.op = "drain" /\ h.s = Head(todo[t]).s
  PROVE  /\ TodoInv' /\ \A u \in Threads : u # t => todo'[u] = todo[u]
         /\ todo'[t] # <<>> /\ Head(todo'[t]) = h /\ todo'[t][1] = h
         /\ Len(todo'[t]) = Len(todo[t]) /\ Len(todo[t]) \in Nat \ {0}
         /\ \A k \in 1..Len(todo[t]) : k # 1 => todo'[t][k] = todo[t][k]
<1> DEFINE T == todo[t]
           U == <<h>> \o Tail(T)
<1>1. T # <<>> /\ todo' = [todo EXCEPT ![t] = U] /\ ShapeOf(t, T)
  BY DEF Swaps, TodoInv
<1>2. ShapeOf(t, U)
  BY <1>1, HeadShape
<1>3. /\ T \in Seq(StepRecord) /\ Tail(T) \in Seq(StepRecord) /\ h \in StepRecord
      /\ Len(Tail(T)) = Len(T) - 1 /\ Len(T) \in Nat /\ Len(T) > 0
      /\ \A i \in 1..Len(Tail(T)) : i + 1 \in 1..Len(T) /\ Tail(T)[i] = T[i + 1]
  BY <1>1, TailElements DEF ShapeOf, StepShape
<1>4. /\ U # <<>> /\ Head(U) = h /\ U[1] = h /\ Len(U) = Len(T)
      /\ \A i \in 1..Len(Tail(T)) : U[i + 1] = Tail(T)[i]
  BY <1>3, FrontElements
<1>5. \A k \in 1..Len(T) : k # 1 => U[k] = T[k]
  <2> TAKE k \in 1..Len(T)
  <2> HAVE k # 1
  <2>1. k - 1 \in 1..Len(Tail(T)) /\ (k - 1) + 1 = k
    BY <1>3
  <2> QED BY <1>3, <1>4, <2>1
<1>6. \A k \in 1..Len(U) : StepFits(U[k], queues', opened')
  <2> TAKE k \in 1..Len(U)
  <2>1. CASE k = 1
    BY <1>4, <2>1
  <2>2. CASE k # 1
    <3>1. U[k] = T[k] /\ StepFits(T[k], queues, opened) /\ StepShape(t, T[k])
      BY <1>1, <1>4, <1>5, <2>2 DEF TodoInv, ShapeOf
    <3> QED BY <3>1, FitsGrows
  <2> QED BY <2>1, <2>2
<1>7. TodoInv' /\ todo'[t] = U /\ \A u \in Threads : u # t => todo'[u] = todo[u]
  <2> HIDE DEF U
  <2> QED BY <1>1, <1>2, <1>6, TodoMoves
<1> QED BY <1>3, <1>4, <1>5, <1>7

LEMMA StartsKeeps ==
  ASSUME TodoInv, Grows, NEW t \in Threads, NEW T, Starts(t, T), ShapeOf(t, T),
         \A k \in 1..Len(T) : T[k].op \notin QueueOps /\ (T[k].op \in OpeningOps => opened'[T[k].s] # "no")
  PROVE  TodoInv' /\ todo'[t] = T /\ todo[t] = <<>> /\ \A u \in Threads : u # t => todo'[u] = todo[u]
<1>1. \A k \in 1..Len(T) : StepFits(T[k], queues', opened')
  BY DEF StepFits
<1> QED BY <1>1, TodoMoves DEF Starts

LEMMA SameKeeps ==
  ASSUME TodoInv, Grows, UNCHANGED todo
  PROVE  TodoInv'
<1>1. \A u \in Threads : \A k \in 1..Len(todo[u]) : StepFits(todo[u][k], queues', opened')
  BY FitsGrows DEF TodoInv, ShapeOf
<1> QED BY <1>1 DEF TodoInv

\* The session, the record and the queue of the step at the head.
LEMMA HeadFacts ==
  ASSUME TodoInv, NEW t \in Threads, todo[t] # <<>>
  PROVE  /\ Head(todo[t]) = todo[t][1] /\ 1 \in 1..Len(todo[t]) /\ Len(todo[t]) \in Nat \ {0}
         /\ StepShape(t, Head(todo[t])) /\ StepFits(Head(todo[t]), queues, opened)
         /\ Head(todo[t]) \in StepRecord /\ todo[t] \in Seq(StepRecord)
<1>1. Head(todo[t]) = todo[t][1] /\ Len(todo[t]) \in Nat /\ Len(todo[t]) > 0
  BY TailElements DEF TodoInv
<1> QED BY <1>1 DEF TodoInv, ShapeOf, StepShape

LEMMA GoEmpty ==
  ASSUME TodoInv, NEW t \in Threads, todo[t] # <<>>, Go(t, <<>>)
  PROVE  Pops(t)
<1>1. <<>> \o Tail(todo[t]) = Tail(todo[t])
  BY TailElements, ConcatEmptySeq DEF TodoInv
<1>2. todo' = [todo EXCEPT ![t] = <<>> \o Tail(todo[t])]
  BY DEF Go
<1> QED BY <1>1, <1>2 DEF Pops

LEMMA GoStep ==
  ASSUME TodoInv, NEW t \in Threads, todo[t] # <<>>, NEW op \in Ops, NEW s \in Sessions \cup {None},
         Go(t, Steps(<<op>>, s))
  PROVE  Swaps(t, Step(op, s))
BY OneStep DEF Go, Swaps

LEMMA GoWith ==
  ASSUME TodoInv, NEW t \in Threads, todo[t] # <<>>, NEW op \in Ops, NEW w \in Records \cup {None}, NEW q \in Nat,
         Go(t, With(t, op, w, q))
  PROVE  LET h == [op |-> op, s |-> Head(todo[t]).s, w |-> w, q |-> q]
         IN  Swaps(t, h) /\ h \in StepRecord
<1> DEFINE h == [op |-> op, s |-> Head(todo[t]).s, w |-> w, q |-> q]
<1>1. Head(todo[t]) \in StepRecord
  BY HeadFacts
<1>2. h \in StepRecord
  BY <1>1 DEF StepRecord
<1> QED BY <1>2 DEF Go, With, Swaps

\* Settled at once, or one of them was settled before.
LEMMA OpensSettle ==
  ASSUME TodoInv, SetupOK, NEW t \in Threads, todo[t] # <<>>, NEW S \in SUBSET Sessions,
         NEW how \in {"resolved", "rejected"}, SettleOpens(t, S, how)
  PROVE  /\ opened' \in [Sessions -> {"no", "waiting", "resolved", "rejected"}]
         /\ \A s \in Sessions : opened'[s] = opened[s] \/ (s \in S /\ opened[s] = "waiting" /\ opened'[s] = how)
         /\ \/ Pops(t) /\ \A s \in S : opened'[s] = how
            \/ Clears(t) /\ \E s \in S : opened[s] # "waiting"
<1> DEFINE waiting == {s \in S : opened[s] = "waiting"}
           Settled(D) == [s \in Sessions |-> IF s \in D THEN how ELSE opened[s]]
<1>1. CASE waiting = S /\ opened' = Settled(S) /\ Go(t, <<>>)
  BY <1>1, GoEmpty DEF SetupOK
<1>2. CASE /\ waiting # S /\ \E D \in SUBSET waiting : opened' = Settled(D)
           /\ todo' = [todo EXCEPT ![t] = <<>>]
  <2>1. PICK D \in SUBSET waiting : opened' = Settled(D)
    BY <1>2
  <2> QED BY <1>2, <2>1 DEF SetupOK, Clears
<1> QED BY <1>1, <1>2 DEF SettleOpens

\* How the promises of records are settled.
OutcomeMoves(W, how) ==
  /\ outcome' \in [Records -> {"unsent", "waiting", "resolved", "rejected"}]
  /\ \A w \in Records : outcome'[w] = outcome[w] \/ (w \in W /\ outcome[w] = "waiting" /\ outcome'[w] = how)

LEMMA WritesSettle ==
  ASSUME TodoInv, QueuesOK, NEW t \in Threads, todo[t] # <<>>, NEW W \in SUBSET Records, NEW steps,
         NEW how \in {"resolved", "rejected"}, SettleWrites(t, W, how, steps)
  PROVE  /\ OutcomeMoves(W, how)
         /\ \/ Go(t, steps) /\ \A w \in W : outcome[w] = "waiting"
            \/ Clears(t) /\ \E w \in W : outcome[w] # "waiting"
<1> DEFINE waiting == {w \in W : outcome[w] = "waiting"}
           Settled(D) == [w \in Records |-> IF w \in D THEN how ELSE outcome[w]]
<1>1. CASE waiting = W /\ outcome' = Settled(W) /\ Go(t, steps)
  BY <1>1 DEF QueuesOK, OutcomeMoves
<1>2. CASE /\ waiting # W /\ \E D \in SUBSET waiting : outcome' = Settled(D)
           /\ todo' = [todo EXCEPT ![t] = <<>>]
  <2>1. PICK D \in SUBSET waiting : outcome' = Settled(D)
    BY <1>2
  <2> QED BY <1>2, <2>1 DEF QueuesOK, Clears, OutcomeMoves
<1> QED BY <1>1, <1>2 DEF SettleWrites

----------------------------------------------------------------------------
(* Type correctness, action by action.                                     *)

LEMMA GrowsSame ==
  ASSUME QueuesOK, \A s \in Sessions : opened[s] # "no" => opened'[s] # "no", UNCHANGED queues
  PROVE  Grows
<1>1. \A s \in Sessions : Len(queues[s]) \in Nat
  BY LenProperties DEF QueuesOK
<1> QED BY <1>1 DEF Grows

\* A step that only takes itself off leaves a well-formed rest.
LEMMA PlainPop ==
  ASSUME TypeInv, NEW t \in Threads, todo[t] # <<>>, Go(t, <<>>), UNCHANGED <<queues, opened>>
  PROVE  TodoInv' /\ Pops(t) /\ Grows
<1>1. Grows
  BY GrowsSame DEF TypeInv
<1>2. Pops(t)
  BY GoEmpty DEF TypeInv
<1> QED BY <1>1, <1>2, PopsKeeps DEF TypeInv


LEMMA PutType ==
  ASSUME TypeInv, NEW t \in Threads, todo[t] # <<>>, Put(t, Head(todo[t]).s)
  PROVE  TypeInv' /\ Pops(t) /\ Grows
<1> DEFINE s == Head(todo[t]).s
<1>1. Head(todo[t]).op = "put" /\ Go(t, <<>>) /\ UNCHANGED <<queues, opened>>
  BY DEF Put, Runs, radio, gatts, setup, writes, opens
<1>2. s \in Sessions /\ StepFits(Head(todo[t]), queues, opened)
  BY <1>1, HeadFacts DEF TypeInv, StepShape, StopOps, PastOps
<1>3. TodoInv' /\ Pops(t) /\ Grows
  BY <1>1, PlainPop
<1> HIDE DEF s
<1>4. Put(t, s)
  BY DEF s
<1>5. RadioOK'
  BY <1>2, <1>4 DEF TypeInv, RadioOK, Put, Alive, radio, gatts, setup, writes, opens
<1>6. SetupOK'
  BY <1>1, <1>2, <1>4 DEF TypeInv, RadioOK, SetupOK, StepFits, OpeningOps, Put, Alive, radio, gatts, setup, writes, opens, s
<1>7. QueuesOK'
  BY <1>2, <1>4 DEF TypeInv, QueuesOK, Put, radio, gatts, setup, writes, opens
<1> QED BY <1>3, <1>5, <1>6, <1>7 DEF TypeInv

LEMMA ScheduleType ==
  ASSUME TypeInv, NEW t \in Threads, todo[t] # <<>>, Schedule(t, Head(todo[t]).s)
  PROVE  TypeInv' /\ Pops(t) /\ Grows
<1> DEFINE s == Head(todo[t]).s
<1>1. Head(todo[t]).op = "schedule" /\ Go(t, <<>>) /\ UNCHANGED <<queues, opened>>
  BY DEF Schedule, Runs, radio, gatts, setup, writes, opens
<1>2. s \in Sessions /\ StepFits(Head(todo[t]), queues, opened)
  BY <1>1, HeadFacts DEF TypeInv, StepShape, StopOps, PastOps
<1>3. TodoInv' /\ Pops(t) /\ Grows
  BY <1>1, PlainPop
<1> HIDE DEF s
<1>4. Schedule(t, s)
  BY DEF s
<1>5. RadioOK'
  BY <1>2, <1>4 DEF TypeInv, RadioOK, Schedule, Alive, radio, gatts, setup, writes, opens
<1>6. SetupOK'
  BY <1>1, <1>2, <1>4 DEF TypeInv, RadioOK, SetupOK, StepFits, OpeningOps, Schedule, Alive, radio, gatts, setup, writes, opens, s
<1>7. QueuesOK'
  BY <1>2, <1>4 DEF TypeInv, QueuesOK, Schedule, radio, gatts, setup, writes, opens
<1> QED BY <1>3, <1>5, <1>6, <1>7 DEF TypeInv

LEMMA ConnectType ==
  ASSUME TypeInv, NEW t \in Threads, todo[t] # <<>>, Connect(t, Head(todo[t]).s)
  PROVE  TypeInv' /\ Pops(t) /\ Grows
<1> DEFINE s == Head(todo[t]).s
<1>1. Head(todo[t]).op = "connect" /\ Go(t, <<>>) /\ UNCHANGED <<queues, opened>>
  BY DEF Connect, Runs, radio, gatts, setup, writes, opens
<1>2. s \in Sessions /\ StepFits(Head(todo[t]), queues, opened)
  BY <1>1, HeadFacts DEF TypeInv, StepShape, StopOps, PastOps
<1>3. TodoInv' /\ Pops(t) /\ Grows
  BY <1>1, PlainPop
<1> HIDE DEF s
<1>4. Connect(t, s)
  BY DEF s
<1>5. RadioOK'
  BY <1>2, <1>4 DEF TypeInv, RadioOK, Connect, Alive, radio, gatts, setup, writes, opens
<1>6. SetupOK'
  BY <1>1, <1>2, <1>4 DEF TypeInv, RadioOK, SetupOK, StepFits, OpeningOps, Connect, Alive, radio, gatts, setup, writes, opens, s
<1>7. QueuesOK'
  BY <1>2, <1>4 DEF TypeInv, QueuesOK, Connect, radio, gatts, setup, writes, opens
<1> QED BY <1>3, <1>5, <1>6, <1>7 DEF TypeInv

LEMMA PutGattType ==
  ASSUME TypeInv, NEW t \in Threads, todo[t] # <<>>, PutGatt(t, Head(todo[t]).s)
  PROVE  TypeInv' /\ Pops(t) /\ Grows
<1> DEFINE s == Head(todo[t]).s
<1>1. Head(todo[t]).op = "putGatt" /\ Go(t, <<>>) /\ UNCHANGED <<queues, opened>>
  BY DEF PutGatt, Runs, radio, gatts, setup, writes, opens
<1>2. s \in Sessions /\ StepFits(Head(todo[t]), queues, opened)
  BY <1>1, HeadFacts DEF TypeInv, StepShape, StopOps, PastOps
<1>3. TodoInv' /\ Pops(t) /\ Grows
  BY <1>1, PlainPop
<1> HIDE DEF s
<1>4. PutGatt(t, s)
  BY DEF s
<1>5. RadioOK'
  BY <1>2, <1>4 DEF TypeInv, RadioOK, PutGatt, Alive, radio, gatts, setup, writes, opens
<1>6. SetupOK'
  BY <1>1, <1>2, <1>4 DEF TypeInv, RadioOK, SetupOK, StepFits, OpeningOps, PutGatt, Alive, radio, gatts, setup, writes, opens, s
<1>7. QueuesOK'
  BY <1>2, <1>4 DEF TypeInv, QueuesOK, PutGatt, radio, gatts, setup, writes, opens
<1> QED BY <1>3, <1>5, <1>6, <1>7 DEF TypeInv

LEMMA CancelTimeoutType ==
  ASSUME TypeInv, NEW t \in Threads, todo[t] # <<>>, CancelTimeout(t, Head(todo[t]).s)
  PROVE  TypeInv' /\ Pops(t) /\ Grows
<1> DEFINE s == Head(todo[t]).s
<1>1. Head(todo[t]).op = "cancelTimeout" /\ Go(t, <<>>) /\ UNCHANGED <<queues, opened>>
  BY DEF CancelTimeout, Runs, radio, gatts, setup, writes, opens
<1>2. s \in Sessions /\ StepFits(Head(todo[t]), queues, opened)
  BY <1>1, HeadFacts DEF TypeInv, StepShape, StopOps, PastOps
<1>3. TodoInv' /\ Pops(t) /\ Grows
  BY <1>1, PlainPop
<1> HIDE DEF s
<1>4. CancelTimeout(t, s)
  BY DEF s
<1>5. RadioOK'
  BY <1>2, <1>4 DEF TypeInv, RadioOK, CancelTimeout, Alive, radio, gatts, setup, writes, opens
<1>6. SetupOK'
  BY <1>1, <1>2, <1>4 DEF TypeInv, RadioOK, SetupOK, StepFits, OpeningOps, CancelTimeout, Alive, radio, gatts, setup, writes, opens, s
<1>7. QueuesOK'
  BY <1>2, <1>4 DEF TypeInv, QueuesOK, CancelTimeout, radio, gatts, setup, writes, opens
<1> QED BY <1>3, <1>5, <1>6, <1>7 DEF TypeInv

LEMMA DropType ==
  ASSUME TypeInv, NEW t \in Threads, todo[t] # <<>>, Drop(t, Head(todo[t]).s)
  PROVE  TypeInv' /\ Pops(t) /\ Grows
<1> DEFINE s == Head(todo[t]).s
<1>1. Head(todo[t]).op = "drop" /\ Go(t, <<>>) /\ UNCHANGED <<queues, opened>>
  BY DEF Drop, Runs, radio, gatts, setup, writes, opens
<1>2. s \in Sessions /\ StepFits(Head(todo[t]), queues, opened)
  BY <1>1, HeadFacts DEF TypeInv, StepShape, StopOps, PastOps
<1>3. TodoInv' /\ Pops(t) /\ Grows
  BY <1>1, PlainPop
<1> HIDE DEF s
<1>4. Drop(t, s)
  BY DEF s
<1>5. RadioOK'
  BY <1>2, <1>4 DEF TypeInv, RadioOK, Drop, Alive, radio, gatts, setup, writes, opens, Closed
<1>6. SetupOK'
  BY <1>1, <1>2, <1>4 DEF TypeInv, RadioOK, SetupOK, StepFits, OpeningOps, Drop, Alive, radio, gatts, setup, writes, opens, Closed, s
<1>7. QueuesOK'
  BY <1>2, <1>4 DEF TypeInv, QueuesOK, Drop, radio, gatts, setup, writes, opens
<1> QED BY <1>3, <1>5, <1>6, <1>7 DEF TypeInv

LEMMA DropServerType ==
  ASSUME TypeInv, NEW t \in Threads, todo[t] # <<>>, DropServer(t, Head(todo[t]).s)
  PROVE  TypeInv' /\ Pops(t) /\ Grows
<1> DEFINE s == Head(todo[t]).s
<1>1. Head(todo[t]).op = "dropServer" /\ Go(t, <<>>) /\ UNCHANGED <<queues, opened>>
  BY DEF DropServer, Runs, radio, gatts, setup, writes, opens
<1>2. s \in Sessions /\ StepFits(Head(todo[t]), queues, opened)
  BY <1>1, HeadFacts DEF TypeInv, StepShape, StopOps, PastOps
<1>3. TodoInv' /\ Pops(t) /\ Grows
  BY <1>1, PlainPop
<1> HIDE DEF s
<1>4. DropServer(t, s)
  BY DEF s
<1>5. RadioOK'
  BY <1>2, <1>4 DEF TypeInv, RadioOK, DropServer, Alive, radio, gatts, setup, writes, opens
<1>6. SetupOK'
  BY <1>1, <1>2, <1>4 DEF TypeInv, RadioOK, SetupOK, StepFits, OpeningOps, DropServer, Alive, radio, gatts, setup, writes, opens, s
<1>7. QueuesOK'
  BY <1>2, <1>4 DEF TypeInv, QueuesOK, DropServer, radio, gatts, setup, writes, opens
<1> QED BY <1>3, <1>5, <1>6, <1>7 DEF TypeInv

LEMMA ReportType ==
  ASSUME TypeInv, NEW t \in Threads, todo[t] # <<>>, Report(t, Head(todo[t]).s)
  PROVE  TypeInv' /\ Pops(t) /\ Grows
<1> DEFINE s == Head(todo[t]).s
<1>1. Head(todo[t]).op = "report" /\ Go(t, <<>>) /\ UNCHANGED <<queues, opened>>
  BY DEF Report, Runs, radio, gatts, setup, writes, opens
<1>2. s \in Sessions /\ StepFits(Head(todo[t]), queues, opened)
  BY <1>1, HeadFacts DEF TypeInv, StepShape, StopOps, PastOps
<1>3. TodoInv' /\ Pops(t) /\ Grows
  BY <1>1, PlainPop
<1> HIDE DEF s
<1>4. Report(t, s)
  BY DEF s
<1>5. RadioOK'
  BY <1>2, <1>4 DEF TypeInv, RadioOK, Report, Alive, radio, gatts, setup, writes, opens
<1>6. SetupOK'
  BY <1>1, <1>2, <1>4 DEF TypeInv, RadioOK, SetupOK, StepFits, OpeningOps, Report, Alive, radio, gatts, setup, writes, opens, s
<1>7. QueuesOK'
  BY <1>2, <1>4 DEF TypeInv, QueuesOK, Report, radio, gatts, setup, writes, opens
<1> QED BY <1>3, <1>5, <1>6, <1>7 DEF TypeInv

LEMMA RemoveQueueType ==
  ASSUME TypeInv, NEW t \in Threads, todo[t] # <<>>, RemoveQueue(t, Head(todo[t]).s)
  PROVE  TypeInv' /\ Pops(t) /\ Grows
<1> DEFINE s == Head(todo[t]).s
<1>1. Head(todo[t]).op = "removeQueue" /\ Go(t, <<>>) /\ UNCHANGED <<queues, opened>>
  BY DEF RemoveQueue, Runs, radio, gatts, setup, writes, opens
<1>2. s \in Sessions /\ StepFits(Head(todo[t]), queues, opened)
  BY <1>1, HeadFacts DEF TypeInv, StepShape, StopOps, PastOps
<1>3. TodoInv' /\ Pops(t) /\ Grows
  BY <1>1, PlainPop
<1> HIDE DEF s
<1>4. RemoveQueue(t, s)
  BY DEF s
<1>5. RadioOK'
  BY <1>2, <1>4 DEF TypeInv, RadioOK, RemoveQueue, Alive, radio, gatts, setup, writes, opens
<1>6. SetupOK'
  BY <1>1, <1>2, <1>4 DEF TypeInv, RadioOK, SetupOK, StepFits, OpeningOps, RemoveQueue, Alive, radio, gatts, setup, writes, opens, s
<1>7. QueuesOK'
  <2>1. writeQueues' = [writeQueues EXCEPT ![s] = 0] /\ UNCHANGED <<queues, activeWrites, outcome, written>>
    BY <1>4 DEF RemoveQueue
  <2>2. \A r \in Sessions : 0 \in 0..Len(queues[r])
    BY <1>3 DEF Grows
  <2> QED BY <1>2, <2>1, <2>2 DEF TypeInv, QueuesOK
<1> QED BY <1>3, <1>5, <1>6, <1>7 DEF TypeInv

LEMMA StopGattsType ==
  ASSUME TypeInv, NEW t \in Threads, todo[t] # <<>>, StopGatts(t)
  PROVE  TypeInv' /\ Pops(t) /\ Grows
<1>1. Go(t, <<>>) /\ UNCHANGED <<queues, opened>>
  BY DEF StopGatts, radio, gatts, setup, writes, opens
<1>2. TodoInv' /\ Pops(t) /\ Grows
  BY <1>1, PlainPop
<1>3. RadioOK'
  BY DEF TypeInv, RadioOK, StopGatts, Closed, Alive, radio, gatts, setup, writes, opens
<1>4. SetupOK'
  BY DEF TypeInv, RadioOK, SetupOK, StopGatts, Closed, Alive, radio, gatts, setup, writes, opens
<1>5. QueuesOK'
  BY DEF TypeInv, QueuesOK, StopGatts, radio, gatts, setup, writes, opens
<1> QED BY <1>2, <1>3, <1>4, <1>5 DEF TypeInv

LEMMA ClearRestType ==
  ASSUME TypeInv, NEW t \in Threads, todo[t] # <<>>, ClearRest(t)
  PROVE  TypeInv' /\ Pops(t) /\ Grows
<1>1. Go(t, <<>>) /\ UNCHANGED <<queues, opened>>
  BY DEF ClearRest, radio, gatts, setup, writes, opens
<1>2. TodoInv' /\ Pops(t) /\ Grows
  BY <1>1, PlainPop
<1>3. RadioOK'
  BY DEF TypeInv, RadioOK, ClearRest, Closed, Alive, radio, gatts, setup, writes, opens
<1>4. SetupOK'
  BY DEF TypeInv, RadioOK, SetupOK, ClearRest, Closed, Alive, radio, gatts, setup, writes, opens
<1>5. QueuesOK'
  BY DEF TypeInv, QueuesOK, ClearRest, radio, gatts, setup, writes, opens
<1> QED BY <1>2, <1>3, <1>4, <1>5 DEF TypeInv

\* What every step of a thread leaves of the thread's rest.
LEMMA PopOrClear ==
  ASSUME TypeInv, NEW t \in Threads, UNCHANGED <<queues, opened>>, Pops(t) \/ Clears(t)
  PROVE  TodoInv' /\ Grows
<1>1. Grows
  BY GrowsSame DEF TypeInv
<1> QED BY <1>1, PopsKeeps, ClearsKeeps DEF TypeInv

\* The step at the head, of sending a record, gives way to another of the same session.
LEMMA SendingSwap ==
  ASSUME TypeInv, Grows, NEW t \in Threads, NEW h \in StepRecord, Swaps(t, h), Head(todo[t]).op \in SendingOps,
         h.op \in SendingOps, h.op # "completed", h.s \in Sessions, h.op \in CarryOps <=> h.w # None,
         h.op \in QueueOps => h.q \in 1..Len(queues'[h.s])
  PROVE  TodoInv' /\ Head(todo'[t]) = h /\ todo'[t] # <<>> /\ Len(todo'[t]) = 1 /\ todo'[t][1] = h
<1>1. StepShape(t, h)
  BY DEF StepShape, CarryOps, SendingOps, OpeningOps, StopOps, PastOps
<1>2. StepFits(h, queues', opened')
  BY DEF StepFits, SendingOps, CarryOps, OpeningOps
<1>3. /\ TodoInv' /\ Head(todo'[t]) = h /\ todo'[t] # <<>> /\ todo'[t][1] = h
      /\ Len(todo'[t]) = Len(todo[t])
  BY <1>1, <1>2, SwapsKeeps DEF TypeInv
<1>4. ShapeOf(t, todo[t]) /\ Head(todo[t]) = todo[t][1] /\ 1 \in 1..Len(todo[t])
  BY HeadFacts DEF TypeInv, TodoInv, Swaps
<1>5. Len(todo[t]) = 1
  BY <1>4, SendingAlone
<1> QED BY <1>3, <1>5

LEMMA AdmitType ==
  ASSUME TypeInv, NEW t \in Threads, todo[t] # <<>>, Admit(t, Head(todo[t]).s)
  PROVE  LET s == Head(todo[t]).s
             w == Head(todo[t]).w
         IN  /\ TypeInv' /\ s \in Sessions /\ w \in Records /\ Head(todo[t]).op = "admit"
             /\ UNCHANGED <<air, queues, activeWrites, opened>>
             /\ \/ /\ Pops(t) \/ Clears(t)
                   /\ \/ written' = written \cup {w} /\ OutcomeMoves({w}, "resolved")
                      \/ UNCHANGED written /\ OutcomeMoves({w}, "rejected")
                \/ /\ UNCHANGED <<written, outcome>> /\ todo'[t] # <<>> /\ Swaps(t, Head(todo'[t]))
                   /\ Head(todo'[t]).op = "getOrPut" /\ Head(todo'[t]).s = s /\ Head(todo'[t]).w = w
<1> DEFINE s == Head(todo[t]).s
           w == Head(todo[t]).w
<1>1. Head(todo[t]).op = "admit"
  BY DEF Admit, Runs
<1>2. s \in Sessions /\ w \in Records
  BY <1>1, HeadFacts DEF TypeInv, StepShape, StepRecord, StopOps, PastOps, CarryOps
<1>3. UNCHANGED <<radio, gatts, setup, writeQueues, queues, activeWrites, opens>>
  BY DEF Admit
<1>4. Grows
  BY <1>3, GrowsSame DEF TypeInv, opens
<1>5. RadioOK' /\ SetupOK'
  BY <1>3 DEF TypeInv, RadioOK, SetupOK, radio, gatts, setup, writes, opens
<1> HIDE DEF s, w
<1>6. CASE \E how \in {"resolved", "rejected"} :
             /\ SettleWrites(t, {w}, how, <<>>)
             /\ written' = IF how = "resolved" THEN written \cup {w} ELSE written
  <2>1. PICK how \in {"resolved", "rejected"} :
             /\ SettleWrites(t, {w}, how, <<>>)
             /\ written' = IF how = "resolved" THEN written \cup {w} ELSE written
    BY <1>6
  <2>2. OutcomeMoves({w}, how) /\ (Go(t, <<>>) \/ Clears(t))
    <3>1. {w} \in SUBSET Records
      BY <1>2
    <3>2. TodoInv /\ QueuesOK
      BY DEF TypeInv
    <3> QED BY <2>1, <3>1, <3>2, WritesSettle
  <2>3. Pops(t) \/ Clears(t)
    BY <2>2, GoEmpty DEF TypeInv
  <2>4. TodoInv'
    BY <1>3, <2>3, PopOrClear DEF opens
  <2>5. QueuesOK'
    BY <1>2, <1>3, <2>1, <2>2 DEF TypeInv, QueuesOK, OutcomeMoves
  <2> QED BY <1>1, <1>2, <1>3, <1>5, <2>1, <2>2, <2>3, <2>4, <2>5 DEF TypeInv, radio, opens, s, w
<1>7. CASE Go(t, With(t, "getOrPut", w, 0)) /\ UNCHANGED <<outcome, written>>
  <2> DEFINE h == [op |-> "getOrPut", s |-> s, w |-> w, q |-> 0]
  <2>1. Swaps(t, h) /\ h \in StepRecord
    BY <1>2, <1>7, GoWith DEF TypeInv, s, Ops, SendingOps, CarryOps
  <2>2. TodoInv' /\ Head(todo'[t]) = h /\ todo'[t] # <<>>
    BY <1>1, <1>2, <1>4, <2>1, RecordsAssumption, SendingSwap DEF SendingOps, CarryOps, QueueOps
  <2>3. QueuesOK'
    BY <1>3, <1>7 DEF TypeInv, QueuesOK
  <2> QED BY <1>1, <1>2, <1>3, <1>5, <1>7, <2>1, <2>2, <2>3 DEF TypeInv, radio, opens, s, w
<1> QED BY <1>6, <1>7 DEF Admit, s, w

LEMMA GetOrPutType ==
  ASSUME TypeInv, NEW t \in Threads, todo[t] # <<>>, GetOrPut(t, Head(todo[t]).s)
  PROVE  LET s == Head(todo[t]).s
             w == Head(todo[t]).w
         IN  /\ TypeInv' /\ s \in Sessions /\ w \in Records /\ Head(todo[t]).op = "getOrPut"
             /\ UNCHANGED <<air, activeWrites, opened, outcome, written>>
             /\ queues' = queues \/ queues' = [queues EXCEPT ![s] = Append(@, <<>>)]
             /\ todo'[t] # <<>> /\ Swaps(t, Head(todo'[t]))
             /\ Head(todo'[t]).op = "add" /\ Head(todo'[t]).s = s /\ Head(todo'[t]).w = w
<1> DEFINE s == Head(todo[t]).s
           w == Head(todo[t]).w
           q == IF writeQueues[s] = 0 THEN Len(queues[s]) + 1 ELSE writeQueues[s]
           h == [op |-> "add", s |-> s, w |-> w, q |-> q]
<1>1. Head(todo[t]).op = "getOrPut"
  BY DEF GetOrPut, Runs
<1>2. s \in Sessions /\ w \in Records
  BY <1>1, HeadFacts DEF TypeInv, StepShape, StepRecord, StopOps, PastOps, CarryOps
<1>3. UNCHANGED <<radio, gatts, setup, activeWrites, outcome, written, opens>>
  BY DEF GetOrPut
<1>4. /\ queues' = IF writeQueues[s] = 0 THEN [queues EXCEPT ![s] = Append(@, <<>>)] ELSE queues
      /\ writeQueues' = [writeQueues EXCEPT ![s] = q] /\ Go(t, With(t, "add", w, q))
  BY DEF GetOrPut
<1> HIDE DEF s, w
<1>5. /\ queues[s] \in Seq(Seq(Records)) /\ Len(queues[s]) \in Nat
      /\ Append(queues[s], <<>>) \in Seq(Seq(Records)) /\ Len(Append(queues[s], <<>>)) = Len(queues[s]) + 1
  <2>1. <<>> \in Seq(Records) /\ queues[s] \in Seq(Seq(Records))
    BY <1>2, EmptySeq DEF TypeInv, QueuesOK
  <2> QED BY <2>1, LenProperties, AppendProperties
<1>6. \A r \in Sessions : Len(queues[r]) \in Nat
  BY LenProperties DEF TypeInv, QueuesOK
<1>7. /\ queues' \in [Sessions -> Seq(Seq(Records))] /\ q \in 1..Len(queues'[s])
      /\ \A r \in Sessions : Len(queues'[r]) \in Nat /\ Len(queues[r]) <= Len(queues'[r])
  BY <1>2, <1>4, <1>5, <1>6 DEF TypeInv, QueuesOK
<1> HIDE DEF q
<1>8. Grows
  BY <1>3, <1>6, <1>7 DEF Grows, opens
<1>9. q \in Nat
  BY <1>7
<1>10. Swaps(t, h) /\ h \in StepRecord
  BY <1>2, <1>4, <1>9, GoWith DEF TypeInv, s, Ops, SendingOps, CarryOps
<1>11. TodoInv' /\ Head(todo'[t]) = h /\ todo'[t] # <<>>
  BY <1>1, <1>2, <1>7, <1>8, <1>10, RecordsAssumption, SendingSwap DEF SendingOps, CarryOps
<1>12. RadioOK' /\ SetupOK'
  BY <1>3 DEF TypeInv, RadioOK, SetupOK, radio, gatts, setup, writes, opens
<1>13. QueuesOK'
  BY <1>2, <1>3, <1>4, <1>6, <1>7, <1>9 DEF TypeInv, QueuesOK
<1> QED BY <1>1, <1>2, <1>3, <1>4, <1>10, <1>11, <1>12, <1>13 DEF TypeInv, radio, opens, s, w

\* What a step leaves alone stays well typed.
LEMMA RestType ==
  ASSUME TypeInv, UNCHANGED <<radio, gatts, setup, opens>>
  PROVE  RadioOK' /\ SetupOK'
BY DEF TypeInv, RadioOK, SetupOK, radio, gatts, setup, writes, opens

LEMMA AddType ==
  ASSUME TypeInv, NEW t \in Threads, todo[t] # <<>>, Add(t, Head(todo[t]).s)
  PROVE  LET s == Head(todo[t]).s
             w == Head(todo[t]).w
             q == Head(todo[t]).q
         IN  /\ TypeInv' /\ s \in Sessions /\ w \in Records /\ Head(todo[t]).op = "add"
             /\ q \in 1..Len(queues[s])
             /\ UNCHANGED <<air, activeWrites, opened, outcome, written>>
             /\ queues' = [queues EXCEPT ![s][q] = Append(@, w)]
             /\ todo'[t] # <<>> /\ Swaps(t, Head(todo'[t]))
             /\ Head(todo'[t]).op = "checkActive" /\ Head(todo'[t]).s = s /\ Head(todo'[t]).w = None
<1> DEFINE s == Head(todo[t]).s
           w == Head(todo[t]).w
           q == Head(todo[t]).q
           h == Step("checkActive", s)
<1>1. Head(todo[t]).op = "add"
  BY DEF Add, Runs
<1>2. s \in Sessions /\ w \in Records /\ q \in 1..Len(queues[s])
  BY <1>1, HeadFacts DEF TypeInv, StepShape, StepRecord, StopOps, PastOps, CarryOps, StepFits, QueueOps
<1>3. /\ UNCHANGED <<radio, gatts, setup, writeQueues, activeWrites, outcome, written, opens>>
      /\ queues' = [queues EXCEPT ![s][q] = Append(@, w)] /\ Go(t, Steps(<<"checkActive">>, s))
  BY DEF Add
<1> HIDE DEF s, w, q
<1>4. queues[s] \in Seq(Seq(Records)) /\ queues[s][q] \in Seq(Records) /\ Append(queues[s][q], w) \in Seq(Records)
  <2>1. queues[s] \in Seq(Seq(Records)) /\ queues[s][q] \in Seq(Records)
    BY <1>2, ElementOfSeq DEF TypeInv, QueuesOK
  <2> QED BY <1>2, <2>1, AppendProperties
<1>5. /\ [queues[s] EXCEPT ![q] = Append(queues[s][q], w)] \in Seq(Seq(Records))
      /\ Len([queues[s] EXCEPT ![q] = Append(queues[s][q], w)]) = Len(queues[s])
  BY <1>2, <1>4, ExceptSeq
<1>6. queues' = [queues EXCEPT ![s] = [queues[s] EXCEPT ![q] = Append(queues[s][q], w)]]
  BY <1>3
<1>7. \A r \in Sessions : Len(queues[r]) \in Nat
  BY LenProperties DEF TypeInv, QueuesOK
<1>8. /\ queues' \in [Sessions -> Seq(Seq(Records))]
      /\ \A r \in Sessions : Len(queues'[r]) = Len(queues[r])
  BY <1>2, <1>5, <1>6 DEF TypeInv, QueuesOK
<1>9. Grows
  BY <1>3, <1>7, <1>8 DEF Grows, opens
<1>10. "checkActive" \in Ops /\ "checkActive" \in SendingOps
  BY DEF Ops, SendingOps
<1>11. Swaps(t, h) /\ h \in StepRecord /\ h.op = "checkActive" /\ h.s = s /\ h.w = None
  BY <1>2, <1>3, <1>10, GoStep, OneStep DEF TypeInv
<1>12. TodoInv' /\ Head(todo'[t]) = h /\ todo'[t] # <<>>
  <2> HIDE DEF h
  <2> QED BY <1>1, <1>2, <1>9, <1>11, SendingSwap DEF SendingOps, CarryOps, QueueOps
<1>13. RadioOK' /\ SetupOK'
  BY <1>3, RestType
<1>14. QueuesOK'
  BY <1>3, <1>8 DEF TypeInv, QueuesOK
<1> QED BY <1>1, <1>2, <1>3, <1>11, <1>12, <1>13, <1>14 DEF TypeInv, radio, opens, s, w, q


LEMMA CheckActiveType ==
  ASSUME TypeInv, NEW t \in Threads, todo[t] # <<>>, CheckActive(t, Head(todo[t]).s)
  PROVE  /\ TypeInv' /\ Head(todo[t]).op = "checkActive" /\ UNCHANGED <<radio, gatts, setup, writes, opens>>
         /\ \/ Pops(t)
            \/ todo'[t] # <<>> /\ Swaps(t, Head(todo'[t])) /\ Head(todo'[t]).op = "getQueue" /\ Head(todo'[t]).w = None
<1> DEFINE s == Head(todo[t]).s
           h == Step("getQueue", s)
<1>1. Head(todo[t]).op = "checkActive" /\ UNCHANGED <<radio, gatts, setup, writes, opens>>
  BY DEF CheckActive, Runs
<1>2. s \in Sessions
  BY <1>1, HeadFacts DEF TypeInv, StepShape, StopOps, PastOps
<1> HIDE DEF s
<1>3. Grows
  BY <1>1, GrowsSame DEF TypeInv, writes, opens
<1>4. RadioOK' /\ SetupOK' /\ QueuesOK'
  BY <1>1, RestType DEF TypeInv, QueuesOK, writes
<1>5. CASE Go(t, <<>>)
  <2>1. TodoInv' /\ Pops(t)
    BY <1>1, <1>5, PlainPop DEF writes, opens
  <2> QED BY <1>1, <1>4, <2>1 DEF TypeInv
<1>6. CASE Go(t, Steps(<<"getQueue">>, s))
  <2>1. "getQueue" \in Ops /\ "getQueue" \in SendingOps
    BY DEF Ops, SendingOps
  <2>2. Swaps(t, h) /\ h \in StepRecord /\ h.op = "getQueue" /\ h.s = s /\ h.w = None
    BY <1>2, <1>6, <2>1, GoStep, OneStep DEF TypeInv
  <2>3. TodoInv' /\ Head(todo'[t]) = h /\ todo'[t] # <<>>
    <3> HIDE DEF h
    <3> QED BY <1>1, <1>2, <1>3, <2>2, SendingSwap DEF SendingOps, CarryOps, QueueOps
  <2> QED BY <1>1, <1>4, <2>2, <2>3 DEF TypeInv
<1>7. Go(t, IF activeWrites[s] # None THEN <<>> ELSE Steps(<<"getQueue">>, s))
  BY DEF CheckActive, s
<1> QED BY <1>5, <1>6, <1>7

LEMMA GetQueueType ==
  ASSUME TypeInv, NEW t \in Threads, todo[t] # <<>>, GetQueue(t, Head(todo[t]).s)
  PROVE  /\ TypeInv' /\ Head(todo[t]).op = "getQueue" /\ UNCHANGED <<radio, gatts, setup, writes, opens>>
         /\ \/ Pops(t)
            \/ todo'[t] # <<>> /\ Swaps(t, Head(todo'[t])) /\ Head(todo'[t]).op = "poll" /\ Head(todo'[t]).w = None
<1> DEFINE s == Head(todo[t]).s
           h == [op |-> "poll", s |-> s, w |-> None, q |-> writeQueues[s]]
<1>1. Head(todo[t]).op = "getQueue" /\ UNCHANGED <<radio, gatts, setup, writes, opens>>
  BY DEF GetQueue, Runs
<1>2. s \in Sessions
  BY <1>1, HeadFacts DEF TypeInv, StepShape, StopOps, PastOps
<1>3. Go(t, IF writeQueues[s] = 0 THEN <<>> ELSE With(t, "poll", None, writeQueues[s]))
  BY DEF GetQueue
<1>4. Grows
  BY <1>1, GrowsSame DEF TypeInv, writes, opens
<1>5. RadioOK' /\ SetupOK' /\ QueuesOK'
  BY <1>1, RestType DEF TypeInv, QueuesOK, writes
<1>6. CASE writeQueues[s] = 0
  <2>1. TodoInv' /\ Pops(t)
    BY <1>1, <1>3, <1>6, PlainPop DEF writes, opens
  <2> QED BY <1>1, <1>5, <2>1 DEF TypeInv
<1>7. CASE writeQueues[s] # 0
  <2>1. writeQueues[s] \in Nat /\ writeQueues[s] \in 1..Len(queues'[s])
    BY <1>1, <1>2, <1>4, <1>7 DEF TypeInv, QueuesOK, writes, Grows
  <2>2. Swaps(t, h) /\ h \in StepRecord
    BY <1>2, <1>3, <1>7, <2>1, GoWith DEF TypeInv, Ops, SendingOps
  <2>3. TodoInv' /\ Head(todo'[t]) = h /\ todo'[t] # <<>>
    BY <1>1, <1>2, <1>4, <2>1, <2>2, SendingSwap DEF SendingOps, CarryOps
  <2> QED BY <1>1, <1>5, <2>2, <2>3 DEF TypeInv
<1> QED BY <1>6, <1>7

LEMMA PollType ==
  ASSUME TypeInv, NEW t \in Threads, todo[t] # <<>>, Poll(t, Head(todo[t]).s)
  PROVE  LET s == Head(todo[t]).s
             q == Head(todo[t]).q
         IN  /\ TypeInv' /\ s \in Sessions /\ Head(todo[t]).op = "poll" /\ q \in 1..Len(queues[s])
             /\ UNCHANGED <<air, activeWrites, opened, outcome, written>>
             /\ todo'[t] # <<>> /\ Swaps(t, Head(todo'[t])) /\ Head(todo'[t]).op \in SendingOps
             /\ \/ UNCHANGED queues /\ Head(todo'[t]).op = "removeQueue" /\ Head(todo'[t]).w = None
                \/ /\ queues[s][q] # <<>> /\ queues' = [queues EXCEPT ![s][q] = Tail(@)]
                   /\ Head(todo'[t]).op = "setActive" /\ Head(todo'[t]).s = s
                   /\ Head(todo'[t]).w = Head(queues[s][q])
<1> DEFINE s == Head(todo[t]).s
           q == Head(todo[t]).q
<1>1. Head(todo[t]).op = "poll"
  BY DEF Poll, Runs
<1>2. s \in Sessions /\ q \in 1..Len(queues[s])
  BY <1>1, HeadFacts DEF TypeInv, StepShape, StopOps, PastOps, StepFits, QueueOps
<1>3. UNCHANGED <<radio, gatts, setup, writeQueues, activeWrites, outcome, written, opens>>
  BY DEF Poll
<1>4. IF queues[s][q] = <<>>
      THEN Go(t, Steps(<<"removeQueue">>, s)) /\ UNCHANGED queues
      ELSE /\ queues' = [queues EXCEPT ![s][q] = Tail(@)]
           /\ Go(t, With(t, "setActive", Head(queues[s][q]), 0))
  BY DEF Poll
<1> HIDE DEF s, q
<1>5. RadioOK' /\ SetupOK'
  BY <1>3, RestType
<1>6. CASE queues[s][q] = <<>>
  <2> DEFINE h == Step("removeQueue", s)
  <2>1. "removeQueue" \in Ops /\ "removeQueue" \in SendingOps
    BY DEF Ops, SendingOps
  <2>2. Swaps(t, h) /\ h \in StepRecord /\ h.op = "removeQueue" /\ h.s = s /\ h.w = None
    BY <1>2, <1>4, <1>6, <2>1, GoStep, OneStep DEF TypeInv
  <2>3. Grows
    BY <1>3, <1>4, <1>6, GrowsSame DEF TypeInv, opens
  <2>4. TodoInv' /\ Head(todo'[t]) = h /\ todo'[t] # <<>>
    <3> HIDE DEF h
    <3> QED BY <1>1, <1>2, <2>2, <2>3, SendingSwap DEF SendingOps, CarryOps, QueueOps
  <2>5. QueuesOK'
    BY <1>3, <1>4, <1>6 DEF TypeInv, QueuesOK
  <2> HIDE DEF h
  <2> QED BY <1>1, <1>2, <1>3, <1>4, <1>5, <1>6, <2>1, <2>2, <2>4, <2>5 DEF TypeInv, radio, opens, s, q
<1>7. CASE queues[s][q] # <<>>
  <2> DEFINE w == Head(queues[s][q])
             h == [op |-> "setActive", s |-> s, w |-> w, q |-> 0]
  <2>1. queues[s] \in Seq(Seq(Records)) /\ queues[s][q] \in Seq(Records)
    BY <1>2, ElementOfSeq DEF TypeInv, QueuesOK
  <2>2. w \in Records /\ Tail(queues[s][q]) \in Seq(Records)
    BY <1>7, <2>1, TailElements
  <2>3. /\ [queues[s] EXCEPT ![q] = Tail(queues[s][q])] \in Seq(Seq(Records))
        /\ Len([queues[s] EXCEPT ![q] = Tail(queues[s][q])]) = Len(queues[s])
    BY <1>2, <2>1, <2>2, ExceptSeq
  <2>4. queues' = [queues EXCEPT ![s] = [queues[s] EXCEPT ![q] = Tail(queues[s][q])]]
    BY <1>4, <1>7
  <2>5. \A r \in Sessions : Len(queues[r]) \in Nat
    BY LenProperties DEF TypeInv, QueuesOK
  <2>6. /\ queues' \in [Sessions -> Seq(Seq(Records))]
        /\ \A r \in Sessions : Len(queues'[r]) = Len(queues[r])
    BY <1>2, <2>3, <2>4 DEF TypeInv, QueuesOK
  <2>7. Grows
    BY <1>3, <2>5, <2>6 DEF Grows, opens
  <2>8. "setActive" \in Ops /\ "setActive" \in SendingOps
    BY DEF Ops, SendingOps, CarryOps
  <2>9. Swaps(t, h) /\ h \in StepRecord
    BY <1>2, <1>4, <1>7, <2>2, <2>8, GoWith DEF TypeInv, s
  <2>10. TodoInv' /\ Head(todo'[t]) = h /\ todo'[t] # <<>>
    BY <1>1, <1>2, <2>2, <2>7, <2>9, RecordsAssumption, SendingSwap DEF SendingOps, CarryOps, QueueOps
  <2>11. QueuesOK'
    BY <1>3, <2>6 DEF TypeInv, QueuesOK
  <2>12. TypeInv' /\ UNCHANGED <<air, activeWrites, opened, outcome, written>>
    BY <1>3, <1>5, <2>10, <2>11 DEF TypeInv, radio, opens
  <2>13. queues' = [queues EXCEPT ![s][q] = Tail(@)]
    BY <1>4, <1>7
  <2>14. h.op = "setActive" /\ h.s = s /\ h.w = w
    OBVIOUS
  <2>15. /\ todo'[t] # <<>> /\ Swaps(t, Head(todo'[t])) /\ Head(todo'[t]).op \in SendingOps
         /\ Head(todo'[t]).op = "setActive" /\ Head(todo'[t]).s = s /\ Head(todo'[t]).w = w
    <3> HIDE DEF h
    <3> QED BY <2>8, <2>9, <2>10, <2>14
  <2> HIDE DEF h
  <2> QED BY <1>1, <1>2, <1>7, <2>12, <2>13, <2>15 DEF s, q
<1> QED BY <1>6, <1>7

LEMMA SetActiveType ==
  ASSUME TypeInv, NEW t \in Threads, todo[t] # <<>>, SetActive(t, Head(todo[t]).s)
  PROVE  LET s == Head(todo[t]).s
             w == Head(todo[t]).w
         IN  /\ TypeInv' /\ s \in Sessions /\ w \in Records /\ Head(todo[t]).op = "setActive"
             /\ UNCHANGED <<air, queues, opened, outcome, written>>
             /\ activeWrites' = [activeWrites EXCEPT ![s] = w]
             /\ todo'[t] # <<>> /\ Swaps(t, Head(todo'[t]))
             /\ Head(todo'[t]).op = "write" /\ Head(todo'[t]).s = s /\ Head(todo'[t]).w = w
<1> DEFINE s == Head(todo[t]).s
           w == Head(todo[t]).w
           h == [op |-> "write", s |-> s, w |-> w, q |-> 0]
<1>1. Head(todo[t]).op = "setActive"
  BY DEF SetActive, Runs
<1>2. s \in Sessions /\ w \in Records
  BY <1>1, HeadFacts DEF TypeInv, StepShape, StepRecord, StopOps, PastOps, CarryOps
<1>3. /\ UNCHANGED <<radio, gatts, setup, writeQueues, queues, outcome, written, opens>>
      /\ activeWrites' = [activeWrites EXCEPT ![s] = w] /\ Go(t, With(t, "write", w, 0))
  BY DEF SetActive
<1>4. Grows
  BY <1>3, GrowsSame DEF TypeInv, opens
<1>5. Swaps(t, h) /\ h \in StepRecord
  BY <1>2, <1>3, GoWith DEF TypeInv, Ops, SendingOps, CarryOps
<1>6. TodoInv' /\ Head(todo'[t]) = h /\ todo'[t] # <<>>
  BY <1>1, <1>2, <1>4, <1>5, RecordsAssumption, SendingSwap DEF SendingOps, CarryOps, QueueOps
<1>7. RadioOK' /\ SetupOK'
  BY <1>3, RestType
<1> HIDE DEF s, w
<1>8. QueuesOK'
  BY <1>2, <1>3 DEF TypeInv, QueuesOK
<1> QED BY <1>1, <1>2, <1>3, <1>5, <1>6, <1>7, <1>8 DEF TypeInv, radio, opens, s, w

LEMMA WriteType ==
  ASSUME TypeInv, NEW t \in Threads, todo[t] # <<>>, Write(t, Head(todo[t]).s)
  PROVE  LET s == Head(todo[t]).s
             w == Head(todo[t]).w
         IN  /\ TypeInv' /\ s \in Sessions /\ w \in Records /\ Head(todo[t]).op = "write"
             /\ UNCHANGED <<queues, opened, written>>
             /\ \/ /\ air[s] = None /\ air' = [air EXCEPT ![s] = w] /\ Pops(t) /\ UNCHANGED <<activeWrites, outcome>>
                \/ /\ UNCHANGED air
                   /\ UNCHANGED activeWrites \/ activeWrites' = [activeWrites EXCEPT ![s] = None]
                   /\ OutcomeMoves({w}, "rejected")
                   /\ \/ Clears(t)
                      \/ /\ todo'[t] # <<>> /\ Swaps(t, Head(todo'[t])) /\ Head(todo'[t]).w = None
                         /\ Head(todo'[t]).op \in {"failed", "checkActive"}
<1> DEFINE s == Head(todo[t]).s
           w == Head(todo[t]).w
<1>1. Head(todo[t]).op = "write"
  BY DEF Write, Runs
<1>2. s \in Sessions /\ w \in Records
  BY <1>1, HeadFacts DEF TypeInv, StepShape, StepRecord, StopOps, PastOps, CarryOps
<1>3. UNCHANGED <<stops, selectedMode, link, gatts, setup, writeQueues, queues, written, opens>>
  BY DEF Write
<1>4. Grows
  BY <1>3, GrowsSame DEF TypeInv, opens
<1> HIDE DEF s, w
<1>5. SetupOK'
  BY <1>3 DEF TypeInv, SetupOK, gatts, setup, opens
<1>6. ASSUME NEW op \in {"failed", "checkActive"}, Go(t, Steps(<<op>>, s))
      PROVE  /\ TodoInv' /\ todo'[t] # <<>> /\ Swaps(t, Head(todo'[t])) /\ Head(todo'[t]).w = None
             /\ Head(todo'[t]).op = op
  <2>1. op \in Ops /\ op \in SendingOps /\ op \notin CarryOps /\ op \notin QueueOps /\ op # "completed"
    BY DEF Ops, SendingOps, CarryOps, QueueOps
  <2> DEFINE h == Step(op, s)
  <2>2. Swaps(t, h) /\ h \in StepRecord /\ h.op = op /\ h.s = s /\ h.w = None
    BY <1>2, <1>6, <2>1, GoStep, OneStep DEF TypeInv
  <2> HIDE DEF h
  <2>3. TodoInv' /\ Head(todo'[t]) = h /\ todo'[t] # <<>>
    BY <1>1, <1>2, <1>4, <2>1, <2>2, SendingSwap DEF SendingOps, CarryOps
  <2> QED BY <2>2, <2>3
<1>7. CASE /\ link[s] = "up" /\ air[s] = None /\ air' = [air EXCEPT ![s] = w]
           /\ Go(t, <<>>) /\ UNCHANGED <<activeWrites, outcome>>
  <2>1. RadioOK' /\ QueuesOK'
    BY <1>2, <1>3, <1>7 DEF TypeInv, RadioOK, QueuesOK
  <2>2. TodoInv' /\ Pops(t)
    BY <1>3, <1>7, PlainPop DEF opens
  <2> QED BY <1>1, <1>2, <1>3, <1>5, <1>7, <2>1, <2>2 DEF TypeInv, opens, s, w
<1>8. CASE Go(t, Steps(<<"failed">>, s)) /\ UNCHANGED <<air, activeWrites, outcome>>
  <2>1. RadioOK' /\ QueuesOK' /\ OutcomeMoves({w}, "rejected")
    BY <1>3, <1>8 DEF TypeInv, RadioOK, QueuesOK, OutcomeMoves
  <2> QED BY <1>1, <1>2, <1>3, <1>5, <1>6, <1>8, <2>1 DEF TypeInv, opens, s, w
<1>9. CASE /\ activeWrites' = [activeWrites EXCEPT ![s] = None]
           /\ SettleWrites(t, {w}, "rejected", Steps(<<"checkActive">>, s))
           /\ UNCHANGED air
  <2>1. {w} \in SUBSET Records /\ TodoInv /\ QueuesOK
    BY <1>2 DEF TypeInv
  <2>2. OutcomeMoves({w}, "rejected") /\ (Go(t, Steps(<<"checkActive">>, s)) \/ Clears(t))
    BY <1>9, <2>1, WritesSettle
  <2>3. RadioOK' /\ QueuesOK'
    BY <1>2, <1>3, <1>9, <2>2 DEF TypeInv, RadioOK, QueuesOK, OutcomeMoves
  <2>4. CASE Clears(t)
    <3>1. TodoInv'
      BY <1>3, <2>4, PopOrClear DEF opens
    <3> QED BY <1>1, <1>2, <1>3, <1>5, <1>9, <2>2, <2>3, <2>4, <3>1 DEF TypeInv, opens, s, w
  <2>5. CASE Go(t, Steps(<<"checkActive">>, s))
    BY <1>1, <1>2, <1>3, <1>5, <1>6, <1>9, <2>2, <2>3, <2>5 DEF TypeInv, opens, s, w
  <2> QED BY <2>2, <2>4, <2>5
<1> QED BY <1>7, <1>8, <1>9 DEF Write, s, w

LEMMA CompleteWriteType ==
  ASSUME TypeInv, NEW t \in Threads, todo[t] # <<>>, CompleteWrite(t, Head(todo[t]).s)
  PROVE  LET s == Head(todo[t]).s
         IN  /\ TypeInv' /\ s \in Sessions /\ Head(todo[t]).op \in {"completed", "failed"}
             /\ UNCHANGED <<air, queues, opened, written>>
             /\ \/ Pops(t) /\ UNCHANGED <<activeWrites, outcome>>
                \/ /\ activeWrites[s] # None /\ activeWrites' = [activeWrites EXCEPT ![s] = None]
                   /\ OutcomeMoves({activeWrites[s]}, IF Head(todo[t]).op = "completed" THEN "resolved" ELSE "rejected")
                   /\ \/ Clears(t)
                      \/ /\ todo'[t] # <<>> /\ Swaps(t, Head(todo'[t])) /\ Head(todo'[t]).w = None
                         /\ Head(todo'[t]).op = "checkActive"
<1> DEFINE s == Head(todo[t]).s
           how == IF Head(todo[t]).op = "completed" THEN "resolved" ELSE "rejected"
           h == Step("checkActive", s)
<1>1. Head(todo[t]).op \in {"completed", "failed"}
  BY DEF CompleteWrite, Runs
<1>2. s \in Sessions
  BY <1>1, HeadFacts DEF TypeInv, StepShape, StopOps, PastOps
<1>3. UNCHANGED <<radio, gatts, setup, writeQueues, queues, written, opens>>
  BY DEF CompleteWrite
<1>4. Grows
  BY <1>3, GrowsSame DEF TypeInv, opens
<1>5. RadioOK' /\ SetupOK'
  BY <1>3, RestType
<1>6. CASE activeWrites[s] = None
  <2>1. Go(t, <<>>) /\ UNCHANGED <<activeWrites, outcome>>
    BY <1>6 DEF CompleteWrite
  <2>2. TodoInv' /\ Pops(t)
    BY <1>3, <2>1, PlainPop DEF opens
  <2>3. QueuesOK'
    BY <1>3, <2>1 DEF TypeInv, QueuesOK
  <2> QED BY <1>1, <1>2, <1>3, <1>5, <2>1, <2>2, <2>3 DEF TypeInv, radio, opens
<1>7. CASE activeWrites[s] # None
  <2>1. /\ activeWrites' = [activeWrites EXCEPT ![s] = None]
        /\ SettleWrites(t, {activeWrites[s]}, how, Steps(<<"checkActive">>, s))
    BY <1>7 DEF CompleteWrite, Runs
  <2>2. {activeWrites[s]} \in SUBSET Records /\ TodoInv /\ QueuesOK /\ how \in {"resolved", "rejected"}
    BY <1>2, <1>7 DEF TypeInv, QueuesOK
  <2> HIDE DEF s, how
  <2>3. OutcomeMoves({activeWrites[s]}, how) /\ (Go(t, Steps(<<"checkActive">>, s)) \/ Clears(t))
    BY <2>1, <2>2, WritesSettle
  <2>4. QueuesOK'
    BY <1>2, <1>3, <2>1, <2>3 DEF TypeInv, QueuesOK, OutcomeMoves
  <2>5. CASE Clears(t)
    <3>1. TodoInv'
      BY <1>3, <2>5, PopOrClear DEF opens
    <3> QED BY <1>1, <1>2, <1>3, <1>5, <1>7, <2>1, <2>3, <2>4, <2>5, <3>1 DEF TypeInv, radio, opens, s, how
  <2>6. CASE Go(t, Steps(<<"checkActive">>, s))
    <3>1. "checkActive" \in Ops /\ "checkActive" \in SendingOps
      BY DEF Ops, SendingOps
    <3>2. Swaps(t, h) /\ h \in StepRecord /\ h.op = "checkActive" /\ h.s = s /\ h.w = None
      BY <1>2, <2>6, <3>1, GoStep, OneStep DEF TypeInv, s
    <3> HIDE DEF h
    <3>3. TodoInv' /\ Head(todo'[t]) = h /\ todo'[t] # <<>>
      BY <1>1, <1>2, <1>4, <3>2, SendingSwap DEF SendingOps, CarryOps, QueueOps
    <3> QED BY <1>1, <1>2, <1>3, <1>5, <1>7, <2>1, <2>3, <2>4, <3>2, <3>3 DEF TypeInv, radio, opens, s, how
  <2> QED BY <2>3, <2>5, <2>6
<1> QED BY <1>6, <1>7

\* How the promises of opens are settled.
OpenedMoves(S, how) ==
  /\ opened' \in [Sessions -> {"no", "waiting", "resolved", "rejected"}]
  /\ \A s \in Sessions : opened'[s] = opened[s] \/ (s \in S /\ opened[s] = "waiting" /\ opened'[s] = how)

\* The settling of opens, and what it leaves of the thread's rest.
LEMMA OpensSettleType ==
  ASSUME TypeInv, NEW t \in Threads, todo[t] # <<>>, NEW S \in SUBSET pendingSessions,
         NEW how \in {"resolved", "rejected"}, SettleOpens(t, S, how),
         pendingSessions' \subseteq pendingSessions,
         UNCHANGED <<radio, gatts, sessionTimeouts, negotiatedMtu, writes, overtaken>>
  PROVE  /\ TypeInv' /\ Grows /\ OpenedMoves(S, how)
         /\ \/ Pops(t) /\ \A s \in S : opened'[s] = how
            \/ Clears(t) /\ \E s \in S : opened[s] # "waiting"
<1>1. S \in SUBSET Sessions
  BY DEF TypeInv, SetupOK
<1>2. /\ OpenedMoves(S, how)
      /\ \/ Pops(t) /\ \A s \in S : opened'[s] = how
         \/ Clears(t) /\ \E s \in S : opened[s] # "waiting"
  BY <1>1, OpensSettle DEF TypeInv, OpenedMoves
<1>3. Grows
  BY <1>2, GrowsSame DEF TypeInv, OpenedMoves, writes
<1>4. TodoInv'
  BY <1>2, <1>3, PopsKeeps, ClearsKeeps DEF TypeInv
<1>5. SetupOK'
  BY <1>2 DEF TypeInv, SetupOK, OpenedMoves, gatts, radio
<1>6. RadioOK' /\ QueuesOK'
  BY DEF TypeInv, RadioOK, QueuesOK, radio, writes
<1> QED BY <1>2, <1>3, <1>4, <1>5, <1>6 DEF TypeInv

LEMMA SettlePendingType ==
  ASSUME TypeInv, NEW t \in Threads, todo[t] # <<>>, SettlePending(t, Head(todo[t]).s)
  PROVE  LET s == Head(todo[t]).s
         IN  /\ TypeInv' /\ Grows /\ s \in Sessions /\ Head(todo[t]).op \in SettleOps
             /\ pendingSessions' = pendingSessions \ {s}
             /\ UNCHANGED <<radio, gatts, sessionTimeouts, negotiatedMtu, writes, overtaken>>
             /\ \E how \in {"resolved", "rejected"} : OpenedMoves({s} \cap pendingSessions, how)
             /\ \/ Pops(t) /\ (s \in pendingSessions => opened'[s] # "waiting")
                \/ Clears(t) /\ s \in pendingSessions /\ opened[s] # "waiting"
<1> DEFINE s == Head(todo[t]).s
           how == IF Head(todo[t]).op = "resolvePending" THEN "resolved" ELSE "rejected"
<1>1. Head(todo[t]).op \in SettleOps
  BY DEF SettlePending, Runs, SettleOps
<1>2. s \in Sessions
  BY <1>1, HeadFacts DEF TypeInv, StepShape, StopOps, PastOps, SettleOps
<1>3. /\ pendingSessions' = pendingSessions \ {s}
      /\ UNCHANGED <<radio, gatts, sessionTimeouts, negotiatedMtu, writes, overtaken>>
      /\ SettleOpens(t, {s} \cap pendingSessions, how)
  BY DEF SettlePending, Runs
<1>4. how \in {"resolved", "rejected"} /\ {s} \cap pendingSessions \in SUBSET pendingSessions
  OBVIOUS
<1> HIDE DEF s, how
<1>5. /\ TypeInv' /\ Grows /\ OpenedMoves({s} \cap pendingSessions, how)
      /\ \/ Pops(t) /\ \A r \in {s} \cap pendingSessions : opened'[r] = how
         \/ Clears(t) /\ \E r \in {s} \cap pendingSessions : opened[r] # "waiting"
  <2>1. pendingSessions' \subseteq pendingSessions
    BY <1>3
  <2> QED BY <1>3, <1>4, <2>1, OpensSettleType
<1> QED BY <1>1, <1>2, <1>3, <1>4, <1>5 DEF s

LEMMA StopOpensType ==
  ASSUME TypeInv, NEW t \in Threads, todo[t] # <<>>, StopOpens(t)
  PROVE  /\ TypeInv' /\ Grows
         /\ UNCHANGED <<radio, gatts, sessionTimeouts, negotiatedMtu, writes, overtaken>>
         /\ \/ /\ Head(todo[t]).op = "rejectOpens" /\ UNCHANGED pendingSessions
               /\ OpenedMoves(pendingSessions, "rejected")
               /\ (Pops(t) /\ \A s \in pendingSessions : opened'[s] = "rejected") \/ Clears(t)
            \/ /\ Head(todo[t]).op = "clearOpens" /\ pendingSessions' = {} /\ Pops(t) /\ UNCHANGED opened
<1>1. UNCHANGED <<radio, gatts, sessionTimeouts, negotiatedMtu, writes, overtaken>>
  BY DEF StopOpens
<1>2. CASE /\ Runs(t, "rejectOpens")
           /\ SettleOpens(t, pendingSessions, "rejected") /\ UNCHANGED pendingSessions
  <2>1. /\ TypeInv' /\ Grows /\ OpenedMoves(pendingSessions, "rejected")
        /\ \/ Pops(t) /\ \A s \in pendingSessions : opened'[s] = "rejected"
           \/ Clears(t) /\ \E s \in pendingSessions : opened[s] # "waiting"
    BY <1>1, <1>2, OpensSettleType
  <2> QED BY <1>1, <1>2, <2>1 DEF Runs
<1>3. CASE Runs(t, "clearOpens") /\ pendingSessions' = {} /\ Go(t, <<>>) /\ UNCHANGED opened
  <2>1. TodoInv' /\ Pops(t) /\ Grows
    BY <1>1, <1>3, PlainPop DEF writes
  <2>2. RadioOK' /\ SetupOK' /\ QueuesOK'
    BY <1>1, <1>3 DEF TypeInv, RadioOK, SetupOK, QueuesOK, radio, gatts, writes
  <2> QED BY <1>1, <1>3, <2>1, <2>2 DEF TypeInv, Runs
<1> QED BY <1>2, <1>3 DEF StopOpens

\* The failing of sends, and what it leaves of the thread's rest.
LEMMA WritesFailType ==
  ASSUME TypeInv, NEW t \in Threads, todo[t] # <<>>, NEW W \in SUBSET Records, SettleWrites(t, W, "rejected", <<>>),
         UNCHANGED <<radio, gatts, setup, opens, written>>, Grows,
         queues' \in [Sessions -> Seq(Seq(Records))], writeQueues' \in [Sessions -> Nat],
         \A s \in Sessions : writeQueues'[s] \in 0..Len(queues'[s]),
         activeWrites' \in [Sessions -> Records \cup {None}]
  PROVE  TypeInv' /\ OutcomeMoves(W, "rejected") /\ (Pops(t) \/ Clears(t))
<1>1. TodoInv /\ QueuesOK
  BY DEF TypeInv
<1>2. OutcomeMoves(W, "rejected") /\ (Go(t, <<>>) \/ Clears(t))
  BY <1>1, WritesSettle
<1>3. Pops(t) \/ Clears(t)
  BY <1>1, <1>2, GoEmpty
<1>4. TodoInv'
  BY <1>1, <1>3, PopsKeeps, ClearsKeeps
<1>5. RadioOK' /\ SetupOK'
  BY RestType
<1>6. QueuesOK'
  BY <1>2 DEF TypeInv, QueuesOK, OutcomeMoves
<1> QED BY <1>2, <1>3, <1>4, <1>5, <1>6 DEF TypeInv

LEMMA FailActiveType ==
  ASSUME TypeInv, NEW t \in Threads, todo[t] # <<>>, FailActive(t, Head(todo[t]).s)
  PROVE  LET s == Head(todo[t]).s
         IN  /\ TypeInv' /\ s \in Sessions /\ Head(todo[t]).op = "failActive"
             /\ UNCHANGED <<radio, gatts, setup, writeQueues, queues, written, opens>>
             /\ activeWrites' = [activeWrites EXCEPT ![s] = None]
             /\ OutcomeMoves({activeWrites[s]} \ {None}, "rejected") /\ (Pops(t) \/ Clears(t))
<1> DEFINE s == Head(todo[t]).s
<1>1. Head(todo[t]).op = "failActive"
  BY DEF FailActive, Runs
<1>2. s \in Sessions
  BY <1>1, HeadFacts DEF TypeInv, StepShape, StopOps, PastOps
<1>3. /\ UNCHANGED <<radio, gatts, setup, writeQueues, queues, written, opens>>
      /\ activeWrites' = [activeWrites EXCEPT ![s] = None]
      /\ SettleWrites(t, {activeWrites[s]} \ {None}, "rejected", <<>>)
  BY DEF FailActive
<1> HIDE DEF s
<1>4. Grows
  BY <1>3, GrowsSame DEF TypeInv, opens
<1>5. {activeWrites[s]} \ {None} \in SUBSET Records /\ activeWrites' \in [Sessions -> Records \cup {None}]
  BY <1>2, <1>3 DEF TypeInv, QueuesOK
<1>6. /\ queues' \in [Sessions -> Seq(Seq(Records))] /\ writeQueues' \in [Sessions -> Nat]
      /\ \A r \in Sessions : writeQueues'[r] \in 0..Len(queues'[r])
  BY <1>3 DEF TypeInv, QueuesOK
<1>7. TypeInv' /\ OutcomeMoves({activeWrites[s]} \ {None}, "rejected") /\ (Pops(t) \/ Clears(t))
  BY <1>3, <1>4, <1>5, <1>6, WritesFailType
<1> QED BY <1>1, <1>2, <1>3, <1>7 DEF s

LEMMA FailQueueType ==
  ASSUME TypeInv, NEW t \in Threads, todo[t] # <<>>, FailQueue(t, Head(todo[t]).s)
  PROVE  LET s == Head(todo[t]).s
         IN  /\ TypeInv' /\ s \in Sessions /\ Head(todo[t]).op = "failQueue"
             /\ UNCHANGED <<radio, gatts, setup, queues, activeWrites, outcome, written, opens>>
             /\ \/ Pops(t)
                \/ /\ todo'[t] # <<>> /\ Swaps(t, Head(todo'[t])) /\ Head(todo'[t]).op = "drain"
                   /\ Head(todo'[t]).w = None /\ Head(todo'[t]).s = s
                   /\ Len(todo'[t]) = Len(todo[t]) /\ todo'[t][1] = Head(todo'[t])
                   /\ \A k \in 1..Len(todo[t]) : k # 1 => todo'[t][k] = todo[t][k]
<1> DEFINE s == Head(todo[t]).s
           h == [op |-> "drain", s |-> s, w |-> None, q |-> writeQueues[s]]
<1>1. Head(todo[t]).op = "failQueue"
  BY DEF FailQueue, Runs
<1>2. s \in Sessions /\ StepShape(t, Head(todo[t]))
  BY <1>1, HeadFacts DEF TypeInv, StepShape, StopOps, PastOps
<1>3. /\ UNCHANGED <<radio, gatts, setup, queues, activeWrites, outcome, written, opens>>
      /\ writeQueues' = [writeQueues EXCEPT ![s] = 0]
      /\ Go(t, IF writeQueues[s] = 0 THEN <<>> ELSE With(t, "drain", None, writeQueues[s]))
  BY DEF FailQueue
<1>4. Grows
  BY <1>3, GrowsSame DEF TypeInv, opens
<1>5. RadioOK' /\ SetupOK'
  BY <1>3, RestType
<1> HIDE DEF s
<1>6. QueuesOK'
  <2>1. \A r \in Sessions : 0 \in 0..Len(queues[r])
    BY <1>4 DEF Grows
  <2> QED BY <1>2, <1>3, <2>1 DEF TypeInv, QueuesOK
<1>7. CASE writeQueues[s] = 0
  <2>1. TodoInv' /\ Pops(t)
    BY <1>3, <1>7, PlainPop DEF opens
  <2> QED BY <1>1, <1>2, <1>3, <1>5, <1>6, <2>1 DEF TypeInv, s
<1>8. CASE writeQueues[s] # 0
  <2>1. writeQueues[s] \in Nat /\ writeQueues[s] \in 1..Len(queues'[s])
    BY <1>2, <1>3, <1>4, <1>8 DEF TypeInv, QueuesOK, Grows
  <2>2. "drain" \in Ops
    BY DEF Ops, ClosingOps
  <2>3. Swaps(t, h) /\ h \in StepRecord
    BY <1>2, <1>3, <1>8, <2>1, <2>2, GoWith DEF TypeInv, s
  <2>4. h.op = "drain" /\ h.s = s /\ h.w = None /\ h.q = writeQueues[s]
    OBVIOUS
  <2> HIDE DEF h
  <2>5. StepShape(t, h) /\ StepFits(h, queues', opened')
    BY <1>2, <2>1, <2>3, <2>4 DEF StepShape, StepFits, CarryOps, OpeningOps, StopOps, PastOps
  <2>6. /\ TodoInv' /\ todo'[t] # <<>> /\ Head(todo'[t]) = h /\ todo'[t][1] = h /\ Len(todo'[t]) = Len(todo[t])
        /\ \A k \in 1..Len(todo[t]) : k # 1 => todo'[t][k] = todo[t][k]
    BY <1>1, <1>4, <2>3, <2>4, <2>5, SwapsKeeps DEF TypeInv, s
  <2> QED BY <1>1, <1>2, <1>3, <1>5, <1>6, <2>3, <2>4, <2>6 DEF TypeInv, s
<1> QED BY <1>7, <1>8

LEMMA DrainType ==
  ASSUME TypeInv, NEW t \in Threads, todo[t] # <<>>, Drain(t, Head(todo[t]).s)
  PROVE  LET s == Head(todo[t]).s
             q == Head(todo[t]).q
         IN  /\ TypeInv' /\ s \in Sessions /\ Head(todo[t]).op = "drain" /\ q \in 1..Len(queues[s])
             /\ UNCHANGED <<radio, gatts, setup, writeQueues, activeWrites, written, opens>>
             /\ queues' = [queues EXCEPT ![s][q] = <<>>]
             /\ OutcomeMoves(Range(queues[s][q]), "rejected") /\ (Pops(t) \/ Clears(t))
<1> DEFINE s == Head(todo[t]).s
           q == Head(todo[t]).q
<1>1. Head(todo[t]).op = "drain"
  BY DEF Drain, Runs
<1>2. s \in Sessions /\ q \in 1..Len(queues[s])
  BY <1>1, HeadFacts DEF TypeInv, StepShape, StopOps, PastOps, StepFits, QueueOps
<1>3. /\ UNCHANGED <<radio, gatts, setup, writeQueues, activeWrites, written, opens>>
      /\ queues' = [queues EXCEPT ![s][q] = <<>>]
      /\ SettleWrites(t, Range(queues[s][q]), "rejected", <<>>)
  BY DEF Drain
<1> HIDE DEF s, q
<1>4. queues[s] \in Seq(Seq(Records)) /\ queues[s][q] \in Seq(Records) /\ <<>> \in Seq(Records)
  <2>1. queues[s] \in Seq(Seq(Records)) /\ queues[s][q] \in Seq(Records)
    BY <1>2, ElementOfSeq DEF TypeInv, QueuesOK
  <2> QED BY <2>1, EmptySeq
<1>5. Range(queues[s][q]) \in SUBSET Records
  BY <1>4, LenProperties DEF Range
<1>6. [queues[s] EXCEPT ![q] = <<>>] \in Seq(Seq(Records)) /\ Len([queues[s] EXCEPT ![q] = <<>>]) = Len(queues[s])
  BY <1>2, <1>4, ExceptSeq
<1>7. queues' = [queues EXCEPT ![s] = [queues[s] EXCEPT ![q] = <<>>]]
  BY <1>3
<1>8. \A r \in Sessions : Len(queues[r]) \in Nat
  BY LenProperties DEF TypeInv, QueuesOK
<1>9. /\ queues' \in [Sessions -> Seq(Seq(Records))]
      /\ \A r \in Sessions : Len(queues'[r]) = Len(queues[r])
  BY <1>2, <1>6, <1>7 DEF TypeInv, QueuesOK
<1>10. Grows
  BY <1>3, <1>8, <1>9 DEF Grows, opens
<1>11. /\ writeQueues' \in [Sessions -> Nat] /\ \A r \in Sessions : writeQueues'[r] \in 0..Len(queues'[r])
       /\ activeWrites' \in [Sessions -> Records \cup {None}]
  BY <1>3, <1>9 DEF TypeInv, QueuesOK
<1>12. TypeInv' /\ OutcomeMoves(Range(queues[s][q]), "rejected") /\ (Pops(t) \/ Clears(t))
  BY <1>3, <1>5, <1>9, <1>10, <1>11, WritesFailType
<1> QED BY <1>1, <1>2, <1>3, <1>12 DEF s, q

LEMMA StopActiveType ==
  ASSUME TypeInv, NEW t \in Threads, todo[t] # <<>>, StopActive(t)
  PROVE  /\ TypeInv' /\ UNCHANGED <<radio, gatts, setup, writeQueues, queues, written, opens>>
         /\ Head(todo[t]).op \in PastOps /\ Head(todo[t]).op # "clearOpens"
         /\ Pops(t) \/ Clears(t)
         /\ \/ UNCHANGED activeWrites
               /\ OutcomeMoves({activeWrites[s] : s \in Sessions} \ {None}, "rejected")
            \/ activeWrites' = [s \in Sessions |-> None] /\ UNCHANGED outcome
<1>1. UNCHANGED <<radio, gatts, setup, writeQueues, queues, written, opens>>
  BY DEF StopActive
<1>2. Grows
  BY <1>1, GrowsSame DEF TypeInv, opens
<1>3. RadioOK' /\ SetupOK'
  BY <1>1, RestType
<1>4. CASE /\ Runs(t, "rejectActive")
           /\ SettleWrites(t, {activeWrites[s] : s \in Sessions} \ {None}, "rejected", <<>>)
           /\ UNCHANGED activeWrites
  <2>1. {activeWrites[s] : s \in Sessions} \ {None} \in SUBSET Records
    BY DEF TypeInv, QueuesOK
  <2>2. /\ queues' \in [Sessions -> Seq(Seq(Records))] /\ writeQueues' \in [Sessions -> Nat]
        /\ \A r \in Sessions : writeQueues'[r] \in 0..Len(queues'[r])
        /\ activeWrites' \in [Sessions -> Records \cup {None}]
    BY <1>1, <1>4 DEF TypeInv, QueuesOK
  <2>3. /\ TypeInv' /\ OutcomeMoves({activeWrites[s] : s \in Sessions} \ {None}, "rejected")
        /\ Pops(t) \/ Clears(t)
    BY <1>1, <1>2, <1>4, <2>1, <2>2, WritesFailType
  <2> QED BY <1>1, <1>4, <2>3 DEF Runs, PastOps
<1>5. CASE /\ Runs(t, "clearActive")
           /\ activeWrites' = [s \in Sessions |-> None] /\ Go(t, <<>>) /\ UNCHANGED outcome
  <2>1. TodoInv' /\ Pops(t)
    BY <1>1, <1>5, PlainPop DEF opens
  <2>2. QueuesOK'
    BY <1>1, <1>5 DEF TypeInv, QueuesOK
  <2> QED BY <1>1, <1>3, <1>5, <2>1, <2>2 DEF TypeInv, Runs, PastOps
<1> QED BY <1>4, <1>5 DEF StopActive

InTableQueues == UNION {Range(queues[s][writeQueues[s]]) : s \in {r \in Sessions : writeQueues[r] # 0}}

LEMMA StopQueuesType ==
  ASSUME TypeInv, NEW t \in Threads, todo[t] # <<>>, StopQueues(t)
  PROVE  /\ TypeInv' /\ UNCHANGED <<radio, gatts, setup, activeWrites, written, opens>>
         /\ Head(todo[t]).op \in PastOps /\ Head(todo[t]).op # "clearOpens"
         /\ Pops(t) \/ Clears(t)
         /\ \/ UNCHANGED <<queues, outcome>>
            \/ /\ \A s \in Sessions : Len(queues'[s]) = Len(queues[s])
               /\ \A s \in Sessions : \A q \in 1..Len(queues[s]) : queues'[s][q] \in {queues[s][q], <<>>}
               /\ \A s \in Sessions : writeQueues[s] # 0 => queues'[s][writeQueues[s]] = <<>>
               /\ OutcomeMoves(InTableQueues, "rejected")
<1>1. UNCHANGED <<radio, gatts, setup, activeWrites, written, opens>>
  BY DEF StopQueues
<1>2. RadioOK' /\ SetupOK'
  BY <1>1, RestType
<1>3. \A s \in Sessions : /\ queues[s] \in Seq(Seq(Records)) /\ Len(queues[s]) \in Nat
                          /\ DOMAIN queues[s] = 1..Len(queues[s])
                          /\ \A q \in 1..Len(queues[s]) : queues[s][q] \in Seq(Records)
  BY LenProperties, ElementOfSeq DEF TypeInv, QueuesOK
<1>4. CASE /\ Runs(t, "rejectQueues")
           /\ queues' = [s \in Sessions |-> [q \in DOMAIN queues[s] |->
                           IF q = writeQueues[s] THEN <<>> ELSE queues[s][q]]]
           /\ SettleWrites(t, InTableQueues, "rejected", <<>>)
           /\ UNCHANGED writeQueues
  <2>1. \A s \in Sessions :
          /\ queues'[s] = [q \in 1..Len(queues[s]) |-> IF q = writeQueues[s] THEN <<>> ELSE queues[s][q]]
          /\ queues'[s] \in [1..Len(queues[s]) -> Seq(Records)]
    BY <1>3, <1>4, EmptySeq
  <2>2. \A s \in Sessions : queues'[s] \in Seq(Seq(Records)) /\ Len(queues'[s]) = Len(queues[s])
    <3> TAKE s \in Sessions
    <3>1. queues'[s] \in Seq(Seq(Records))
      <4>1. queues'[s] \in [1..Len(queues[s]) -> Seq(Records)] /\ Len(queues[s]) \in Nat
        BY <1>3, <2>1
      <4> QED BY <4>1, SeqDef
    <3>2. DOMAIN queues'[s] = 1..Len(queues[s]) /\ Len(queues[s]) \in Nat
      BY <1>3, <2>1
    <3> QED BY <3>1, <3>2, LenProperties
  <2>3. queues' \in [Sessions -> Seq(Seq(Records))]
    BY <1>4, <2>2
  <2>4. Grows
    BY <1>1, <1>3, <2>2 DEF Grows, opens
  <2>5. InTableQueues \in SUBSET Records
    <3>1. \A s \in Sessions : writeQueues[s] # 0 => Range(queues[s][writeQueues[s]]) \subseteq Records
      <4> TAKE s \in Sessions
      <4> HAVE writeQueues[s] # 0
      <4>1. writeQueues[s] \in 1..Len(queues[s])
        BY <1>3 DEF TypeInv, QueuesOK
      <4>2. queues[s][writeQueues[s]] \in Seq(Records)
        BY <1>3, <4>1
      <4> QED BY <4>2, LenProperties DEF Range
    <3> QED BY <3>1 DEF InTableQueues
  <2>6. /\ writeQueues' \in [Sessions -> Nat] /\ \A s \in Sessions : writeQueues'[s] \in 0..Len(queues'[s])
        /\ activeWrites' \in [Sessions -> Records \cup {None}]
    BY <1>1, <1>4, <2>2 DEF TypeInv, QueuesOK
  <2> HIDE DEF InTableQueues
  <2>7. TypeInv' /\ OutcomeMoves(InTableQueues, "rejected") /\ (Pops(t) \/ Clears(t))
    BY <1>1, <1>4, <2>3, <2>4, <2>5, <2>6, WritesFailType
  <2>8. \A s \in Sessions : \A q \in 1..Len(queues[s]) : queues'[s][q] \in {queues[s][q], <<>>}
    <3> TAKE s \in Sessions
    <3> TAKE q \in 1..Len(queues[s])
    <3>1. queues'[s] = [r \in 1..Len(queues[s]) |-> IF r = writeQueues[s] THEN <<>> ELSE queues[s][r]]
      BY <2>1
    <3>2. queues'[s][q] = IF q = writeQueues[s] THEN <<>> ELSE queues[s][q]
      BY <3>1
    <3> QED BY <3>2
  <2>9. \A s \in Sessions : writeQueues[s] # 0 => queues'[s][writeQueues[s]] = <<>>
    <3> TAKE s \in Sessions
    <3> HAVE writeQueues[s] # 0
    <3>1. writeQueues[s] \in 1..Len(queues[s])
      BY <1>3 DEF TypeInv, QueuesOK
    <3> QED BY <2>1, <3>1
  <2> QED BY <1>1, <1>4, <2>2, <2>7, <2>8, <2>9 DEF Runs, PastOps
<1>5. CASE /\ Runs(t, "clearQueues")
           /\ writeQueues' = [s \in Sessions |-> 0] /\ Go(t, <<>>) /\ UNCHANGED <<queues, outcome>>
  <2>1. TodoInv' /\ Pops(t)
    BY <1>1, <1>5, PlainPop DEF opens
  <2>2. QueuesOK'
    BY <1>1, <1>3, <1>5 DEF TypeInv, QueuesOK
  <2> QED BY <1>1, <1>2, <1>5, <2>1, <2>2 DEF TypeInv, Runs, PastOps
<1> QED BY <1>4, <1>5 DEF StopQueues, InTableQueues

----------------------------------------------------------------------------
(* What starts a thread.                                                   *)

\* A thread starts to close the session s, or to have its open settled.
Ending(t, s, T) ==
  /\ Starts(t, T) /\ ShapeOf(t, T)
  /\ \A k \in 1..Len(T) : T[k].s = s /\ T[k].w = None /\ T[k].op \in ClosingOps /\ T[k].op # "drain"

\* What it starts with settles the open before it is over.
Closes(t, s) ==
  \E T \in Seq(StepRecord) :
    /\ Ending(t, s, T)
    /\ \A k \in 1..Len(T) : T[k].op \in {"drop", "report"} => \E j \in 1..(k - 1) : T[j].op \in SettleOps

EndsOnly(t, s) == \E T \in Seq(StepRecord) : Ending(t, s, T)

LEMMA EndingKeeps ==
  ASSUME TypeInv, Grows, NEW t \in Threads, NEW s \in Sessions, EndsOnly(t, s)
  PROVE  TodoInv'
<1>1. PICK T \in Seq(StepRecord) : Ending(t, s, T)
  BY DEF EndsOnly
<1>2. \A k \in 1..Len(T) : T[k].op \notin QueueOps /\ T[k].op \notin OpeningOps
  BY <1>1 DEF Ending, QueueOps, OpeningOps, ClosingOps, SettleOps
<1> QED BY <1>1, <1>2, StartsKeeps DEF TypeInv, Ending

LEMMA ClosesEnds ==
  ASSUME NEW t, NEW s, Closes(t, s)
  PROVE  EndsOnly(t, s)
BY DEF Closes, EndsOnly


LEMMA CloseCloses ==
  ASSUME NEW t, NEW s \in Sessions, Start(t, CloseSteps(s))
  PROVE  Closes(t, s)
<1> DEFINE ops == <<"cancelTimeout", "rejectPending", "failActive", "failQueue", "drop">>
           T == CloseSteps(s)
<1>1. ShapeOf(t, T) /\ Plan(T, ops, s)
  BY ClosePlan
<1>2. Starts(t, T)
  BY DEF Start, Idle, Starts
<1> HIDE DEF T
<1>3. /\ T \in Seq(StepRecord) /\ Len(T) = 5
      /\ \A k \in 1..5 : T[k].s = s /\ T[k].w = None
      /\ T[1].op = "cancelTimeout" /\ T[2].op = "rejectPending" /\ T[3].op = "failActive" /\ T[4].op = "failQueue" /\ T[5].op = "drop"
  BY <1>1 DEF Plan
<1>4. Ending(t, s, T)
  BY <1>1, <1>2, <1>3 DEF Ending, ClosingOps, SettleOps
<1>5. \A k \in 1..Len(T) : T[k].op \in {"drop", "report"} => \E j \in 1..(k - 1) : T[j].op \in SettleOps
  BY <1>3 DEF SettleOps
<1> QED BY <1>3, <1>4, <1>5 DEF Closes

LEMMA FailCloses ==
  ASSUME NEW t, NEW s \in Sessions, Start(t, FailSteps(s))
  PROVE  Closes(t, s)
<1> DEFINE ops == <<"cancelTimeout", "rejectPending", "drop">>
           T == FailSteps(s)
<1>1. ShapeOf(t, T) /\ Plan(T, ops, s)
  BY FailPlan
<1>2. Starts(t, T)
  BY DEF Start, Idle, Starts
<1> HIDE DEF T
<1>3. /\ T \in Seq(StepRecord) /\ Len(T) = 3
      /\ \A k \in 1..3 : T[k].s = s /\ T[k].w = None
      /\ T[1].op = "cancelTimeout" /\ T[2].op = "rejectPending" /\ T[3].op = "drop"
  BY <1>1 DEF Plan
<1>4. Ending(t, s, T)
  BY <1>1, <1>2, <1>3 DEF Ending, ClosingOps, SettleOps
<1>5. \A k \in 1..Len(T) : T[k].op \in {"drop", "report"} => \E j \in 1..(k - 1) : T[j].op \in SettleOps
  BY <1>3 DEF SettleOps
<1> QED BY <1>3, <1>4, <1>5 DEF Closes

LEMMA ReadyCloses ==
  ASSUME NEW t, NEW s \in Sessions, Start(t, Steps(<<"cancelTimeout", "resolvePending">>, s))
  PROVE  Closes(t, s)
<1> DEFINE ops == <<"cancelTimeout", "resolvePending">>
           T == Steps(<<"cancelTimeout", "resolvePending">>, s)
<1>1. ShapeOf(t, T) /\ Plan(T, ops, s)
  BY ReadyPlan
<1>2. Starts(t, T)
  BY DEF Start, Idle, Starts
<1> HIDE DEF T
<1>3. /\ T \in Seq(StepRecord) /\ Len(T) = 2
      /\ \A k \in 1..2 : T[k].s = s /\ T[k].w = None
      /\ T[1].op = "cancelTimeout" /\ T[2].op = "resolvePending"
  BY <1>1 DEF Plan
<1>4. Ending(t, s, T)
  BY <1>1, <1>2, <1>3 DEF Ending, ClosingOps, SettleOps
<1>5. \A k \in 1..Len(T) : T[k].op \in {"drop", "report"} => \E j \in 1..(k - 1) : T[j].op \in SettleOps
  BY <1>3 DEF SettleOps
<1> QED BY <1>3, <1>4, <1>5 DEF Closes

LEMMA NoServiceCloses ==
  ASSUME NEW t, NEW s \in Sessions, Start(t, Steps(<<"rejectPending", "report">>, s))
  PROVE  Closes(t, s)
<1> DEFINE ops == <<"rejectPending", "report">>
           T == Steps(<<"rejectPending", "report">>, s)
<1>1. ShapeOf(t, T) /\ Plan(T, ops, s)
  BY NoServicePlan
<1>2. Starts(t, T)
  BY DEF Start, Idle, Starts
<1> HIDE DEF T
<1>3. /\ T \in Seq(StepRecord) /\ Len(T) = 2
      /\ \A k \in 1..2 : T[k].s = s /\ T[k].w = None
      /\ T[1].op = "rejectPending" /\ T[2].op = "report"
  BY <1>1 DEF Plan
<1>4. Ending(t, s, T)
  BY <1>1, <1>2, <1>3 DEF Ending, ClosingOps, SettleOps
<1>5. \A k \in 1..Len(T) : T[k].op \in {"drop", "report"} => \E j \in 1..(k - 1) : T[j].op \in SettleOps
  BY <1>3 DEF SettleOps
<1> QED BY <1>3, <1>4, <1>5 DEF Closes

LEMMA ClientLostCloses ==
  ASSUME NEW t, NEW s \in Sessions, Start(t, Steps(<<"rejectPending", "failActive", "failQueue", "report">>, s))
  PROVE  Closes(t, s)
<1> DEFINE ops == <<"rejectPending", "failActive", "failQueue", "report">>
           T == Steps(<<"rejectPending", "failActive", "failQueue", "report">>, s)
<1>1. ShapeOf(t, T) /\ Plan(T, ops, s)
  BY ClientLostPlan
<1>2. Starts(t, T)
  BY DEF Start, Idle, Starts
<1> HIDE DEF T
<1>3. /\ T \in Seq(StepRecord) /\ Len(T) = 4
      /\ \A k \in 1..4 : T[k].s = s /\ T[k].w = None
      /\ T[1].op = "rejectPending" /\ T[2].op = "failActive" /\ T[3].op = "failQueue" /\ T[4].op = "report"
  BY <1>1 DEF Plan
<1>4. Ending(t, s, T)
  BY <1>1, <1>2, <1>3 DEF Ending, ClosingOps, SettleOps
<1>5. \A k \in 1..Len(T) : T[k].op \in {"drop", "report"} => \E j \in 1..(k - 1) : T[j].op \in SettleOps
  BY <1>3 DEF SettleOps
<1> QED BY <1>3, <1>4, <1>5 DEF Closes

LEMMA TimeOutCloses ==
  ASSUME NEW t, NEW s \in Sessions, Start(t, Steps(<<"rejectPending">>, s) \o CloseSteps(s))
  PROVE  Closes(t, s)
<1> DEFINE ops == <<"rejectPending", "cancelTimeout", "rejectPending", "failActive", "failQueue", "drop">>
           T == Steps(<<"rejectPending">>, s) \o CloseSteps(s)
<1>1. ShapeOf(t, T) /\ Plan(T, ops, s)
  BY TimeoutPlan
<1>2. Starts(t, T)
  BY DEF Start, Idle, Starts
<1> HIDE DEF T
<1>3. /\ T \in Seq(StepRecord) /\ Len(T) = 6
      /\ \A k \in 1..6 : T[k].s = s /\ T[k].w = None
      /\ T[1].op = "rejectPending" /\ T[2].op = "cancelTimeout" /\ T[3].op = "rejectPending" /\ T[4].op = "failActive" /\ T[5].op = "failQueue" /\ T[6].op = "drop"
  BY <1>1 DEF Plan
<1>4. Ending(t, s, T)
  BY <1>1, <1>2, <1>3 DEF Ending, ClosingOps, SettleOps
<1>5. \A k \in 1..Len(T) : T[k].op \in {"drop", "report"} => \E j \in 1..(k - 1) : T[j].op \in SettleOps
  BY <1>3 DEF SettleOps
<1> QED BY <1>3, <1>4, <1>5 DEF Closes

LEMMA ServerLostEnds ==
  ASSUME NEW t, NEW s \in Sessions, Start(t, Steps(<<"failActive", "failQueue", "dropServer", "report">>, s))
  PROVE  EndsOnly(t, s)
<1> DEFINE ops == <<"failActive", "failQueue", "dropServer", "report">>
           T == Steps(<<"failActive", "failQueue", "dropServer", "report">>, s)
<1>1. ShapeOf(t, T) /\ Plan(T, ops, s)
  BY ServerLostPlan
<1>2. Starts(t, T)
  BY DEF Start, Idle, Starts
<1> HIDE DEF T
<1>3. /\ T \in Seq(StepRecord) /\ Len(T) = 4
      /\ \A k \in 1..4 : T[k].s = s /\ T[k].w = None
      /\ T[1].op = "failActive" /\ T[2].op = "failQueue" /\ T[3].op = "dropServer" /\ T[4].op = "report"
  BY <1>1 DEF Plan
<1>4. Ending(t, s, T)
  BY <1>1, <1>2, <1>3 DEF Ending, ClosingOps, SettleOps
<1> QED BY <1>3, <1>4 DEF EndsOnly

LEMMA ReportEnds ==
  ASSUME NEW t, NEW s \in Sessions, Start(t, Steps(<<"report">>, s))
  PROVE  EndsOnly(t, s)
<1> DEFINE e == Step("report", s)
           T == <<e>>
<1>1. "report" \in Ops
  BY DEF Ops, ClosingOps
<1>2. Steps(<<"report">>, s) = T /\ e \in StepRecord /\ e.op = "report" /\ e.s = s /\ e.w = None
  BY <1>1, OneStep
<1> HIDE DEF e
<1>3. StepShape(t, e) /\ Ends(e)
  BY <1>2 DEF StepShape, Ends, CarryOps, OpeningOps, StopOps, PastOps
<1>4. ShapeOf(t, T) /\ Len(T) = 1 /\ T[1] = e /\ T \in Seq(StepRecord)
  BY <1>2, <1>3, OneShape DEF ShapeOf
<1>5. Starts(t, T)
  BY <1>2 DEF Start, Idle, Starts
<1> HIDE DEF T
<1>6. Ending(t, s, T)
  BY <1>2, <1>4, <1>5 DEF Ending, ClosingOps
<1> QED BY <1>4, <1>6 DEF EndsOnly

\* A confirmation, or a refusal, to be dealt with on the thread of the session.
LEMMA CompletionStarts ==
  ASSUME NEW s \in Sessions, NEW op \in {"completed", "failed"}, Start(s, Steps(<<op>>, s))
  PROVE  LET T == <<Step(op, s)>>
         IN  /\ Starts(s, T) /\ ShapeOf(s, T) /\ Len(T) = 1
             /\ T[1].op = op /\ T[1].s = s /\ T[1].w = None
<1> DEFINE e == Step(op, s)
           T == <<e>>
<1>1. op \in Ops /\ op \in SendingOps
  BY DEF Ops, SendingOps
<1>2. Steps(<<op>>, s) = T /\ e \in StepRecord /\ e.op = op /\ e.s = s /\ e.w = None
  BY <1>1, OneStep
<1> HIDE DEF e
<1>3. StepShape(s, e) /\ Ends(e)
  BY <1>2 DEF StepShape, Ends, CarryOps, OpeningOps, StopOps, PastOps
<1>4. ShapeOf(s, T) /\ Len(T) = 1 /\ T[1] = e
  BY <1>3, OneShape
<1>5. Starts(s, T)
  BY <1>2 DEF Start, Idle, Starts
<1> QED BY <1>2, <1>4, <1>5 DEF e

----------------------------------------------------------------------------
(* Type correctness of the calls and the callbacks.                        *)

LEMMA ThreadNames ==
  /\ "module" \in Threads /\ "main" \in Threads
  /\ \A s \in Sessions : s \in Threads /\ s # "module" /\ s # "main"
BY SessionsAssumption DEF Threads

LEMMA OpenSessionType ==
  ASSUME TypeInv, NEW s \in Sessions, OpenSession(s)
  PROVE  /\ TypeInv' /\ opened[s] = "no" /\ link[s] = "none"
         /\ UNCHANGED <<stops, selectedMode, air, gatts, setup, writes, overtaken>>
         /\ \/ opened' = [opened EXCEPT ![s] = "rejected"] /\ UNCHANGED <<link, todo>>
            \/ opened' = [opened EXCEPT ![s] = "waiting"] /\ link' = [link EXCEPT ![s] = "calling"] /\ UNCHANGED todo
            \/ /\ opened' = [opened EXCEPT ![s] = "waiting"] /\ UNCHANGED link
               /\ \E T \in Seq(StepRecord) :
                    /\ Starts("module", T) /\ Plan(T, <<"put", "schedule", "connect", "putGatt">>, s)
<1>1. /\ opened[s] = "no" /\ link[s] = "none"
      /\ UNCHANGED <<stops, selectedMode, air, gatts, setup, writes, overtaken>>
  BY DEF OpenSession
<1>2. ASSUME opened' \in {[opened EXCEPT ![s] = "rejected"], [opened EXCEPT ![s] = "waiting"]},
             link' \in {link, [link EXCEPT ![s] = "calling"]}
      PROVE  RadioOK' /\ SetupOK' /\ QueuesOK' /\ Grows
  <2>1. RadioOK'
    BY <1>1, <1>2 DEF TypeInv, RadioOK
  <2>2. SetupOK'
    <3>1. /\ opened' \in [Sessions -> {"no", "waiting", "resolved", "rejected"}]
          /\ \A r \in Sessions : r # s => opened'[r] = opened[r] /\ link'[r] = link[r]
          /\ opened'[s] # "no" /\ s \notin serverDevices
      BY <1>1, <1>2 DEF TypeInv, SetupOK, RadioOK
    <3>2. /\ UNCHANGED <<clientGatts, pendingSessions, sessionTimeouts, overtaken, serverDevices>>
          /\ UNCHANGED <<classicSockets, negotiatedMtu>>
      BY <1>1 DEF gatts, setup
    <3> QED BY <1>1, <3>1, <3>2 DEF TypeInv, SetupOK
  <2>3. QueuesOK'
    BY <1>1 DEF TypeInv, QueuesOK, writes
  <2>4. Grows
    BY <1>1, <1>2, GrowsSame DEF TypeInv, SetupOK, writes
  <2> QED BY <2>1, <2>2, <2>3, <2>4
<1>3. CASE \/ opened' = [opened EXCEPT ![s] = "rejected"] /\ UNCHANGED <<link, todo>>
           \/ opened' = [opened EXCEPT ![s] = "waiting"] /\ link' = [link EXCEPT ![s] = "calling"] /\ UNCHANGED todo
  <2>1. RadioOK' /\ SetupOK' /\ QueuesOK' /\ Grows
    BY <1>2, <1>3
  <2>2. TodoInv'
    BY <1>3, <2>1, SameKeeps DEF TypeInv
  <2> QED BY <1>1, <1>3, <2>1, <2>2 DEF TypeInv
<1>4. CASE /\ opened' = [opened EXCEPT ![s] = "waiting"] /\ UNCHANGED link
           /\ Start("module", Steps(<<"put", "schedule", "connect", "putGatt">>, s))
  <2> DEFINE T == Steps(<<"put", "schedule", "connect", "putGatt">>, s)
  <2>1. ShapeOf("module", T) /\ Plan(T, <<"put", "schedule", "connect", "putGatt">>, s)
    BY OpenPlan
  <2>2. Starts("module", T)
    BY <1>4 DEF Start, Idle, Starts
  <2>3. RadioOK' /\ SetupOK' /\ QueuesOK' /\ Grows
    BY <1>2, <1>4
  <2> HIDE DEF T
  <2>4. T \in Seq(StepRecord) /\ Len(T) = 4 /\ \A k \in 1..4 : T[k].s = s /\ T[k].op \in OpeningOps
    BY <2>1 DEF Plan, OpeningOps
  <2>5. opened'[s] # "no"
    BY <1>4 DEF TypeInv, SetupOK
  <2>6. TodoInv'
    BY <2>1, <2>2, <2>3, <2>4, <2>5, StartsKeeps, ThreadNames DEF TypeInv, QueueOps, OpeningOps
  <2> QED BY <1>1, <1>4, <2>1, <2>2, <2>3, <2>4, <2>6 DEF TypeInv
<1> QED BY <1>3, <1>4 DEF OpenSession

\* A step that starts a thread, or none, and touches the connection only.
LEMMA CallbackType ==
  ASSUME TypeInv, NEW s \in Sessions, UNCHANGED todo \/ (\E t \in Threads : EndsOnly(t, s)),
         UNCHANGED <<queues, opened>>, RadioOK', SetupOK', QueuesOK'
  PROVE  TypeInv'
<1>1. Grows
  BY GrowsSame DEF TypeInv
<1> QED BY <1>1, SameKeeps, EndingKeeps DEF TypeInv

LEMMA CloseSessionType ==
  ASSUME TypeInv, NEW s \in Sessions, CloseSession(s)
  PROVE  /\ TypeInv' /\ Known(s) /\ Closes("module", s) /\ UNCHANGED <<radio, gatts, setup, writes, opens>>
<1>1. Known(s) /\ Closes("module", s) /\ UNCHANGED <<radio, gatts, setup, writes, opens>>
  BY CloseCloses DEF CloseSession
<1>2. RadioOK' /\ SetupOK' /\ QueuesOK'
  BY <1>1, RestType DEF TypeInv, QueuesOK, writes
<1> QED BY <1>1, <1>2, CallbackType, ClosesEnds, ThreadNames DEF writes, opens

LEMMA TimeoutType ==
  ASSUME TypeInv, NEW s \in Sessions, Timeout(s)
  PROVE  /\ TypeInv' /\ Closes("main", s) /\ s \in sessionTimeouts /\ sessionTimeouts' = sessionTimeouts \ {s}
         /\ UNCHANGED <<radio, gatts, pendingSessions, negotiatedMtu, writes, opens>>
<1>1. /\ Closes("main", s) /\ s \in sessionTimeouts /\ sessionTimeouts' = sessionTimeouts \ {s}
      /\ UNCHANGED <<radio, gatts, pendingSessions, negotiatedMtu, writes, opens>>
  BY TimeOutCloses DEF Timeout
<1>2. RadioOK' /\ SetupOK' /\ QueuesOK'
  BY <1>1 DEF TypeInv, RadioOK, SetupOK, QueuesOK, radio, gatts, writes, opens
<1> QED BY <1>1, <1>2, CallbackType, ClosesEnds, ThreadNames DEF writes, opens

LEMMA StopRelayType ==
  ASSUME TypeInv, NEW t \in {"module", "main"}, StopRelayOn(t)
  PROVE  /\ TypeInv' /\ UNCHANGED <<selectedMode, link, air, gatts, setup, writes, opens>>
         /\ \E T \in Seq(StepRecord) :
              /\ Starts(t, T) /\ Len(T) = 8 /\ T[1].op = "stopGatts"
              /\ \A k \in 1..8 : T[k].op \in StopOps /\ T[k].w = None
<1> DEFINE T == StopSteps
<1>1. /\ stops < MaxStops /\ stops' = stops + 1 /\ Starts(t, T)
      /\ UNCHANGED <<selectedMode, link, air, gatts, setup, writes, opens>>
  BY DEF StopRelayOn, Start, Idle, Starts
<1>2. /\ ShapeOf(t, T)
      /\ Plan(T, <<"stopGatts", "rejectOpens", "clearOpens", "rejectActive", "clearActive",
                   "rejectQueues", "clearQueues", "clearRest">>, None)
  BY StopPlan
<1> HIDE DEF T
<1>3. /\ T \in Seq(StepRecord) /\ Len(T) = 8 /\ T[1].op = "stopGatts"
      /\ \A k \in 1..8 : T[k].op \in StopOps /\ T[k].w = None
  BY <1>2 DEF Plan, StopOps, PastOps
<1>4. Grows
  BY <1>1, GrowsSame DEF TypeInv, writes, opens
<1>5. TodoInv'
  BY <1>1, <1>2, <1>3, <1>4, StartsKeeps, ThreadNames DEF TypeInv, QueueOps, OpeningOps, StopOps, PastOps
<1>6. RadioOK' /\ SetupOK' /\ QueuesOK'
  BY <1>1, BoundsAssumption DEF TypeInv, RadioOK, SetupOK, QueuesOK, gatts, setup, writes, opens
<1> QED BY <1>1, <1>3, <1>5, <1>6 DEF TypeInv

LEMMA SendRecordType ==
  ASSUME TypeInv, NEW w \in Records, SendRecord(w)
  PROVE  /\ TypeInv' /\ outcome[w] = "unsent" /\ outcome' = [outcome EXCEPT ![w] = "waiting"]
         /\ UNCHANGED <<radio, gatts, setup, writeQueues, queues, activeWrites, written, opens>>
         /\ \E T \in Seq(StepRecord) : /\ Starts("module", T) /\ Len(T) = 1 /\ T[1].op = "admit"
                                       /\ T[1].s = SessionOf[w] /\ T[1].w = w
<1> DEFINE s == SessionOf[w]
           e == [op |-> "admit", s |-> s, w |-> w, q |-> 0]
           T == <<e>>
<1>1. /\ outcome[w] = "unsent" /\ outcome' = [outcome EXCEPT ![w] = "waiting"]
      /\ UNCHANGED <<radio, gatts, setup, writeQueues, queues, activeWrites, written, opens>>
      /\ Starts("module", T)
  BY DEF SendRecord, Start, Idle, Starts
<1>2. s \in Sessions /\ w # None
  BY RecordsAssumption
<1>3. e \in StepRecord
  BY <1>2 DEF StepRecord, Ops, SendingOps, CarryOps
<1>4. e.op = "admit" /\ e.s = s /\ e.w = w
  OBVIOUS
<1> HIDE DEF e, s
<1>5. StepShape("module", e) /\ Ends(e)
  BY <1>2, <1>3, <1>4 DEF StepShape, Ends, CarryOps, OpeningOps, StopOps, PastOps
<1>6. ShapeOf("module", T) /\ Len(T) = 1 /\ T[1] = e /\ T \in Seq(StepRecord)
  BY <1>3, <1>5, OneShape
<1> HIDE DEF T
<1>7. Grows
  BY <1>1, GrowsSame DEF TypeInv, opens
<1>8. TodoInv'
  BY <1>1, <1>4, <1>6, <1>7, StartsKeeps, ThreadNames DEF TypeInv, QueueOps, OpeningOps
<1>9. RadioOK' /\ SetupOK' /\ QueuesOK'
  BY <1>1, RestType DEF TypeInv, QueuesOK
<1> QED BY <1>1, <1>4, <1>6, <1>8, <1>9 DEF TypeInv, s

LEMMA AdvertisingType ==
  ASSUME TypeInv, AdvertisingUnavailable
  PROVE  TypeInv'
<1>1. RadioOK' /\ SetupOK' /\ QueuesOK'
  BY DEF TypeInv, RadioOK, SetupOK, QueuesOK, AdvertisingUnavailable, Closed, Alive, setup, writes, opens
<1>2. Grows
  BY GrowsSame DEF TypeInv, AdvertisingUnavailable, writes, opens
<1> QED BY <1>1, <1>2, SameKeeps DEF TypeInv, AdvertisingUnavailable


LEMMA OnConnectedType ==
  ASSUME TypeInv, NEW s \in Sessions, OnConnected(s)
  PROVE  /\ TypeInv'
         /\ UNCHANGED todo \/ Closes(s, s)
         /\ link[s] \in Alive /\ \E l \in Alive : link' = [link EXCEPT ![s] = l]
<1>1. UNCHANGED todo \/ Closes(s, s)
  BY FailCloses DEF OnConnected
<1>2. RadioOK' /\ SetupOK' /\ QueuesOK'
  <2>1. PICK l \in Alive : link' = [link EXCEPT ![s] = l]
    BY DEF OnConnected, Alive
  <2>2. UNCHANGED <<stops, selectedMode, air, gatts, setup, writes, opens>>
    BY DEF OnConnected
  <2>3. l \notin {"none", "calling"}
    BY DEF Alive
  <2> QED BY <2>1, <2>2, <2>3 DEF TypeInv, RadioOK, SetupOK, QueuesOK, gatts, setup, writes, opens
<1>3. UNCHANGED <<queues, opened>>
  BY DEF OnConnected, writes, opens
<1>4. \E l \in Alive : link' = [link EXCEPT ![s] = l]
  BY DEF OnConnected, Alive
<1>5. TypeInv'
  BY <1>1, <1>2, <1>3, CallbackType, ClosesEnds, ThreadNames
<1> QED BY <1>1, <1>4, <1>5 DEF OnConnected, Alive

LEMMA OnMtuChangedType ==
  ASSUME TypeInv, NEW s \in Sessions, OnMtuChanged(s)
  PROVE  /\ TypeInv'
         /\ UNCHANGED todo \/ Closes(s, s)
         /\ link[s] \in Alive /\ \E l \in Alive : link' = [link EXCEPT ![s] = l]
<1>1. UNCHANGED todo \/ Closes(s, s)
  BY FailCloses DEF OnMtuChanged
<1>2. RadioOK' /\ SetupOK' /\ QueuesOK'
  BY DEF TypeInv, RadioOK, SetupOK, QueuesOK, OnMtuChanged, Alive, radio, gatts, setup, writes, opens
<1>3. UNCHANGED <<queues, opened>>
  BY DEF OnMtuChanged, writes, opens
<1>4. \E l \in Alive : link' = [link EXCEPT ![s] = l]
  BY DEF OnMtuChanged, Alive
<1>5. TypeInv'
  BY <1>1, <1>2, <1>3, CallbackType, ClosesEnds, ThreadNames
<1> QED BY <1>1, <1>4, <1>5 DEF OnMtuChanged, Alive

LEMMA OnServicesDiscoveredType ==
  ASSUME TypeInv, NEW s \in Sessions, OnServicesDiscovered(s)
  PROVE  /\ TypeInv'
         /\ UNCHANGED todo \/ Closes(s, s)
         /\ link[s] \in Alive /\ \E l \in Alive : link' = [link EXCEPT ![s] = l]
<1>1. UNCHANGED todo \/ Closes(s, s)
  BY NoServiceCloses, TimeOutCloses DEF OnServicesDiscovered
<1>2. RadioOK' /\ SetupOK' /\ QueuesOK'
  BY DEF TypeInv, RadioOK, SetupOK, QueuesOK, OnServicesDiscovered, Alive, radio, gatts, setup, writes, opens
<1>3. UNCHANGED <<queues, opened>>
  BY DEF OnServicesDiscovered, writes, opens
<1>4. \E l \in Alive : link' = [link EXCEPT ![s] = l]
  BY DEF OnServicesDiscovered, Alive
<1>5. TypeInv'
  BY <1>1, <1>2, <1>3, CallbackType, ClosesEnds, ThreadNames
<1> QED BY <1>1, <1>4, <1>5 DEF OnServicesDiscovered, Alive

LEMMA OnDescriptorWriteType ==
  ASSUME TypeInv, NEW s \in Sessions, OnDescriptorWrite(s)
  PROVE  /\ TypeInv'
         /\ UNCHANGED todo \/ Closes(s, s)
         /\ link[s] \in Alive /\ \E l \in Alive : link' = [link EXCEPT ![s] = l]
<1>1. UNCHANGED todo \/ Closes(s, s)
  BY ReadyCloses, TimeOutCloses DEF OnDescriptorWrite
<1>2. RadioOK' /\ SetupOK' /\ QueuesOK'
  BY DEF TypeInv, RadioOK, SetupOK, QueuesOK, OnDescriptorWrite, Alive, radio, gatts, setup, writes, opens
<1>3. UNCHANGED <<queues, opened>>
  BY DEF OnDescriptorWrite, writes, opens
<1>4. \E l \in Alive : link' = [link EXCEPT ![s] = l]
  BY DEF OnDescriptorWrite, Alive
<1>5. TypeInv'
  BY <1>1, <1>2, <1>3, CallbackType, ClosesEnds, ThreadNames
<1> QED BY <1>1, <1>4, <1>5 DEF OnDescriptorWrite, Alive

LEMMA OnCharacteristicWriteType ==
  ASSUME TypeInv, NEW s \in Sessions, OnCharacteristicWrite(s)
  PROVE  /\ TypeInv' /\ air[s] # None /\ air' = [air EXCEPT ![s] = None]
         /\ UNCHANGED <<stops, selectedMode, link, gatts, setup, writeQueues, queues, activeWrites, outcome, opens>>
         /\ \E T \in Seq(StepRecord) :
              /\ Starts(s, T) /\ Len(T) = 1 /\ T[1].s = s /\ T[1].w = None
              /\ \/ T[1].op = "completed" /\ written' = written \cup {air[s]}
                 \/ T[1].op = "failed" /\ UNCHANGED written
<1>1. /\ air[s] # None /\ air' = [air EXCEPT ![s] = None]
      /\ UNCHANGED <<stops, selectedMode, link, gatts, setup, writeQueues, queues, activeWrites, outcome, opens>>
  BY DEF OnCharacteristicWrite
<1>2. PICK op \in {"completed", "failed"} :
        /\ Start(s, Steps(<<op>>, s))
        /\ written' = IF op = "completed" THEN written \cup {air[s]} ELSE written
  BY DEF OnCharacteristicWrite
<1> DEFINE T == <<Step(op, s)>>
<1>3. /\ Starts(s, T) /\ ShapeOf(s, T) /\ Len(T) = 1
      /\ T[1].op = op /\ T[1].s = s /\ T[1].w = None
  BY <1>2, CompletionStarts
<1> HIDE DEF T
<1>4. Grows
  BY <1>1, GrowsSame DEF TypeInv, opens
<1>5. T[1].op \notin QueueOps /\ T[1].op \notin OpeningOps
  BY <1>3 DEF QueueOps, OpeningOps
<1>6. TodoInv' /\ T \in Seq(StepRecord)
  BY <1>3, <1>4, <1>5, StartsKeeps, ThreadNames DEF TypeInv, ShapeOf
<1>7. SetupOK'
  BY <1>1 DEF TypeInv, SetupOK, gatts, setup, opens
<1>8. RadioOK' /\ QueuesOK'
  BY <1>1, <1>2 DEF TypeInv, RadioOK, QueuesOK
<1> QED BY <1>1, <1>2, <1>3, <1>6, <1>7, <1>8 DEF TypeInv

LEMMA OnDisconnectedType ==
  ASSUME TypeInv, NEW s \in Sessions, OnDisconnected(s)
  PROVE  /\ TypeInv' /\ link[s] \in Alive /\ link' = [link EXCEPT ![s] = "gone"] /\ air' = [air EXCEPT ![s] = None]
         /\ UNCHANGED <<stops, selectedMode, gatts, setup, writes, opens>>
         /\ \/ UNCHANGED todo \/ Closes(s, s)
            \/ s \in serverDevices /\ EndsOnly(s, s)
<1>1. /\ link[s] \in Alive /\ link' = [link EXCEPT ![s] = "gone"] /\ air' = [air EXCEPT ![s] = None]
      /\ UNCHANGED <<stops, selectedMode, gatts, setup, writes, opens>>
  BY DEF OnDisconnected
<1>2. \/ UNCHANGED todo \/ Closes(s, s)
      \/ s \in serverDevices /\ EndsOnly(s, s)
  BY ClientLostCloses, ServerLostEnds DEF OnDisconnected
<1>3. RadioOK' /\ SetupOK' /\ QueuesOK'
  BY <1>1 DEF TypeInv, RadioOK, SetupOK, QueuesOK, gatts, setup, writes, opens
<1>4. TypeInv'
  BY <1>1, <1>2, <1>3, CallbackType, ClosesEnds, ThreadNames DEF writes, opens
<1> QED BY <1>1, <1>2, <1>4

LEMMA AcceptedType ==
  ASSUME TypeInv, NEW s \in Sessions, Accepted(s)
  PROVE  TypeInv'
<1>1. RadioOK' /\ SetupOK' /\ QueuesOK'
  BY DEF TypeInv, RadioOK, SetupOK, QueuesOK, Accepted, Alive, writes, opens
<1> QED BY <1>1, CallbackType DEF Accepted, writes, opens

LEMMA OnServerMtuChangedType ==
  ASSUME TypeInv, NEW s \in Sessions, OnServerMtuChanged(s)
  PROVE  TypeInv'
<1>1. RadioOK' /\ SetupOK' /\ QueuesOK'
  BY DEF TypeInv, RadioOK, SetupOK, QueuesOK, OnServerMtuChanged, radio, gatts, writes, opens
<1> QED BY <1>1, CallbackType DEF OnServerMtuChanged, writes, opens

LEMMA ClassicConnectedType ==
  ASSUME TypeInv, NEW s \in Sessions, ClassicConnected(s)
  PROVE  TypeInv'
<1>1. \A r \in Sessions : r # s => opened'[r] = opened[r] /\ link'[r] = link[r]
  BY DEF ClassicConnected, TypeInv, RadioOK, SetupOK
<1>2. /\ opened' \in [Sessions -> {"no", "waiting", "resolved", "rejected"}]
      /\ opened[s] # "no" <=> opened'[s] # "no"
      /\ link'[s] = "up" /\ link' \in [Sessions -> Alive \cup {"none", "calling", "gone", "closed"}]
  BY DEF ClassicConnected, TypeInv, RadioOK, SetupOK, Alive
<1>3. /\ UNCHANGED <<stops, selectedMode, air, clientGatts, serverDevices, pendingSessions, sessionTimeouts>>
      /\ UNCHANGED <<negotiatedMtu, writes, todo, overtaken>>
      /\ classicSockets' = classicSockets \cup {s}
  BY DEF ClassicConnected
<1>4. RadioOK' /\ SetupOK' /\ QueuesOK'
  BY <1>1, <1>2, <1>3 DEF TypeInv, RadioOK, SetupOK, QueuesOK, writes
<1>5. Grows
  BY <1>1, <1>2, <1>3, GrowsSame DEF TypeInv, writes
<1> QED BY <1>3, <1>4, <1>5, SameKeeps DEF TypeInv

LEMMA ClassicRefusedType ==
  ASSUME TypeInv, NEW s \in Sessions, ClassicRefused(s)
  PROVE  TypeInv'
<1>1. \A r \in Sessions : r # s => opened'[r] = opened[r] /\ link'[r] = link[r]
  BY DEF ClassicRefused, TypeInv, RadioOK, SetupOK
<1>2. /\ opened' \in [Sessions -> {"no", "waiting", "resolved", "rejected"}]
      /\ opened[s] # "no" /\ opened'[s] # "no"
      /\ link'[s] = "gone" /\ link' \in [Sessions -> Alive \cup {"none", "calling", "gone", "closed"}]
  BY DEF ClassicRefused, TypeInv, RadioOK, SetupOK
<1>3. /\ UNCHANGED <<stops, selectedMode, air, gatts, setup, writes, todo, overtaken>>
  BY DEF ClassicRefused
<1>4. RadioOK' /\ SetupOK' /\ QueuesOK'
  BY <1>1, <1>2, <1>3 DEF TypeInv, RadioOK, SetupOK, QueuesOK, gatts, setup, writes
<1>5. Grows
  BY <1>1, <1>2, <1>3, GrowsSame DEF TypeInv, writes
<1> QED BY <1>3, <1>4, <1>5, SameKeeps DEF TypeInv

LEMMA ClassicLostType ==
  ASSUME TypeInv, NEW s \in Sessions, ClassicLost(s)
  PROVE  /\ TypeInv' /\ s \in classicSockets /\ EndsOnly(s, s)
         /\ classicSockets' = classicSockets \ {s} /\ link' = [link EXCEPT ![s] = "gone"]
         /\ UNCHANGED <<stops, selectedMode, air, clientGatts, serverDevices, setup, writes, opens>>
<1>1. /\ s \in classicSockets /\ EndsOnly(s, s)
      /\ classicSockets' = classicSockets \ {s} /\ link' = [link EXCEPT ![s] = "gone"]
      /\ UNCHANGED <<stops, selectedMode, air, clientGatts, serverDevices, setup, writes, opens>>
  BY ReportEnds DEF ClassicLost
<1>2. RadioOK' /\ SetupOK' /\ QueuesOK'
  BY <1>1 DEF TypeInv, RadioOK, SetupOK, QueuesOK, setup, writes, opens
<1> QED BY <1>1, <1>2, CallbackType, ThreadNames DEF writes, opens

LEMMA SessionStepType ==
  ASSUME TypeInv, NEW t \in Threads, todo[t] # <<>>, SessionStep(t, Head(todo[t]).s)
  PROVE  TypeInv'
BY PutType, ScheduleType, ConnectType, PutGattType, AdmitType, GetOrPutType, AddType, CheckActiveType,
   GetQueueType, PollType, RemoveQueueType, SetActiveType, WriteType, CompleteWriteType, CancelTimeoutType,
   SettlePendingType, FailActiveType, FailQueueType, DrainType, DropType, DropServerType, ReportType
   DEF SessionStep

LEMMA InitType == Init => TypeInv
<1> SUFFICES ASSUME Init PROVE TypeInv
  OBVIOUS
<1>1. RadioOK
  BY BoundsAssumption DEF Init, RadioOK
<1>2. SetupOK
  BY DEF Init, SetupOK
<1>3. QueuesOK
  <2>1. <<>> \in Seq(Seq(Records)) /\ Len(<<>>) = 0
    BY EmptySeq
  <2> QED BY <2>1 DEF Init, QueuesOK
<1>4. TodoInv
  <2>1. <<>> \in Seq(StepRecord) /\ Len(<<>>) = 0
    BY EmptySeq
  <2>2. todo = [t \in Threads |-> <<>>]
    BY DEF Init
  <2>3. \A t \in Threads : ShapeOf(t, todo[t]) /\ Len(todo[t]) = 0
    BY <2>1, <2>2, EmptyShape
  <2> QED BY <2>1, <2>2, <2>3 DEF TodoInv
<1> QED BY <1>1, <1>2, <1>3, <1>4 DEF TypeInv

LEMMA NextType == TypeInv /\ [Next]_vars => TypeInv'
<1> SUFFICES ASSUME TypeInv, [Next]_vars PROVE TypeInv'
  OBVIOUS
<1>1. CASE Call
  BY <1>1, OpenSessionType, CloseSessionType, SendRecordType, StopRelayType DEF Call, StopRelay
<1>2. ASSUME NEW t \in Threads, Run(t) PROVE TypeInv'
  BY <1>2, StopGattsType, StopOpensType, StopActiveType, StopQueuesType, ClearRestType, SessionStepType DEF Run, Idle
<1>3. ASSUME NEW s \in Sessions, Callback(s) PROVE TypeInv'
  <2>1. CASE OnConnected(s) \/ OnMtuChanged(s) \/ OnServicesDiscovered(s) \/ OnDescriptorWrite(s)
    BY <2>1, OnConnectedType, OnMtuChangedType, OnServicesDiscoveredType, OnDescriptorWriteType
  <2>2. CASE Accepted(s) \/ OnServerMtuChanged(s)
    BY <2>2, AcceptedType, OnServerMtuChangedType
  <2>3. CASE OnCharacteristicWrite(s)
    BY <2>3, OnCharacteristicWriteType
  <2>4. CASE OnDisconnected(s)
    BY <2>4, OnDisconnectedType
  <2>5. CASE ClassicLost(s)
    BY <2>5, ClassicLostType
  <2> QED BY <1>3, <2>1, <2>2, <2>3, <2>4, <2>5 DEF Callback
<1>4. ASSUME NEW s \in Sessions, ClassicCall(s) \/ Timeout(s) PROVE TypeInv'
  BY <1>4, ClassicConnectedType, ClassicRefusedType, TimeoutType DEF ClassicCall
<1>5. CASE NotificationStop \/ AdvertisingUnavailable
  BY <1>5, StopRelayType, AdvertisingType DEF NotificationStop
<1>6. CASE UNCHANGED vars
  <2>1. RadioOK' /\ SetupOK' /\ QueuesOK'
    BY <1>6, RestType DEF TypeInv, QueuesOK, vars, writes
  <2>2. Grows
    BY <1>6, GrowsSame DEF TypeInv, vars, writes, opens
  <2> QED BY <1>6, <2>1, <2>2, SameKeeps DEF TypeInv, vars
<1> QED BY <1>1, <1>2, <1>3, <1>4, <1>5, <1>6 DEF Next

LEMMA TypeInvGivesTypeOK == TypeInv => TypeOK
BY DEF TypeInv, RadioOK, SetupOK, QueuesOK, TodoInv, TypeOK

\* Every variable of the bridge has the shape of the state it models, whatever
\* the sessions, the records and the bounds; the steps a thread has left refer
\* to queues that exist and to sessions that were opened.
THEOREM TypeCorrect == Spec => []TypeOK
<1>1. TypeInv => TypeOK
  BY TypeInvGivesTypeOK
<1> QED BY <1>1, InitType, NextType, PTL DEF Spec

----------------------------------------------------------------------------
(* A record is in one place only.                                          *)

\* The places of w after a step are places it had before; queues may have moved up.
Fewer(w) ==
  /\ \A t \in Threads : todo'[t] # <<>> /\ Head(todo'[t]).w = w =>
       Carries(t, w) /\ Head(todo'[t]).s = Head(todo[t]).s
  /\ \A s \in Sessions : air'[s] = w => air[s] = w
  /\ \A s \in Sessions : \A q \in Nat : \E d \in {0, 1} : \A i \in Nat :
       q \in 1..Len(queues'[s]) /\ i \in 1..Len(queues'[s][q]) /\ queues'[s][q][i] = w => QueuedAt(s, q, i + d, w)
  /\ outcome[w] # "unsent" => outcome'[w] # "unsent"
  /\ w \in written' => w \in written

LEMMA FewerKeeps ==
  ASSUME NEW w \in Records, OneCopy(w), Fewer(w)
  PROVE  OneCopy(w)'
<1>1. Live(w) => Live(w)'
  BY DEF Fewer, Live
<1>2. \A t \in Threads : Carries(t, w)' => Carries(t, w) /\ Head(todo'[t]).s = Head(todo[t]).s
  BY DEF Fewer, Carries
<1>3. \A s \in Sessions : air'[s] = w => air[s] = w
  BY DEF Fewer
<1>4. \A s \in Sessions : \A q \in Nat : \E d \in {0, 1} : \A i \in Nat : QueuedAt(s, q, i, w)' => QueuedAt(s, q, i + d, w)
  BY DEF Fewer, QueuedAt
<1>5. \A s \in Sessions : \A q, i \in Nat : QueuedAt(s, q, i, w)' => \E j \in Nat : QueuedAt(s, q, j, w)
  BY <1>4
<1>6. \A t \in Threads : Carries(t, w)' =>
       /\ Head(todo'[t]).s = SessionOf[w] /\ Live(w)'
       /\ \A u \in Threads : Carries(u, w)' => u = t
       /\ \A s \in Sessions : air'[s] # w /\ \A q, i \in Nat : ~QueuedAt(s, q, i, w)'
  BY <1>1, <1>2, <1>3, <1>5 DEF OneCopy
<1>7. \A s \in Sessions : air'[s] = w =>
       /\ s = SessionOf[w] /\ Live(w)'
       /\ \A r \in Sessions : \A q, i \in Nat : ~QueuedAt(r, q, i, w)'
  BY <1>1, <1>3, <1>5 DEF OneCopy
<1>8. ASSUME NEW s \in Sessions, NEW q \in Nat, NEW i \in Nat, QueuedAt(s, q, i, w)'
      PROVE  /\ s = SessionOf[w] /\ Live(w)'
             /\ \A r, j \in Nat : QueuedAt(s, r, j, w)' => r = q /\ j = i
  <2>1. PICK d \in {0, 1} : \A k \in Nat : QueuedAt(s, q, k, w)' => QueuedAt(s, q, k + d, w)
    BY <1>4
  <2>2. QueuedAt(s, q, i + d, w) /\ i + d \in Nat
    BY <1>8, <2>1
  <2>3. s = SessionOf[w] /\ Live(w) /\ \A r, j \in Nat : QueuedAt(s, r, j, w) => r = q /\ j = i + d
    BY <2>2 DEF OneCopy
  <2>4. ASSUME NEW r \in Nat, NEW j \in Nat, QueuedAt(s, r, j, w)'
        PROVE  r = q /\ j = i
    <3>1. \E k \in Nat : QueuedAt(s, r, k, w)
      BY <1>5, <2>4
    <3>2. r = q
      BY <2>3, <3>1
    <3>3. QueuedAt(s, q, j + d, w) /\ j + d \in Nat
      BY <2>1, <2>4, <3>2
    <3> QED BY <2>3, <3>2, <3>3
  <2> QED BY <1>1, <2>3, <2>4
<1> QED BY <1>6, <1>7, <1>8 DEF OneCopy

\* A place in a queue is a place in a queue of records.
LEMMA QueuesTyped ==
  ASSUME TypeInv, NEW s \in Sessions
  PROVE  /\ queues[s] \in Seq(Seq(Records)) /\ Len(queues[s]) \in Nat
         /\ \A q \in 1..Len(queues[s]) : /\ queues[s][q] \in Seq(Records) /\ Len(queues[s][q]) \in Nat
                                         /\ \A i \in 1..Len(queues[s][q]) : queues[s][q][i] \in Records
<1>1. queues[s] \in Seq(Seq(Records)) /\ Len(queues[s]) \in Nat
  BY LenProperties DEF TypeInv, QueuesOK
<1>2. \A q \in 1..Len(queues[s]) : queues[s][q] \in Seq(Records)
  BY <1>1, ElementOfSeq
<1>3. \A q \in 1..Len(queues[s]) : Len(queues[s][q]) \in Nat
  BY <1>2, LenProperties
<1>4. \A q \in 1..Len(queues[s]) : \A i \in 1..Len(queues[s][q]) : queues[s][q][i] \in Records
  BY <1>2, ElementOfSeq
<1> QED BY <1>1, <1>2, <1>3, <1>4

\* No thread takes another record in hand.
HandsKept ==
  \A u \in Threads : todo'[u] # <<>> /\ Head(todo'[u]).w # None =>
    todo[u] # <<>> /\ Head(todo[u]).w = Head(todo'[u]).w /\ Head(todo[u]).s = Head(todo'[u]).s

\* Nor does one come to a completion.
HeadsKept ==
  /\ HandsKept
  /\ \A u \in Threads : todo'[u] # <<>> /\ Head(todo'[u]).op = "completed" =>
       todo[u] # <<>> /\ Head(todo[u]).op = "completed"

\* What the steps that take up no record do to their thread.
HeadMoves(t) ==
  \/ Pops(t) \/ Clears(t)
  \/ /\ todo'[t] # <<>> /\ (Swaps(t, Head(todo'[t])) \/ Starts(t, todo'[t]))
     /\ Head(todo'[t]).op # "completed"
     /\ \/ Head(todo'[t]).w = None
        \/ todo[t] # <<>> /\ Head(todo'[t]).w = Head(todo[t]).w /\ Head(todo'[t]).s = Head(todo[t]).s

\* What comes second on a thread has no record in hand, and is no completion.
LEMMA PoppedHead ==
  ASSUME TypeInv, NEW t \in Threads, Pops(t), todo'[t] # <<>>
  PROVE  Head(todo'[t]).w = None /\ Head(todo'[t]).op \notin SendingOps
<1>1. todo[t] \in Seq(StepRecord) /\ todo[t] # <<>> /\ todo'[t] = Tail(todo[t]) /\ ShapeOf(t, todo[t])
  BY DEF Pops, TypeInv, TodoInv
<1>2. /\ Len(todo'[t]) = Len(todo[t]) - 1 /\ Len(todo[t]) \in Nat /\ Tail(todo[t]) \in Seq(StepRecord)
      /\ \A i \in 1..Len(todo'[t]) : i + 1 \in 1..Len(todo[t]) /\ todo'[t][i] = todo[t][i + 1]
  BY <1>1, TailElements
<1>3. 1 \in 1..Len(todo'[t]) /\ Head(todo'[t]) = todo'[t][1]
  BY <1>1, <1>2, TailElements
<1>4. Head(todo'[t]) = todo[t][2] /\ 1 \in 1..Len(todo[t]) /\ 2 \in 1..Len(todo[t])
  BY <1>2, <1>3
<1>5. Precedes(todo[t][1], todo[t][2]) /\ StepShape(t, todo[t][2])
  BY <1>1, <1>4 DEF ShapeOf
<1> QED BY <1>4, <1>5 DEF Precedes, StepShape, SendingOps

LEMMA HeadsMoved ==
  ASSUME TypeInv, NEW t \in Threads, HeadMoves(t)
  PROVE  HeadsKept /\ \A u \in Threads : u # t => todo'[u] = todo[u]
<1>1. \A u \in Threads : u # t => todo'[u] = todo[u]
  BY DEF HeadMoves, Pops, Clears, Swaps, Starts, TypeInv, TodoInv
<1>2. CASE Pops(t)
  BY <1>1, <1>2, PoppedHead DEF HeadsKept, HandsKept, SendingOps
<1>3. CASE Clears(t)
  BY <1>1, <1>3 DEF Clears, TypeInv, TodoInv, HeadsKept, HandsKept
<1>4. CASE /\ Head(todo'[t]).op # "completed"
           /\ \/ Head(todo'[t]).w = None
              \/ todo[t] # <<>> /\ Head(todo'[t]).w = Head(todo[t]).w /\ Head(todo'[t]).s = Head(todo[t]).s
  BY <1>1, <1>4 DEF HeadsKept, HandsKept
<1> QED BY <1>1, <1>2, <1>3, <1>4 DEF HeadMoves

\* A thread that starts to close a session takes up no record.
LEMMA EndingHeads ==
  ASSUME TypeInv, NEW t \in Threads, NEW s, EndsOnly(t, s)
  PROVE  HeadsKept /\ \A u \in Threads : u # t => todo'[u] = todo[u]
<1>1. PICK T \in Seq(StepRecord) : Ending(t, s, T)
  BY DEF EndsOnly
<1>2. todo'[t] = T /\ \A u \in Threads : u # t => todo'[u] = todo[u]
  BY <1>1 DEF Ending, Starts, TypeInv, TodoInv
<1>3. T # <<>> => Head(T).w = None /\ Head(T).op \in ClosingOps
  <2>1. T # <<>> => Head(T) = T[1] /\ 1 \in 1..Len(T)
    BY TailElements
  <2> QED BY <1>1, <2>1 DEF Ending
<1> QED BY <1>2, <1>3 DEF HeadsKept, HandsKept, ClosingOps, SettleOps

\* Less is in the air, and in the queues.
LessInAir == \A s \in Sessions : air'[s] \in {air[s], None}

LessQueued ==
  \A s \in Sessions : \A q \in 1..Len(queues'[s]) :
    queues'[s][q] = <<>> \/ (q \in 1..Len(queues[s]) /\ queues'[s][q] = queues[s][q])

\* Sends fail, and what becomes active on a session is a record of it.
SendsFailed ==
  /\ \A w \in Records : outcome'[w] = outcome[w] \/ (outcome[w] = "waiting" /\ outcome'[w] = "rejected")
  /\ \A s \in Sessions : activeWrites'[s] = None \/ activeWrites'[s] = activeWrites[s] \/ SessionOf[activeWrites'[s]] = s

Quiet == HeadsKept /\ LessInAir /\ LessQueued /\ SendsFailed /\ UNCHANGED written

LEMMA QuietCopies ==
  ASSUME HandsKept, LessInAir, LessQueued, NEW w \in Records, OneCopy(w),
         outcome[w] # "unsent" => outcome'[w] # "unsent", w \in written' => w \in written
  PROVE  OneCopy(w)'
<1>1. \A t \in Threads : todo'[t] # <<>> /\ Head(todo'[t]).w = w =>
        Carries(t, w) /\ Head(todo'[t]).s = Head(todo[t]).s
  BY RecordsAssumption DEF HandsKept, Carries
<1>2. \A s \in Sessions : air'[s] = w => air[s] = w
  BY RecordsAssumption DEF LessInAir
<1>3. \A s \in Sessions : \A q \in Nat : \E d \in {0, 1} : \A i \in Nat :
        q \in 1..Len(queues'[s]) /\ i \in 1..Len(queues'[s][q]) /\ queues'[s][q][i] = w => QueuedAt(s, q, i + d, w)
  <2> TAKE s \in Sessions
  <2> TAKE q \in Nat
  <2> WITNESS 0 \in {0, 1}
  <2> TAKE i \in Nat
  <2> HAVE q \in 1..Len(queues'[s]) /\ i \in 1..Len(queues'[s][q]) /\ queues'[s][q][i] = w
  <2>1. queues'[s][q] # <<>>
    BY EmptySeq
  <2> QED BY <2>1 DEF LessQueued, QueuedAt
<1> QED BY <1>1, <1>2, <1>3, FewerKeeps DEF Fewer

\* The records sent, and those of them resolved and written.
LEMMA FiniteCounts ==
  ASSUME TypeInv, ConfirmInv, NEW s \in Sessions
  PROVE  /\ Resolved(s) \subseteq Sent /\ IsFiniteSet(Resolved(s)) /\ Cardinality(Resolved(s)) \in Nat
         /\ IsFiniteSet(Of(s, written)) /\ Cardinality(Of(s, written)) \in Nat
         /\ Completions(s) \in {0, 1}
<1>1. Resolved(s) \subseteq Sent /\ Of(s, written) \subseteq Sent
  BY DEF Resolved, Sent, Of, ConfirmInv
<1> QED BY <1>1, FS_Subset, FS_CardinalityType DEF ConfirmInv, Completions

LEMMA QuietConfirm ==
  ASSUME TypeInv, TypeInv', ConfirmInv, Quiet
  PROVE  ConfirmInv'
<1>1. Sent' = Sent
  BY DEF Quiet, SendsFailed, Sent
<1>2. IsFiniteSet(Sent') /\ written' \subseteq Sent'
  BY <1>1 DEF ConfirmInv, Quiet
<1>3. \A s \in Sessions : activeWrites'[s] # None => SessionOf[activeWrites'[s]] = s
  BY DEF ConfirmInv, Quiet, SendsFailed
<1>4. ASSUME NEW s \in Sessions
      PROVE  Cardinality(Resolved(s)') + Completions(s)' <= Cardinality(Of(s, written'))
  <2>1. Resolved(s)' = Resolved(s) /\ Of(s, written') = Of(s, written)
    BY DEF Resolved, Of, Quiet, SendsFailed
  <2>2. Completions(s)' <= Completions(s)
    BY ThreadNames DEF Completions, Quiet, HeadsKept
  <2>3. Completions(s) \in {0, 1} /\ Completions(s)' \in {0, 1} /\ Cardinality(Resolved(s)) \in Nat
        /\ Cardinality(Of(s, written)) \in Nat
    BY FiniteCounts DEF Completions
  <2>4. Cardinality(Resolved(s)) + Completions(s) <= Cardinality(Of(s, written))
    BY DEF ConfirmInv
  <2> HIDE DEF Completions
  <2> QED BY <2>1, <2>2, <2>3, <2>4
<1> QED BY <1>2, <1>3, <1>4 DEF ConfirmInv

\* A step that takes up no record and confirms none.
LEMMA QuietWrites ==
  ASSUME TypeInv, TypeInv', WritesInv, Quiet
  PROVE  WritesInv'
<1>1. \A w \in Records : OneCopy(w)'
  BY QuietCopies DEF WritesInv, Quiet, HeadsKept, SendsFailed
<1>2. ConfirmInv'
  BY QuietConfirm DEF WritesInv
<1> QED BY <1>1, <1>2 DEF WritesInv

\* The steps that leave the sends alone, but for what may be in the air.
LEMMA SendsLeft ==
  ASSUME TypeInv, TypeInv', WritesInv, HeadsKept, LessInAir, UNCHANGED writes
  PROVE  WritesInv'
<1>1. SendsFailed /\ LessQueued /\ UNCHANGED written
  BY DEF SendsFailed, LessQueued, writes
<1> QED BY <1>1, QuietWrites DEF Quiet

LEMMA SameHeads == ASSUME UNCHANGED todo PROVE HeadsKept
BY DEF HeadsKept, HandsKept

LEMMA SetUpWrites ==
  ASSUME TypeInv, WritesInv, NEW t \in Threads, todo[t] # <<>>, NEW s, s = Head(todo[t]).s,
         \/ Put(t, s) \/ Schedule(t, s) \/ Connect(t, s) \/ PutGatt(t, s) \/ CancelTimeout(t, s)
         \/ Drop(t, s) \/ DropServer(t, s) \/ Report(t, s) \/ SettlePending(t, s)
         \/ StopGatts(t) \/ StopOpens(t) \/ ClearRest(t)
  PROVE  WritesInv'
<1>1. TypeInv' /\ HeadMoves(t)
  BY PutType, ScheduleType, ConnectType, PutGattType, CancelTimeoutType, DropType, DropServerType, ReportType,
     SettlePendingType, StopGattsType, StopOpensType, ClearRestType DEF HeadMoves
<1>2. UNCHANGED writes
  BY DEF Put, Schedule, Connect, PutGatt, CancelTimeout, Drop, DropServer, Report, SettlePending,
         StopGatts, StopOpens, ClearRest
<1>3. LessInAir
  BY DEF Put, Schedule, Connect, PutGatt, CancelTimeout, Drop, DropServer, Report, SettlePending,
         StopGatts, StopOpens, ClearRest, LessInAir, Closed, radio
<1> QED BY <1>1, <1>2, <1>3, HeadsMoved, SendsLeft

LEMMA LookWrites ==
  ASSUME TypeInv, WritesInv, NEW t \in Threads, todo[t] # <<>>, NEW s, s = Head(todo[t]).s,
         CheckActive(t, s) \/ GetQueue(t, s)
  PROVE  WritesInv'
<1>1. TypeInv' /\ HeadMoves(t) /\ UNCHANGED <<radio, writes>>
  BY CheckActiveType, GetQueueType DEF HeadMoves
<1>2. LessInAir
  BY <1>1 DEF LessInAir, radio
<1> QED BY <1>1, <1>2, HeadsMoved, SendsLeft

LEMMA QueueTableWrites ==
  ASSUME TypeInv, WritesInv, NEW t \in Threads, todo[t] # <<>>, NEW s, s = Head(todo[t]).s,
         RemoveQueue(t, s) \/ FailQueue(t, s) \/ SetActive(t, s)
  PROVE  WritesInv'
<1>1. TypeInv' /\ HeadMoves(t) /\ UNCHANGED <<air, queues, outcome, written>>
  <2>1. CASE RemoveQueue(t, s)
    BY <2>1, RemoveQueueType DEF HeadMoves, RemoveQueue, radio
  <2>2. CASE FailQueue(t, s)
    BY <2>2, FailQueueType DEF HeadMoves, radio
  <2>3. CASE SetActive(t, s)
    BY <2>3, SetActiveType DEF HeadMoves
  <2> QED BY <2>1, <2>2, <2>3
<1>2. \A r \in Sessions : activeWrites'[r] = None \/ activeWrites'[r] = activeWrites[r] \/ SessionOf[activeWrites'[r]] = r
  <2>1. CASE RemoveQueue(t, s)
    BY <2>1 DEF RemoveQueue
  <2>2. CASE FailQueue(t, s)
    BY <2>2, FailQueueType
  <2>3. CASE SetActive(t, s)
    <3>1. activeWrites' = [activeWrites EXCEPT ![s] = Head(todo[t]).w] /\ Head(todo[t]).w \in Records
      BY <2>3, SetActiveType
    <3>2. SessionOf[Head(todo[t]).w] = s
      BY <3>1 DEF WritesInv, OneCopy, Carries
    <3> QED BY <3>1, <3>2 DEF TypeInv, QueuesOK
  <2> QED BY <2>1, <2>2, <2>3
<1>3. SendsFailed /\ LessInAir /\ LessQueued
  BY <1>1, <1>2 DEF SendsFailed, LessInAir, LessQueued
<1> QED BY <1>1, <1>3, HeadsMoved, QuietWrites DEF Quiet

\* The sends that a step fails.
LEMMA FailedSends ==
  ASSUME NEW W, OutcomeMoves(W, "rejected"),
         \A s \in Sessions : activeWrites'[s] \in {activeWrites[s], None}
  PROVE  SendsFailed
BY DEF OutcomeMoves, SendsFailed

LEMMA FailWrites ==
  ASSUME TypeInv, WritesInv, NEW t \in Threads, todo[t] # <<>>, NEW s, s = Head(todo[t]).s,
         FailActive(t, s) \/ StopActive(t)
  PROVE  WritesInv'
<1>1. TypeInv' /\ HeadMoves(t) /\ UNCHANGED <<air, queues, written>>
  BY FailActiveType, StopActiveType DEF HeadMoves, radio
<1>2. \A r \in Sessions : activeWrites'[r] \in {activeWrites[r], None}
  BY FailActiveType, StopActiveType DEF TypeInv, QueuesOK
<1>3. SendsFailed
  <2>1. (\E W : OutcomeMoves(W, "rejected")) \/ UNCHANGED outcome
    BY FailActiveType, StopActiveType
  <2> QED BY <1>2, <2>1, FailedSends DEF SendsFailed
<1>4. LessInAir /\ LessQueued
  BY <1>1 DEF LessInAir, LessQueued
<1> QED BY <1>1, <1>3, <1>4, HeadsMoved, QuietWrites DEF Quiet

LEMMA DrainWrites ==
  ASSUME TypeInv, WritesInv, NEW t \in Threads, todo[t] # <<>>, NEW s, s = Head(todo[t]).s,
         Drain(t, s) \/ StopQueues(t)
  PROVE  WritesInv'
<1>1. TypeInv' /\ HeadMoves(t) /\ UNCHANGED <<air, activeWrites, written>>
  BY DrainType, StopQueuesType DEF HeadMoves, radio
<1>2. SendsFailed
  <2>1. (\E W : OutcomeMoves(W, "rejected")) \/ UNCHANGED outcome
    BY DrainType, StopQueuesType
  <2> QED BY <1>1, <2>1, FailedSends DEF SendsFailed
<1>3. LessQueued
  <2>1. CASE Drain(t, s)
    <3> DEFINE q == Head(todo[t]).q
    <3>1. s \in Sessions /\ q \in 1..Len(queues[s]) /\ queues' = [queues EXCEPT ![s][q] = <<>>]
      BY <2>1, DrainType
    <3> HIDE DEF q
    <3>2. queues' = [queues EXCEPT ![s] = [queues[s] EXCEPT ![q] = <<>>]]
      BY <3>1
    <3>3. \A r \in Sessions : /\ Len(queues[r]) \in Nat /\ DOMAIN queues[r] = 1..Len(queues[r])
                              /\ Len(queues'[r]) \in Nat /\ DOMAIN queues'[r] = 1..Len(queues'[r])
      BY <1>1, LenProperties DEF TypeInv, QueuesOK
    <3>4. queues \in [Sessions -> Seq(Seq(Records))]
      BY DEF TypeInv, QueuesOK
    <3> QED BY <3>1, <3>2, <3>3, <3>4 DEF LessQueued
  <2>2. CASE StopQueues(t)
    <3>1. \/ UNCHANGED queues
          \/ /\ \A r \in Sessions : Len(queues'[r]) = Len(queues[r])
             /\ \A r \in Sessions : \A q \in 1..Len(queues[r]) : queues'[r][q] \in {queues[r][q], <<>>}
      BY <2>2, StopQueuesType
    <3> QED BY <3>1 DEF LessQueued
  <2> QED BY <2>1, <2>2
<1>4. LessInAir
  BY <1>1 DEF LessInAir
<1> QED BY <1>1, <1>2, <1>3, <1>4, HeadsMoved, QuietWrites DEF Quiet

LEMMA GetOrPutWrites ==
  ASSUME TypeInv, WritesInv, NEW t \in Threads, todo[t] # <<>>, GetOrPut(t, Head(todo[t]).s)
  PROVE  WritesInv'
<1> DEFINE s == Head(todo[t]).s
<1>1. /\ TypeInv' /\ s \in Sessions /\ UNCHANGED <<air, activeWrites, outcome, written>>
      /\ queues' = queues \/ queues' = [queues EXCEPT ![s] = Append(@, <<>>)]
  BY GetOrPutType
<1>2. HeadMoves(t)
  BY GetOrPutType DEF HeadMoves
<1> HIDE DEF s
<1>3. LessQueued
  <2>1. CASE queues' = queues
    BY <2>1 DEF LessQueued
  <2>2. CASE queues' = [queues EXCEPT ![s] = Append(@, <<>>)]
    <3>1. queues[s] \in Seq(Seq(Records)) /\ Len(queues[s]) \in Nat /\ <<>> \in Seq(Records)
      BY <1>1, QueuesTyped, EmptySeq
    <3>2. /\ Len(Append(queues[s], <<>>)) = Len(queues[s]) + 1
          /\ \A q \in 1..Len(queues[s]) : Append(queues[s], <<>>)[q] = queues[s][q]
          /\ Append(queues[s], <<>>)[Len(queues[s]) + 1] = <<>>
      BY <3>1, AppendProperties
    <3>3. queues \in [Sessions -> Seq(Seq(Records))]
      BY DEF TypeInv, QueuesOK
    <3>4. queues'[s] = Append(queues[s], <<>>) /\ \A r \in Sessions : r # s => queues'[r] = queues[r]
      BY <1>1, <2>2, <3>3
    <3>5. \A q \in 1..Len(queues'[s]) : queues'[s][q] = <<>> \/ (q \in 1..Len(queues[s]) /\ queues'[s][q] = queues[s][q])
      BY <3>1, <3>2, <3>4
    <3> QED BY <3>4, <3>5 DEF LessQueued
  <2> QED BY <1>1, <2>1, <2>2
<1>4. SendsFailed /\ LessInAir
  BY <1>1 DEF SendsFailed, LessInAir
<1> QED BY <1>1, <1>2, <1>3, <1>4, HeadsMoved, QuietWrites DEF Quiet

----------------------------------------------------------------------------
(* The steps that move a record on.                                        *)

\* The record is nowhere.
Nowhere(w) ==
  /\ \A t \in Threads : ~Carries(t, w)
  /\ \A s \in Sessions : air[s] # w /\ \A q, i \in Nat : ~QueuedAt(s, q, i, w)

LEMMA NowhereCopy == ASSUME NEW w \in Records, Nowhere(w)' PROVE OneCopy(w)'
BY DEF Nowhere, OneCopy

\* A set with one element more, at most.
LEMMA OneMore ==
  ASSUME NEW A, IsFiniteSet(A), NEW v, NEW B, B \subseteq A \cup {v}
  PROVE  /\ Cardinality(A) \in Nat /\ Cardinality(B) \in Nat /\ Cardinality(B) <= Cardinality(A) + 1
         /\ v \notin A => Cardinality(A \cup {v}) = Cardinality(A) + 1
<1>1. /\ IsFiniteSet(A \cup {v})
      /\ Cardinality(A \cup {v}) = IF v \in A THEN Cardinality(A) ELSE Cardinality(A) + 1
  BY FS_AddElement
<1>2. IsFiniteSet(B) /\ Cardinality(B) <= Cardinality(A \cup {v})
  BY <1>1, FS_Subset
<1>3. Cardinality(A) \in Nat /\ Cardinality(B) \in Nat /\ Cardinality(A \cup {v}) \in Nat
  BY <1>1, <1>2, FS_CardinalityType
<1> QED BY <1>1, <1>2, <1>3

LEMMA SendRecordWrites ==
  ASSUME TypeInv, WritesInv, NEW v \in Records, SendRecord(v)
  PROVE  WritesInv'
<1>1. /\ TypeInv' /\ outcome[v] = "unsent" /\ outcome' = [outcome EXCEPT ![v] = "waiting"]
      /\ UNCHANGED <<radio, gatts, setup, writeQueues, queues, activeWrites, written, opens>>
  BY SendRecordType
<1>2. PICK T \in Seq(StepRecord) : /\ Starts("module", T) /\ Len(T) = 1 /\ T[1].op = "admit"
                                   /\ T[1].s = SessionOf[v] /\ T[1].w = v
  BY SendRecordType
<1>3. T # <<>> /\ Head(T) = T[1]
  <2>1. Len(T) = 1 /\ Len(<<>>) = 0 /\ <<>> \in Seq(StepRecord)
    BY <1>2, EmptySeq
  <2>2. T # <<>>
    BY <2>1
  <2> QED BY <2>2, TailElements
<1>4. todo'["module"] = T /\ \A u \in Threads : u # "module" => todo'[u] = todo[u]
  BY <1>2, ThreadNames DEF Starts, TypeInv, TodoInv
<1>5. air' = air
  BY <1>1 DEF radio
<1>6. \A w \in Records : w # v => outcome'[w] = outcome[w]
  BY <1>1 DEF TypeInv, QueuesOK
<1>7. outcome'[v] = "waiting"
  BY <1>1 DEF TypeInv, QueuesOK
<1>8. ASSUME NEW w \in Records, w # v PROVE OneCopy(w)'
  <2>1. OneCopy(w)
    BY DEF WritesInv
  <2>2. Fewer(w)
    <3>1. \A t \in Threads : todo'[t] # <<>> /\ Head(todo'[t]).w = w =>
            Carries(t, w) /\ Head(todo'[t]).s = Head(todo[t]).s
      BY <1>2, <1>3, <1>4, <1>8 DEF Carries
    <3>2. \A s \in Sessions : \A q \in Nat : \E d \in {0, 1} : \A i \in Nat :
            q \in 1..Len(queues'[s]) /\ i \in 1..Len(queues'[s][q]) /\ queues'[s][q][i] = w => QueuedAt(s, q, i + d, w)
      <4> TAKE s \in Sessions
      <4> TAKE q \in Nat
      <4> WITNESS 0 \in {0, 1}
      <4> QED BY <1>1 DEF QueuedAt
    <3> QED BY <1>1, <1>5, <1>6, <1>8, <3>1, <3>2 DEF Fewer
  <2> QED BY <2>1, <2>2, FewerKeeps
<1>9. OneCopy(v)'
  <2>1. ~Live(v) /\ OneCopy(v)
    BY <1>1 DEF Live, WritesInv
  <2>2. /\ \A t \in Threads : ~Carries(t, v)
        /\ \A s \in Sessions : air[s] # v /\ \A q, i \in Nat : ~QueuedAt(s, q, i, v)
    BY <2>1 DEF OneCopy
  <2>3. Live(v)'
    <3>1. v \notin written
      BY <1>1 DEF WritesInv, ConfirmInv, Sent
    <3> QED BY <1>1, <1>7, <3>1 DEF Live
  <2>4. \A t \in Threads : Carries(t, v)' => t = "module"
    BY <1>4, <2>2 DEF Carries
  <2>5. \A s \in Sessions : air'[s] # v /\ \A q, i \in Nat : ~QueuedAt(s, q, i, v)'
    BY <1>1, <1>5, <2>2 DEF QueuedAt
  <2>6. Head(todo'["module"]).s = SessionOf[v]
    BY <1>2, <1>3, <1>4
  <2> QED BY <2>3, <2>4, <2>5, <2>6 DEF OneCopy
<1>10. ConfirmInv'
  <2>1. Sent' \subseteq Sent \cup {v} /\ Sent \subseteq Sent'
    BY <1>1, <1>6, <1>7 DEF Sent
  <2>2. IsFiniteSet(Sent')
    BY <2>1, FS_AddElement, FS_Subset DEF WritesInv, ConfirmInv
  <2>3. ASSUME NEW s \in Sessions
        PROVE  Cardinality(Resolved(s)') + Completions(s)' <= Cardinality(Of(s, written'))
    <3>1. Resolved(s)' = Resolved(s)
      BY <1>1, <1>6, <1>7 DEF Resolved, Of
    <3>2. Of(s, written') = Of(s, written) /\ Completions(s)' = Completions(s)
      BY <1>1, <1>4, ThreadNames DEF Completions
    <3> QED BY <3>1, <3>2 DEF WritesInv, ConfirmInv
  <2> QED BY <1>1, <2>1, <2>2, <2>3 DEF WritesInv, ConfirmInv
<1> QED BY <1>8, <1>9, <1>10 DEF WritesInv

LEMMA AdmitWrites ==
  ASSUME TypeInv, WritesInv, NEW t \in Threads, todo[t] # <<>>, Admit(t, Head(todo[t]).s)
  PROVE  WritesInv'
<1>0. PICK s \in Sessions, v \in Records : s = Head(todo[t]).s /\ v = Head(todo[t]).w
  BY AdmitType
<1>1. TypeInv' /\ s \in Sessions /\ v \in Records /\ UNCHANGED <<air, queues, activeWrites, opened>>
  BY <1>0, AdmitType
<1>2. HeadMoves(t)
  BY AdmitType DEF HeadMoves
<1>3. HeadsKept /\ LessInAir /\ LessQueued /\ \A u \in Threads : u # t => todo'[u] = todo[u]
  BY <1>1, <1>2, HeadsMoved DEF LessInAir, LessQueued
<1>4. CASE UNCHANGED written /\ (UNCHANGED outcome \/ OutcomeMoves({v}, "rejected"))
  <2>1. SendsFailed
    BY <1>1, <1>4, FailedSends DEF SendsFailed
  <2> QED BY <1>1, <1>3, <1>4, <2>1, QuietWrites DEF Quiet
<1>5. CASE /\ written' = written \cup {v} /\ OutcomeMoves({v}, "resolved")
           /\ Pops(t) \/ Clears(t)
  <2>1. Carries(t, v) /\ OneCopy(v)
    BY <1>0 DEF Carries, WritesInv
  <2>2. s = SessionOf[v] /\ v \notin written /\ v \in Sent
    BY <1>0, <2>1 DEF OneCopy, Live, Sent
  <2>3. \A w \in Records : w # v => outcome'[w] = outcome[w]
    BY <1>5 DEF OutcomeMoves
  <2>4. \A w \in Records : outcome[w] # "unsent" => outcome'[w] # "unsent"
    BY <1>5 DEF OutcomeMoves
  <2>5. ASSUME NEW w \in Records, w # v PROVE OneCopy(w)'
    BY <1>3, <1>5, <2>4, <2>5, QuietCopies DEF WritesInv, HeadsKept
  <2>6. OneCopy(v)'
    <3>1. todo'[t] # <<>> => Head(todo'[t]).w = None
      BY <1>5, PoppedHead DEF Clears, TypeInv, TodoInv
    <3>2. \A u \in Threads : ~Carries(u, v)'
      BY <1>1, <1>3, <2>1, <3>1, RecordsAssumption DEF Carries, OneCopy
    <3>3. \A r \in Sessions : air'[r] # v /\ \A q, i \in Nat : ~QueuedAt(r, q, i, v)'
      BY <1>1, <2>1 DEF OneCopy, QueuedAt
    <3> QED BY <1>1, <3>2, <3>3, NowhereCopy DEF Nowhere
  <2>7. IsFiniteSet(Sent') /\ written' \subseteq Sent'
    <3>1. Sent' = Sent
      BY <1>5 DEF Sent, OutcomeMoves
    <3> QED BY <1>5, <2>2, <3>1 DEF WritesInv, ConfirmInv
  <2>8. ASSUME NEW r \in Sessions
        PROVE  Cardinality(Resolved(r)') + Completions(r)' <= Cardinality(Of(r, written'))
    <3>1. Completions(r)' <= Completions(r)
      BY <1>3, ThreadNames DEF Completions, HeadsKept
    <3>2. /\ IsFiniteSet(Resolved(r)) /\ Cardinality(Resolved(r)) \in Nat
          /\ IsFiniteSet(Of(r, written)) /\ Cardinality(Of(r, written)) \in Nat
          /\ Completions(r) \in {0, 1} /\ Completions(r)' \in {0, 1}
          /\ Cardinality(Resolved(r)) + Completions(r) <= Cardinality(Of(r, written))
      BY FiniteCounts DEF WritesInv, ConfirmInv, Completions
    <3>3. CASE r = s
      <4>1. Resolved(r)' \subseteq Resolved(r) \cup {v}
        BY <2>3 DEF Resolved, Of
      <4>2. Of(r, written') = Of(r, written) \cup {v} /\ v \notin Of(r, written)
        BY <1>5, <2>2, <3>3 DEF Of
      <4>3. Cardinality(Resolved(r)') \in Nat /\ Cardinality(Resolved(r)') <= Cardinality(Resolved(r)) + 1
        BY <3>2, <4>1, OneMore
      <4>4. Cardinality(Of(r, written')) = Cardinality(Of(r, written)) + 1
        BY <3>2, <4>2, OneMore
      <4> HIDE DEF Completions, Resolved
      <4> QED BY <3>1, <3>2, <4>3, <4>4
    <3>4. CASE r # s
      <4>1. Resolved(r)' = Resolved(r) /\ Of(r, written') = Of(r, written)
        BY <1>1, <1>5, <2>2, <2>3, <3>4 DEF Resolved, Of
      <4> HIDE DEF Completions, Resolved
      <4> QED BY <3>1, <3>2, <4>1
    <3> QED BY <3>3, <3>4
  <2>9. ConfirmInv'
    BY <1>1, <2>7, <2>8 DEF WritesInv, ConfirmInv
  <2> QED BY <2>5, <2>6, <2>9 DEF WritesInv
<1> QED BY <1>0, <1>4, <1>5, AdmitType

LEMMA CompleteWriteWrites ==
  ASSUME TypeInv, WritesInv, NEW t \in Threads, todo[t] # <<>>, CompleteWrite(t, Head(todo[t]).s)
  PROVE  WritesInv'
<1>0. PICK s \in Sessions, v \in Records \cup {None} : s = Head(todo[t]).s /\ v = activeWrites[s]
  <2>1. Head(todo[t]).s \in Sessions
    BY CompleteWriteType
  <2> QED BY <2>1 DEF TypeInv, QueuesOK
<1>1. TypeInv' /\ s \in Sessions /\ UNCHANGED <<air, queues, opened, written>>
  BY <1>0, CompleteWriteType
<1>2. HeadMoves(t)
  BY CompleteWriteType DEF HeadMoves
<1>3. HeadsKept /\ LessInAir /\ LessQueued /\ \A u \in Threads : u # t => todo'[u] = todo[u]
  BY <1>1, <1>2, HeadsMoved DEF LessInAir, LessQueued
<1>4. CASE UNCHANGED <<activeWrites, outcome>>
  BY <1>1, <1>3, <1>4, QuietWrites DEF Quiet, SendsFailed
<1>5. CASE activeWrites' = [activeWrites EXCEPT ![s] = None] /\ OutcomeMoves({v}, "rejected")
  <2>1. \A r \in Sessions : activeWrites'[r] \in {activeWrites[r], None}
    BY <1>5 DEF TypeInv, QueuesOK
  <2>2. SendsFailed
    BY <1>5, <2>1, FailedSends
  <2> QED BY <1>1, <1>3, <2>2, QuietWrites DEF Quiet
<1>6. CASE /\ v # None /\ activeWrites' = [activeWrites EXCEPT ![s] = None] /\ OutcomeMoves({v}, "resolved")
           /\ Head(todo[t]).op = "completed"
  <2>1. t = s
    BY <1>0, <1>6, HeadFacts DEF TypeInv, StepShape
  <2>2. Completions(s) = 1 /\ Completions(s)' = 0
    <3>1. Completions(s) = 1
      BY <1>6, <2>1 DEF Completions
    <3>2. todo'[t] # <<>> => Head(todo'[t]).op # "completed"
      <4>1. CASE Pops(t)
        BY <4>1, PoppedHead DEF SendingOps
      <4>2. CASE Clears(t)
        BY <4>2 DEF Clears, TypeInv, TodoInv
      <4>3. CASE todo'[t] # <<>> /\ Head(todo'[t]).op = "checkActive"
        BY <4>3
      <4> QED BY <1>0, <1>6, <4>1, <4>2, <4>3, CompleteWriteType
    <3> QED BY <2>1, <3>1, <3>2 DEF Completions
  <2>3. SessionOf[v] = s
    BY <1>0, <1>6 DEF WritesInv, ConfirmInv
  <2>4. \A w \in Records : w # v => outcome'[w] = outcome[w]
    BY <1>6 DEF OutcomeMoves
  <2>5. \A w \in Records : outcome[w] # "unsent" <=> outcome'[w] # "unsent"
    BY <1>6 DEF OutcomeMoves
  <2>6. \A w \in Records : OneCopy(w)'
    BY <1>1, <1>3, <2>5, QuietCopies DEF WritesInv, HeadsKept
  <2>7. IsFiniteSet(Sent') /\ written' \subseteq Sent'
    <3>1. Sent' = Sent
      BY <2>5 DEF Sent
    <3> QED BY <1>1, <3>1 DEF WritesInv, ConfirmInv
  <2>8. \A r \in Sessions : activeWrites'[r] # None => SessionOf[activeWrites'[r]] = r
    <3>1. \A r \in Sessions : activeWrites'[r] \in {activeWrites[r], None}
      BY <1>6 DEF TypeInv, QueuesOK
    <3> QED BY <3>1 DEF WritesInv, ConfirmInv
  <2>9. ASSUME NEW r \in Sessions
        PROVE  Cardinality(Resolved(r)') + Completions(r)' <= Cardinality(Of(r, written'))
    <3>1. Of(r, written') = Of(r, written)
      BY <1>1
    <3>2. /\ IsFiniteSet(Resolved(r)) /\ Cardinality(Resolved(r)) \in Nat
          /\ Cardinality(Of(r, written)) \in Nat
          /\ Cardinality(Resolved(r)) + Completions(r) <= Cardinality(Of(r, written))
      BY FiniteCounts DEF WritesInv, ConfirmInv
    <3>3. CASE r = s
      <4>1. Resolved(r)' \subseteq Resolved(r) \cup {v}
        BY <2>4 DEF Resolved, Of
      <4>2. Cardinality(Resolved(r)') \in Nat /\ Cardinality(Resolved(r)') <= Cardinality(Resolved(r)) + 1
        BY <3>2, <4>1, OneMore
      <4> HIDE DEF Completions, Resolved
      <4> QED BY <2>2, <3>1, <3>2, <3>3, <4>2
    <3>4. CASE r # s
      <4>1. Resolved(r)' = Resolved(r)
        BY <1>1, <2>3, <2>4, <3>4 DEF Resolved, Of
      <4>2. Completions(r)' = Completions(r)
        BY <1>3, <2>1, <3>4, ThreadNames DEF Completions
      <4> QED BY <3>1, <3>2, <4>1, <4>2
    <3> QED BY <3>3, <3>4
  <2>10. ConfirmInv'
    BY <2>7, <2>8, <2>9 DEF ConfirmInv
  <2> QED BY <2>6, <2>10 DEF WritesInv
<1> QED BY <1>0, <1>4, <1>5, <1>6, CompleteWriteType

LEMMA OnCharacteristicWriteWrites ==
  ASSUME TypeInv, WritesInv, NEW s \in Sessions, OnCharacteristicWrite(s)
  PROVE  WritesInv'
<1>0. PICK v \in Records \cup {None} : v = air[s]
  BY DEF TypeInv, RadioOK
<1>1. /\ TypeInv' /\ v # None /\ air' = [air EXCEPT ![s] = None]
      /\ UNCHANGED <<queues, activeWrites, outcome, opened>>
  BY <1>0, OnCharacteristicWriteType DEF opens
<1>2. PICK T \in Seq(StepRecord) :
              /\ Starts(s, T) /\ Len(T) = 1 /\ T[1].s = s /\ T[1].w = None
              /\ \/ T[1].op = "completed" /\ written' = written \cup {v}
                 \/ T[1].op = "failed" /\ UNCHANGED written
  BY <1>0, OnCharacteristicWriteType
<1>3. T # <<>> /\ Head(T) = T[1]
  <2>1. Len(T) = 1 /\ Len(<<>>) = 0 /\ <<>> \in Seq(StepRecord)
    BY <1>2, EmptySeq
  <2>2. T # <<>>
    BY <2>1
  <2> QED BY <2>2, TailElements
<1>4. /\ todo[s] = <<>> /\ todo'[s] = T /\ \A u \in Threads : u # s => todo'[u] = todo[u]
      /\ s \in Threads
  BY <1>2, ThreadNames DEF Starts, TypeInv, TodoInv
<1>5. HandsKept
  BY <1>2, <1>3, <1>4 DEF HandsKept
<1>6. LessInAir /\ LessQueued
  BY <1>1 DEF LessInAir, LessQueued, TypeInv, RadioOK
<1>7. v \in Records /\ OneCopy(v) /\ Live(v) /\ SessionOf[v] = s
  BY <1>0, <1>1 DEF TypeInv, RadioOK, WritesInv, OneCopy
<1>8. CASE T[1].op = "failed" /\ UNCHANGED written
  <2>1. HeadsKept
    BY <1>3, <1>4, <1>5, <1>8 DEF HeadsKept
  <2> QED BY <1>1, <1>6, <1>8, <2>1, QuietWrites DEF Quiet, SendsFailed
<1>9. CASE T[1].op = "completed" /\ written' = written \cup {v}
  <2>1. ASSUME NEW w \in Records, w # v PROVE OneCopy(w)'
    BY <1>1, <1>5, <1>6, <1>9, <2>1, QuietCopies DEF WritesInv
  <2>2. OneCopy(v)'
    <3>1. \A u \in Threads : ~Carries(u, v)
      BY <1>0, <1>7 DEF OneCopy
    <3>2. \A u \in Threads : ~Carries(u, v)'
      BY <1>2, <1>3, <1>4, <1>7, <3>1, RecordsAssumption DEF Carries
    <3>3. \A r \in Sessions : \A q, i \in Nat : ~QueuedAt(r, q, i, v)'
      BY <1>0, <1>1, <1>7 DEF OneCopy, QueuedAt
    <3>4. \A r \in Sessions : air'[r] # v
      <4> TAKE r \in Sessions
      <4>1. air[r] = v => r = s
        BY <1>7 DEF OneCopy
      <4> QED BY <1>1, <1>7, <4>1, RecordsAssumption DEF TypeInv, RadioOK
    <3> QED BY <1>7, <3>2, <3>3, <3>4, NowhereCopy DEF Nowhere
  <2>3. Sent' = Sent /\ v \in Sent /\ v \notin written
    BY <1>1, <1>7 DEF Sent, Live
  <2>4. ASSUME NEW r \in Sessions
        PROVE  Cardinality(Resolved(r)') + Completions(r)' <= Cardinality(Of(r, written'))
    <3>1. Resolved(r)' = Resolved(r)
      BY <1>1 DEF Resolved, Of
    <3>2. /\ IsFiniteSet(Of(r, written)) /\ Cardinality(Resolved(r)) \in Nat
          /\ Cardinality(Of(r, written)) \in Nat
          /\ Cardinality(Resolved(r)) + Completions(r) <= Cardinality(Of(r, written))
      BY FiniteCounts DEF WritesInv, ConfirmInv
    <3>3. CASE r = s
      <4>1. Of(r, written') = Of(r, written) \cup {v} /\ v \notin Of(r, written)
        BY <1>7, <1>9, <2>3, <3>3 DEF Of
      <4>2. Cardinality(Of(r, written')) = Cardinality(Of(r, written)) + 1
        BY <3>2, <4>1, OneMore
      <4>3. Completions(r) = 0 /\ Completions(r)' = 1
        BY <1>3, <1>4, <1>9, <3>3 DEF Completions
      <4> QED BY <3>1, <3>2, <4>2, <4>3
    <3>4. CASE r # s
      <4>1. Of(r, written') = Of(r, written)
        BY <1>7, <1>9, <3>4 DEF Of
      <4>2. Completions(r)' = Completions(r)
        BY <1>4, <3>4, ThreadNames DEF Completions
      <4> QED BY <3>1, <3>2, <4>1, <4>2
    <3> QED BY <3>3, <3>4
  <2>5. ConfirmInv'
    BY <1>1, <1>9, <2>3, <2>4 DEF WritesInv, ConfirmInv
  <2> QED BY <2>1, <2>2, <2>5 DEF WritesInv
<1> QED BY <1>2, <1>8, <1>9

\* What a step leaves of the counts, when it settles no send.
LEMMA CountsLeft ==
  ASSUME TypeInv, ConfirmInv, UNCHANGED <<activeWrites, outcome, written>>,
         \A u \in Threads : todo'[u] # <<>> /\ Head(todo'[u]).op = "completed" =>
           todo[u] # <<>> /\ Head(todo[u]).op = "completed"
  PROVE  ConfirmInv'
<1>1. Sent' = Sent
  BY DEF Sent
<1>2. ASSUME NEW s \in Sessions
      PROVE  Cardinality(Resolved(s)') + Completions(s)' <= Cardinality(Of(s, written'))
  <2>1. Resolved(s)' = Resolved(s) /\ Of(s, written') = Of(s, written)
    BY DEF Resolved
  <2>2. Completions(s)' <= Completions(s)
    BY ThreadNames DEF Completions
  <2>3. Completions(s) \in {0, 1} /\ Completions(s)' \in {0, 1} /\ Cardinality(Resolved(s)) \in Nat
        /\ Cardinality(Of(s, written)) \in Nat
    BY FiniteCounts DEF Completions
  <2>4. Cardinality(Resolved(s)) + Completions(s) <= Cardinality(Of(s, written))
    BY DEF ConfirmInv
  <2> HIDE DEF Completions
  <2> QED BY <2>1, <2>2, <2>3, <2>4
<1> QED BY <1>1, <1>2 DEF ConfirmInv

LEMMA AddWrites ==
  ASSUME TypeInv, WritesInv, NEW t \in Threads, todo[t] # <<>>, Add(t, Head(todo[t]).s)
  PROVE  WritesInv'
<1>1. PICK s \in Sessions, v \in Records, q \in 1..Len(queues[Head(todo[t]).s]) :
             /\ s = Head(todo[t]).s /\ v = Head(todo[t]).w /\ q = Head(todo[t]).q
  BY AddType
<1>2. /\ TypeInv' /\ q \in 1..Len(queues[s])
      /\ UNCHANGED <<air, activeWrites, opened, outcome, written>>
      /\ queues' = [queues EXCEPT ![s][q] = Append(@, v)]
      /\ todo'[t] # <<>> /\ Swaps(t, Head(todo'[t]))
      /\ Head(todo'[t]).op = "checkActive" /\ Head(todo'[t]).w = None
  BY <1>1, AddType
<1>3. HeadMoves(t)
  BY <1>2 DEF HeadMoves
<1>4. HeadsKept /\ \A u \in Threads : u # t => todo'[u] = todo[u]
  BY <1>3, HeadsMoved
<1>5. /\ Len(queues[s]) \in Nat /\ queues[s] \in Seq(Seq(Records)) /\ queues[s][q] \in Seq(Records)
      /\ Len(queues[s][q]) \in Nat /\ q \in Nat
  BY <1>2, QueuesTyped
<1> DEFINE Q == Append(queues[s][q], v)
<1>6. /\ Len(Q) = Len(queues[s][q]) + 1
      /\ \A i \in 1..Len(Q) : \/ i \in 1..Len(queues[s][q]) /\ Q[i] = queues[s][q][i]
                              \/ i = Len(queues[s][q]) + 1 /\ Q[i] = v
  <2>1. /\ Len(Q) = Len(queues[s][q]) + 1 /\ Q[Len(queues[s][q]) + 1] = v
        /\ \A i \in 1..Len(queues[s][q]) : Q[i] = queues[s][q][i]
    BY <1>5, AppendProperties
  <2> HIDE DEF Q
  <2>2. PICK n \in Nat : n = Len(queues[s][q])
    BY <1>5
  <2>3. \A i \in 1..(n + 1) : i \in 1..n \/ i = n + 1
    OBVIOUS
  <2> QED BY <2>1, <2>2, <2>3
<1>7. queues \in [Sessions -> Seq(Seq(Records))]
  BY DEF TypeInv, QueuesOK
<1>8. /\ queues'[s][q] = Q /\ Len(queues'[s]) = Len(queues[s])
      /\ \A r \in 1..Len(queues[s]) : r # q => queues'[s][r] = queues[s][r]
      /\ \A r \in Sessions : r # s => queues'[r] = queues[r]
  <2>1. queues' = [queues EXCEPT ![s] = [queues[s] EXCEPT ![q] = Q]]
    BY <1>2
  <2>2. queues'[s] = [queues[s] EXCEPT ![q] = Q] /\ \A r \in Sessions : r # s => queues'[r] = queues[r]
    BY <1>7, <2>1
  <2>3. DOMAIN queues[s] = 1..Len(queues[s]) /\ DOMAIN queues'[s] = 1..Len(queues'[s])
        /\ Len(queues'[s]) \in Nat
    BY <1>2, <1>5, LenProperties DEF TypeInv, QueuesOK
  <2> HIDE DEF Q
  <2>4. DOMAIN queues'[s] = DOMAIN queues[s]
    BY <2>2
  <2>5. Len(queues'[s]) = Len(queues[s])
    BY <1>5, <2>3, <2>4
  <2> QED BY <1>2, <2>2, <2>3, <2>5
<1> HIDE DEF Q
<1>9. Carries(t, v) /\ OneCopy(v)
  BY <1>1 DEF Carries, WritesInv
<1>10. s = SessionOf[v] /\ Live(v) /\ (\A u \in Threads : Carries(u, v) => u = t)
       /\ (\A r \in Sessions : air[r] # v) /\ (\A r \in Sessions : \A k, i \in Nat : ~QueuedAt(r, k, i, v))
  BY <1>1, <1>9 DEF OneCopy
<1>11. ASSUME NEW w \in Records, w # v PROVE OneCopy(w)'
  <2>1. \A u \in Threads : todo'[u] # <<>> /\ Head(todo'[u]).w = w =>
          Carries(u, w) /\ Head(todo'[u]).s = Head(todo[u]).s
    BY <1>4, RecordsAssumption DEF HeadsKept, HandsKept, Carries
  <2>2. \A r \in Sessions : \A k \in Nat : \E d \in {0, 1} : \A i \in Nat :
          k \in 1..Len(queues'[r]) /\ i \in 1..Len(queues'[r][k]) /\ queues'[r][k][i] = w => QueuedAt(r, k, i + d, w)
    <3> TAKE r \in Sessions
    <3> TAKE k \in Nat
    <3> WITNESS 0 \in {0, 1}
    <3> TAKE i \in Nat
    <3> HAVE k \in 1..Len(queues'[r]) /\ i \in 1..Len(queues'[r][k]) /\ queues'[r][k][i] = w
    <3>1. CASE r = s /\ k = q
      BY <1>2, <1>6, <1>8, <1>11, <3>1 DEF QueuedAt
    <3>2. CASE r # s \/ k # q
      BY <1>8, <3>2 DEF QueuedAt
    <3> QED BY <3>1, <3>2
  <2>3. OneCopy(w)
    BY DEF WritesInv
  <2> QED BY <1>2, <2>1, <2>2, <2>3, FewerKeeps DEF Fewer
<1>12. OneCopy(v)'
  <2>1. \A u \in Threads : ~Carries(u, v)'
    BY <1>2, <1>4, <1>10, RecordsAssumption DEF Carries
  <2>2. \A r \in Sessions : air'[r] # v
    BY <1>2, <1>10
  <2>3. Live(v)'
    BY <1>2, <1>10 DEF Live
  <2>4. ASSUME NEW r \in Sessions, NEW k \in Nat, NEW i \in Nat, QueuedAt(r, k, i, v)'
        PROVE  r = s /\ k = q /\ i = Len(queues[s][q]) + 1
    <3>1. k \in 1..Len(queues'[r]) /\ i \in 1..Len(queues'[r][k]) /\ queues'[r][k][i] = v
      BY <2>4 DEF QueuedAt
    <3>2. ~QueuedAt(r, k, i, v)
      BY <1>10
    <3>3. r = s /\ k = q
      BY <1>8, <3>1, <3>2 DEF QueuedAt
    <3> QED BY <1>2, <1>6, <1>8, <3>1, <3>2, <3>3 DEF QueuedAt
  <2> QED BY <1>10, <2>1, <2>2, <2>3, <2>4 DEF OneCopy
<1>13. ConfirmInv'
  BY <1>2, <1>4, CountsLeft DEF WritesInv, HeadsKept
<1> QED BY <1>11, <1>12, <1>13 DEF WritesInv

LEMMA PollWrites ==
  ASSUME TypeInv, WritesInv, NEW t \in Threads, todo[t] # <<>>, Poll(t, Head(todo[t]).s)
  PROVE  WritesInv'
<1>1. PICK s \in Sessions, q \in 1..Len(queues[Head(todo[t]).s]) : s = Head(todo[t]).s /\ q = Head(todo[t]).q
  BY PollType
<1>2. TypeInv' /\ q \in 1..Len(queues[s]) /\ UNCHANGED <<air, activeWrites, opened, outcome, written>>
  BY <1>1, PollType
<1>3. CASE UNCHANGED queues /\ HeadMoves(t)
  <2>1. LessInAir /\ LessQueued /\ SendsFailed
    BY <1>2, <1>3 DEF LessInAir, LessQueued, SendsFailed
  <2> QED BY <1>2, <1>3, <2>1, HeadsMoved, QuietWrites DEF Quiet
<1>4. CASE /\ queues[s][q] # <<>> /\ queues' = [queues EXCEPT ![s][q] = Tail(@)]
           /\ todo'[t] # <<>> /\ Swaps(t, Head(todo'[t]))
           /\ Head(todo'[t]).op = "setActive" /\ Head(todo'[t]).s = s
           /\ Head(todo'[t]).w = Head(queues[s][q])
  <2>1. /\ Len(queues[s]) \in Nat /\ queues[s] \in Seq(Seq(Records)) /\ queues[s][q] \in Seq(Records)
        /\ Len(queues[s][q]) \in Nat /\ q \in Nat
    BY <1>2, QueuesTyped
  <2> DEFINE Q == Tail(queues[s][q])
  <2>2. /\ Len(Q) = Len(queues[s][q]) - 1 /\ Len(queues[s][q]) > 0
        /\ \A i \in 1..Len(Q) : i + 1 \in 1..Len(queues[s][q]) /\ Q[i] = queues[s][q][i + 1]
        /\ Head(queues[s][q]) = queues[s][q][1] /\ Head(queues[s][q]) \in Records
    BY <1>4, <2>1, TailElements
  <2>3. PICK v \in Records : v = Head(queues[s][q])
    BY <2>2
  <2>4. queues \in [Sessions -> Seq(Seq(Records))]
    BY DEF TypeInv, QueuesOK
  <2>5. /\ queues'[s][q] = Q /\ Len(queues'[s]) = Len(queues[s])
        /\ \A r \in 1..Len(queues[s]) : r # q => queues'[s][r] = queues[s][r]
        /\ \A r \in Sessions : r # s => queues'[r] = queues[r]
    <3>1. queues' = [queues EXCEPT ![s] = [queues[s] EXCEPT ![q] = Q]]
      BY <1>4
    <3>2. queues'[s] = [queues[s] EXCEPT ![q] = Q] /\ \A r \in Sessions : r # s => queues'[r] = queues[r]
      BY <2>4, <3>1
    <3>3. DOMAIN queues[s] = 1..Len(queues[s]) /\ DOMAIN queues'[s] = 1..Len(queues'[s])
          /\ Len(queues'[s]) \in Nat
      BY <1>2, <2>1, LenProperties DEF TypeInv, QueuesOK
    <3> HIDE DEF Q
    <3>4. DOMAIN queues'[s] = DOMAIN queues[s]
      BY <3>2
    <3>5. Len(queues'[s]) = Len(queues[s])
      BY <2>1, <3>3, <3>4
    <3> QED BY <1>2, <3>2, <3>3, <3>5
  <2> HIDE DEF Q
  <2>6. QueuedAt(s, q, 1, v) /\ OneCopy(v)
    BY <1>2, <2>1, <2>2, <2>3 DEF QueuedAt, WritesInv
  <2>7. /\ s = SessionOf[v] /\ Live(v) /\ \A r, j \in Nat : QueuedAt(s, r, j, v) => r = q /\ j = 1
    BY <2>1, <2>6 DEF OneCopy
  <2>8. (\A u \in Threads : ~Carries(u, v)) /\ (\A r \in Sessions : air[r] # v)
    BY <2>1, <2>6 DEF OneCopy
  <2>9. \A r \in Sessions : \A k, i \in Nat : QueuedAt(r, k, i, v) => r = s
    BY <2>6, <2>7 DEF OneCopy
  <2>10. \A u \in Threads : u # t => todo'[u] = todo[u]
    BY <1>4 DEF Swaps, TypeInv, TodoInv
  <2>11. ASSUME NEW r \in Sessions, NEW k \in Nat, NEW i \in Nat, NEW w \in Records,
                k \in 1..Len(queues'[r]), i \in 1..Len(queues'[r][k]), queues'[r][k][i] = w
         PROVE  IF r = s /\ k = q THEN QueuedAt(r, k, i + 1, w) ELSE QueuedAt(r, k, i, w)
    <3>1. CASE r = s /\ k = q
      BY <1>2, <2>2, <2>5, <2>11, <3>1 DEF QueuedAt
    <3>2. CASE r # s \/ k # q
      BY <2>5, <2>11, <3>2 DEF QueuedAt
    <3> QED BY <3>1, <3>2
  <2>12. ASSUME NEW w \in Records, w # v PROVE OneCopy(w)'
    <3>1. \A u \in Threads : todo'[u] # <<>> /\ Head(todo'[u]).w = w =>
            Carries(u, w) /\ Head(todo'[u]).s = Head(todo[u]).s
      BY <1>4, <2>3, <2>10, <2>12 DEF Carries
    <3>2. \A r \in Sessions : \A k \in Nat : \E d \in {0, 1} : \A i \in Nat :
            k \in 1..Len(queues'[r]) /\ i \in 1..Len(queues'[r][k]) /\ queues'[r][k][i] = w => QueuedAt(r, k, i + d, w)
      <4> TAKE r \in Sessions
      <4> TAKE k \in Nat
      <4>1. CASE r = s /\ k = q
        <5> WITNESS 1 \in {0, 1}
        <5> QED BY <2>11, <4>1
      <4>2. CASE ~(r = s /\ k = q)
        <5> WITNESS 0 \in {0, 1}
        <5> TAKE i \in Nat
        <5> HAVE k \in 1..Len(queues'[r]) /\ i \in 1..Len(queues'[r][k]) /\ queues'[r][k][i] = w
        <5>1. QueuedAt(r, k, i, w)
          BY <2>11, <4>2
        <5>2. i + 0 = i
          OBVIOUS
        <5> QED BY <5>1, <5>2
      <4> QED BY <4>1, <4>2
    <3>3. OneCopy(w)
      BY DEF WritesInv
    <3> QED BY <1>2, <3>1, <3>2, <3>3, FewerKeeps DEF Fewer
  <2>13. OneCopy(v)'
    <3>1. Live(v)'
      BY <1>2, <2>7 DEF Live
    <3>2. \A u \in Threads : Carries(u, v)' => u = t
      BY <2>8, <2>10 DEF Carries
    <3>3. \A r \in Sessions : air'[r] # v
      BY <1>2, <2>8
    <3>4. ASSUME NEW r \in Sessions, NEW k \in Nat, NEW i \in Nat, QueuedAt(r, k, i, v)'
          PROVE  FALSE
      <4>1. k \in 1..Len(queues'[r]) /\ i \in 1..Len(queues'[r][k]) /\ queues'[r][k][i] = v
        BY <3>4 DEF QueuedAt
      <4>2. IF r = s /\ k = q THEN QueuedAt(r, k, i + 1, v) ELSE QueuedAt(r, k, i, v)
        BY <2>11, <4>1
      <4>3. i >= 1 /\ Len(queues'[r][k]) \in Nat
        BY <1>2, <2>1, <2>2, <2>5, <4>1
      <4>4. CASE r = s /\ k = q
        BY <2>1, <2>7, <4>2, <4>3, <4>4
      <4>5. CASE ~(r = s /\ k = q)
        BY <2>7, <2>9, <4>2, <4>5
      <4> QED BY <4>4, <4>5
    <3>5. Head(todo'[t]).s = SessionOf[v]
      BY <1>4, <2>7
    <3> QED BY <3>1, <3>2, <3>3, <3>4, <3>5 DEF OneCopy
  <2>14. ConfirmInv'
    <3>1. \A u \in Threads : todo'[u] # <<>> /\ Head(todo'[u]).op = "completed" =>
            todo[u] # <<>> /\ Head(todo[u]).op = "completed"
      BY <1>4, <2>10
    <3> QED BY <1>2, <3>1, CountsLeft DEF WritesInv
  <2> QED BY <2>12, <2>13, <2>14 DEF WritesInv
<1> QED BY <1>1, <1>3, <1>4, PollType DEF HeadMoves

LEMMA WriteWrites ==
  ASSUME TypeInv, WritesInv, NEW t \in Threads, todo[t] # <<>>, Write(t, Head(todo[t]).s)
  PROVE  WritesInv'
<1>1. PICK s \in Sessions, v \in Records : s = Head(todo[t]).s /\ v = Head(todo[t]).w
  BY WriteType
<1>2. TypeInv' /\ UNCHANGED <<queues, opened, written>> /\ HeadMoves(t)
  BY WriteType DEF HeadMoves
<1>3. HeadsKept /\ \A u \in Threads : u # t => todo'[u] = todo[u]
  BY <1>2, HeadsMoved
<1>4. LessQueued
  BY <1>2 DEF LessQueued
<1>5. CASE /\ air[s] = None /\ air' = [air EXCEPT ![s] = v] /\ Pops(t) /\ UNCHANGED <<activeWrites, outcome>>
  <2>1. Carries(t, v) /\ OneCopy(v)
    BY <1>1 DEF Carries, WritesInv
  <2>2. s = SessionOf[v] /\ Live(v) /\ (\A u \in Threads : Carries(u, v) => u = t)
        /\ (\A r \in Sessions : \A k, i \in Nat : ~QueuedAt(r, k, i, v)) /\ (\A r \in Sessions : air[r] # v)
    BY <1>1, <2>1 DEF OneCopy
  <2>3. air'[s] = v /\ \A r \in Sessions : r # s => air'[r] = air[r]
    BY <1>5 DEF TypeInv, RadioOK
  <2>4. ASSUME NEW w \in Records, w # v PROVE OneCopy(w)'
    <3>1. \A u \in Threads : todo'[u] # <<>> /\ Head(todo'[u]).w = w =>
            Carries(u, w) /\ Head(todo'[u]).s = Head(todo[u]).s
      BY <1>3, RecordsAssumption DEF HeadsKept, HandsKept, Carries
    <3>2. \A r \in Sessions : \A k \in Nat : \E d \in {0, 1} : \A i \in Nat :
            k \in 1..Len(queues'[r]) /\ i \in 1..Len(queues'[r][k]) /\ queues'[r][k][i] = w => QueuedAt(r, k, i + d, w)
      <4> TAKE r \in Sessions
      <4> TAKE k \in Nat
      <4> WITNESS 0 \in {0, 1}
      <4> QED BY <1>2 DEF QueuedAt
    <3>3. OneCopy(w)
      BY DEF WritesInv
    <3> QED BY <1>2, <1>5, <2>3, <2>4, <3>1, <3>2, <3>3, FewerKeeps DEF Fewer
  <2>5. OneCopy(v)'
    <3>1. \A u \in Threads : ~Carries(u, v)'
      BY <1>3, <1>5, <2>2, PoppedHead, RecordsAssumption DEF Carries
    <3>2. Live(v)'
      BY <1>2, <1>5, <2>2 DEF Live
    <3>3. \A r \in Sessions : \A k, i \in Nat : ~QueuedAt(r, k, i, v)'
      BY <1>2, <2>2 DEF QueuedAt
    <3> QED BY <2>2, <2>3, <3>1, <3>2, <3>3 DEF OneCopy
  <2>6. ConfirmInv'
    BY <1>2, <1>3, <1>5, CountsLeft DEF WritesInv, HeadsKept
  <2> QED BY <2>4, <2>5, <2>6 DEF WritesInv
<1>6. CASE /\ UNCHANGED air
           /\ UNCHANGED activeWrites \/ activeWrites' = [activeWrites EXCEPT ![s] = None]
           /\ OutcomeMoves({v}, "rejected")
  <2>1. \A r \in Sessions : activeWrites'[r] \in {activeWrites[r], None}
    BY <1>6 DEF TypeInv, QueuesOK
  <2>2. SendsFailed /\ LessInAir
    BY <1>6, <2>1, FailedSends DEF LessInAir
  <2> QED BY <1>2, <1>3, <1>4, <2>2, QuietWrites DEF Quiet
<1> QED BY <1>1, <1>5, <1>6, WriteType

----------------------------------------------------------------------------
(* The calls and the callbacks, and the sends.                             *)

\* A call or a callback that leaves the sends alone.
LEMMA OtherWrites ==
  ASSUME TypeInv, TypeInv', WritesInv, UNCHANGED writes, LessInAir,
         UNCHANGED todo \/ (\E t \in Threads : \E s \in Sessions : EndsOnly(t, s))
  PROVE  WritesInv'
<1>1. HeadsKept
  BY SameHeads, EndingHeads
<1> QED BY <1>1, SendsLeft

LEMMA OpenSessionWrites ==
  ASSUME TypeInv, WritesInv, NEW s \in Sessions, OpenSession(s)
  PROVE  WritesInv'
<1>1. TypeInv' /\ UNCHANGED <<air, writes>>
  BY OpenSessionType
<1>2. LessInAir
  BY <1>1 DEF LessInAir
<1>3. HeadsKept
  <2>1. CASE UNCHANGED todo
    BY <2>1, SameHeads
  <2>2. CASE \E T \in Seq(StepRecord) : /\ Starts("module", T)
                                        /\ Plan(T, <<"put", "schedule", "connect", "putGatt">>, s)
    <3>1. PICK T \in Seq(StepRecord) : /\ Starts("module", T)
                                       /\ Plan(T, <<"put", "schedule", "connect", "putGatt">>, s)
      BY <2>2
    <3>2. Len(T) = 4 /\ T[1].op = "put" /\ T[1].w = None
      BY <3>1 DEF Plan
    <3>3. T # <<>> /\ Head(T) = T[1]
      <4>1. Len(<<>>) = 0 /\ <<>> \in Seq(StepRecord)
        BY EmptySeq
      <4>2. T # <<>>
        BY <3>2, <4>1
      <4> QED BY <4>2, TailElements
    <3>4. todo'["module"] = T /\ \A u \in Threads : u # "module" => todo'[u] = todo[u]
      BY <3>1, ThreadNames DEF Starts, TypeInv, TodoInv
    <3> QED BY <3>2, <3>3, <3>4 DEF HeadsKept, HandsKept
  <2> QED BY <2>1, <2>2, OpenSessionType
<1> QED BY <1>1, <1>2, <1>3, SendsLeft

LEMMA StopRelayWrites ==
  ASSUME TypeInv, WritesInv, NEW t \in {"module", "main"}, StopRelayOn(t)
  PROVE  WritesInv'
<1>1. TypeInv' /\ UNCHANGED <<air, writes>>
  BY StopRelayType
<1>2. LessInAir
  BY <1>1 DEF LessInAir
<1>3. PICK T \in Seq(StepRecord) : /\ Starts(t, T) /\ Len(T) = 8 /\ T[1].op = "stopGatts" /\ T[1].w = None
  BY StopRelayType
<1>4. T # <<>> /\ Head(T) = T[1]
  <2>1. Len(<<>>) = 0 /\ <<>> \in Seq(StepRecord)
    BY EmptySeq
  <2>2. T # <<>>
    BY <1>3, <2>1
  <2> QED BY <2>2, TailElements
<1>5. todo'[t] = T /\ \A u \in Threads : u # t => todo'[u] = todo[u]
  BY <1>3, ThreadNames DEF Starts, TypeInv, TodoInv
<1>6. HeadsKept
  BY <1>3, <1>4, <1>5 DEF HeadsKept, HandsKept
<1> QED BY <1>1, <1>2, <1>6, SendsLeft

LEMMA CallbackWrites ==
  ASSUME TypeInv, WritesInv, NEW s \in Sessions, Callback(s)
  PROVE  WritesInv'
<1>1. CASE OnConnected(s) \/ OnMtuChanged(s) \/ OnServicesDiscovered(s) \/ OnDescriptorWrite(s)
  <2>1. TypeInv' /\ (UNCHANGED todo \/ Closes(s, s))
    BY <1>1, OnConnectedType, OnMtuChangedType, OnServicesDiscoveredType, OnDescriptorWriteType
  <2>2. UNCHANGED <<air, writes>>
    BY <1>1 DEF OnConnected, OnMtuChanged, OnServicesDiscovered, OnDescriptorWrite
  <2>3. LessInAir
    BY <2>2 DEF LessInAir
  <2> QED BY <2>1, <2>2, <2>3, ClosesEnds, ThreadNames, OtherWrites
<1>2. CASE Accepted(s) \/ OnServerMtuChanged(s)
  <2>1. TypeInv'
    BY <1>2, AcceptedType, OnServerMtuChangedType
  <2>2. UNCHANGED <<air, writes, todo>>
    BY <1>2 DEF Accepted, OnServerMtuChanged, radio
  <2>3. LessInAir
    BY <2>2 DEF LessInAir
  <2> QED BY <2>1, <2>2, <2>3, OtherWrites
<1>3. CASE OnCharacteristicWrite(s)
  BY <1>3, OnCharacteristicWriteWrites
<1>4. CASE OnDisconnected(s)
  <2>1. /\ TypeInv' /\ UNCHANGED writes /\ air' = [air EXCEPT ![s] = None]
        /\ UNCHANGED todo \/ EndsOnly(s, s)
    BY <1>4, OnDisconnectedType, ClosesEnds
  <2>2. LessInAir
    BY <2>1 DEF LessInAir, TypeInv, RadioOK
  <2> QED BY <2>1, <2>2, ThreadNames, OtherWrites
<1>5. CASE ClassicLost(s)
  <2>1. TypeInv' /\ UNCHANGED <<air, writes>> /\ EndsOnly(s, s)
    BY <1>5, ClassicLostType
  <2>2. LessInAir
    BY <2>1 DEF LessInAir
  <2> QED BY <2>1, <2>2, ThreadNames, OtherWrites
<1> QED BY <1>1, <1>2, <1>3, <1>4, <1>5 DEF Callback

LEMMA ClassicWrites ==
  ASSUME TypeInv, WritesInv, NEW s \in Sessions, ClassicCall(s) \/ Timeout(s) \/ CloseSession(s)
  PROVE  WritesInv'
<1>1. TypeInv'
  BY ClassicConnectedType, ClassicRefusedType, TimeoutType, CloseSessionType DEF ClassicCall
<1>2. UNCHANGED <<air, writes>>
  BY DEF ClassicCall, ClassicConnected, ClassicRefused, Timeout, CloseSession, radio
<1>3. UNCHANGED todo \/ (\E t \in Threads : EndsOnly(t, s))
  <2>1. CASE ClassicCall(s)
    BY <2>1 DEF ClassicCall, ClassicConnected, ClassicRefused
  <2>2. CASE Timeout(s) \/ CloseSession(s)
    BY <2>2, TimeoutType, CloseSessionType, ClosesEnds, ThreadNames
  <2> QED BY <2>1, <2>2
<1>4. LessInAir
  BY <1>2 DEF LessInAir
<1> QED BY <1>1, <1>2, <1>3, <1>4, OtherWrites

LEMMA AdvertisingWrites ==
  ASSUME TypeInv, WritesInv, AdvertisingUnavailable
  PROVE  WritesInv'
<1>1. TypeInv' /\ UNCHANGED <<writes, todo>>
  BY AdvertisingType DEF AdvertisingUnavailable
<1>2. LessInAir
  BY DEF LessInAir, AdvertisingUnavailable, Closed
<1> QED BY <1>1, <1>2, OtherWrites

LEMMA InitWrites == Init => WritesInv
<1> SUFFICES ASSUME Init PROVE WritesInv
  OBVIOUS
<1>1. \A w \in Records : OneCopy(w)
  <2> TAKE w \in Records
  <2>1. \A t \in Threads : ~Carries(t, w)
    BY DEF Init, Carries
  <2>2. \A s \in Sessions : air[s] # w
    BY RecordsAssumption DEF Init
  <2>3. \A s \in Sessions : \A q, i \in Nat : ~QueuedAt(s, q, i, w)
    <3>1. Len(<<>>) = 0
      BY EmptySeq
    <3> QED BY <3>1 DEF Init, QueuedAt
  <2> QED BY <2>1, <2>2, <2>3 DEF OneCopy
<1>2. ConfirmInv
  <2>1. Sent = {} /\ written = {} /\ \A s \in Sessions : activeWrites[s] = None
    BY DEF Init, Sent
  <2>2. IsFiniteSet({}) /\ Cardinality({}) = 0
    BY FS_EmptySet
  <2>3. ASSUME NEW s \in Sessions
        PROVE  Cardinality(Resolved(s)) + Completions(s) <= Cardinality(Of(s, written))
    <3>1. Resolved(s) = {} /\ Of(s, written) = {}
      BY <2>1 DEF Resolved, Of, Sent
    <3>2. Completions(s) = 0
      BY ThreadNames DEF Init, Completions
    <3> QED BY <2>2, <3>1, <3>2
  <2> QED BY <2>1, <2>2, <2>3 DEF ConfirmInv
<1> QED BY <1>1, <1>2 DEF WritesInv

LEMMA RunWrites ==
  ASSUME TypeInv, WritesInv, NEW t \in Threads, Run(t)
  PROVE  WritesInv'
<1>1. PICK s : s = Head(todo[t]).s
  OBVIOUS
<1>2. CASE StopGatts(t) \/ StopOpens(t) \/ ClearRest(t) \/ StopActive(t) \/ StopQueues(t)
  BY <1>1, <1>2, SetUpWrites, FailWrites, DrainWrites DEF Run, Idle
<1>3. CASE SessionStep(t, Head(todo[t]).s)
  BY <1>1, <1>3, SetUpWrites, LookWrites, QueueTableWrites, FailWrites, DrainWrites, GetOrPutWrites,
     AdmitWrites, AddWrites, PollWrites, WriteWrites, CompleteWriteWrites DEF Run, Idle, SessionStep
<1> QED BY <1>2, <1>3 DEF Run

LEMMA NextWrites == TypeInv /\ WritesInv /\ [Next]_vars => WritesInv'
<1> SUFFICES ASSUME TypeInv, WritesInv, [Next]_vars PROVE WritesInv'
  OBVIOUS
<1>1. CASE Call
  BY <1>1, OpenSessionWrites, ClassicWrites, SendRecordWrites, StopRelayWrites DEF Call, StopRelay
<1>2. ASSUME NEW t \in Threads, Run(t) PROVE WritesInv'
  BY <1>2, RunWrites
<1>3. ASSUME NEW s \in Sessions, Callback(s) \/ ClassicCall(s) \/ Timeout(s) PROVE WritesInv'
  BY <1>3, CallbackWrites, ClassicWrites
<1>4. CASE NotificationStop \/ AdvertisingUnavailable
  BY <1>4, StopRelayWrites, AdvertisingWrites DEF NotificationStop
<1>5. CASE UNCHANGED vars
  <2>1. TypeInv' /\ UNCHANGED <<air, writes, todo>>
    BY <1>5, NextType DEF vars, radio
  <2>2. LessInAir
    BY <2>1 DEF LessInAir
  <2> QED BY <2>1, <2>2, OtherWrites
<1> QED BY <1>1, <1>2, <1>3, <1>4, <1>5 DEF Next

LEMMA WritesInvConfirms == TypeInv /\ WritesInv => ResolutionsAreConfirmed
<1> SUFFICES ASSUME TypeInv, WritesInv, NEW s \in Sessions
             PROVE  Cardinality({w \in Of(s, Records) : outcome[w] = "resolved"}) <= Cardinality(Of(s, written))
  BY DEF ResolutionsAreConfirmed
<1>1. /\ Cardinality(Resolved(s)) \in Nat /\ Cardinality(Of(s, written)) \in Nat /\ Completions(s) \in {0, 1}
      /\ Cardinality(Resolved(s)) + Completions(s) <= Cardinality(Of(s, written))
  BY FiniteCounts DEF WritesInv, ConfirmInv
<1>2. Cardinality(Resolved(s)) <= Cardinality(Of(s, written))
  BY <1>1
<1> QED BY <1>2 DEF Resolved

\* No more sends of a session resolve than the link confirmed writes of it,
\* however many sessions, records, threads and stops of the relay there are: a
\* record is in one place only, so each confirmation is of another record, and
\* each resolves one send.
THEOREM ResolutionsConfirmed == Spec => []ResolutionsAreConfirmed
<1>1. Spec => [](TypeInv /\ WritesInv)
  BY InitType, NextType, InitWrites, NextWrites, PTL DEF Spec
<1> QED BY <1>1, WritesInvConfirms, PTL

----------------------------------------------------------------------------
(* What has begun stays begun.                                             *)

\* What a step of a thread does to the steps that are left.
Goes(t) ==
  \/ Pops(t) \/ Clears(t)
  \/ /\ todo'[t] # <<>> /\ Swaps(t, Head(todo'[t]))
     /\ \/ Head(todo[t]).op \in SendingOps /\ Head(todo'[t]).op \in SendingOps
        \/ Head(todo[t]).op = "failQueue" /\ Head(todo'[t]).op = "drain" /\ Head(todo'[t]).s = Head(todo[t]).s

LEMMA SwapFacts ==
  ASSUME TypeInv, TypeInv', NEW t \in Threads, todo'[t] # <<>>, Swaps(t, Head(todo'[t]))
  PROVE  /\ \A u \in Threads : u # t => todo'[u] = todo[u]
         /\ Len(todo'[t]) = Len(todo[t]) /\ Len(todo[t]) \in Nat \ {0} /\ todo'[t][1] = Head(todo'[t])
         /\ \A k \in 1..Len(todo[t]) : k # 1 => todo'[t][k] = todo[t][k]
<1>1. todo'[t] \in Seq(StepRecord) /\ todo[t] \in Seq(StepRecord) /\ todo[t] # <<>>
  BY DEF TypeInv, TodoInv, Swaps
<1>2. PICK h \in StepRecord : h = Head(todo'[t])
  BY <1>1, TailElements
<1>3. todo'[t] = <<h>> \o Tail(todo[t]) /\ \A u \in Threads : u # t => todo'[u] = todo[u]
  BY <1>2 DEF Swaps, TypeInv, TodoInv
<1>4. /\ Len(Tail(todo[t])) = Len(todo[t]) - 1 /\ Len(todo[t]) \in Nat \ {0} /\ Tail(todo[t]) \in Seq(StepRecord)
      /\ \A i \in 1..Len(Tail(todo[t])) : i + 1 \in 1..Len(todo[t]) /\ Tail(todo[t])[i] = todo[t][i + 1]
  BY <1>1, TailElements
<1>5. /\ Len(todo'[t]) = Len(todo[t]) /\ todo'[t][1] = h
      /\ \A i \in 1..Len(Tail(todo[t])) : todo'[t][i + 1] = Tail(todo[t])[i]
  BY <1>3, <1>4, FrontElements
<1>6. \A k \in 1..Len(todo[t]) : k # 1 => todo'[t][k] = todo[t][k]
  <2> TAKE k \in 1..Len(todo[t])
  <2> HAVE k # 1
  <2>1. k - 1 \in 1..Len(Tail(todo[t])) /\ (k - 1) + 1 = k
    BY <1>4
  <2> QED BY <1>4, <1>5, <2>1
<1> QED BY <1>2, <1>3, <1>4, <1>5, <1>6

LEMMA PopFacts ==
  ASSUME TypeInv, NEW t \in Threads, Pops(t)
  PROVE  /\ \A u \in Threads : u # t => todo'[u] = todo[u]
         /\ Len(todo'[t]) = Len(todo[t]) - 1 /\ Len(todo[t]) \in Nat \ {0}
         /\ \A k \in 1..Len(todo'[t]) : k + 1 \in 1..Len(todo[t]) /\ todo'[t][k] = todo[t][k + 1]
<1>1. todo[t] # <<>> /\ todo'[t] = Tail(todo[t]) /\ todo[t] \in Seq(StepRecord)
      /\ \A u \in Threads : u # t => todo'[u] = todo[u]
  BY DEF Pops, TypeInv, TodoInv
<1> QED BY <1>1, TailElements

LEMMA ClearFacts ==
  ASSUME TypeInv, NEW t \in Threads, Clears(t)
  PROVE  todo'[t] = <<>> /\ Len(todo'[t]) = 0 /\ \A u \in Threads : u # t => todo'[u] = todo[u]
<1>1. Len(<<>>) = 0
  BY EmptySeq
<1> QED BY <1>1 DEF Clears, TypeInv, TodoInv

\* The first of a thread's steps.
LEMMA FirstStep ==
  ASSUME TypeInv, NEW t \in Threads
  PROVE  /\ Len(todo[t]) \in Nat /\ todo[t] \in Seq(StepRecord) /\ ShapeOf(t, todo[t])
         /\ todo[t] # <<>> <=> 1 \in 1..Len(todo[t])
         /\ todo[t] # <<>> => Head(todo[t]) = todo[t][1]
         /\ \A k \in 1..Len(todo[t]) : /\ StepShape(t, todo[t][k]) /\ StepFits(todo[t][k], queues, opened)
                                       /\ todo[t][k] \in StepRecord /\ todo[t] # <<>>
<1>1. todo[t] \in Seq(StepRecord) /\ ShapeOf(t, todo[t])
  BY DEF TypeInv, TodoInv
<1>2. Len(todo[t]) \in Nat /\ Len(<<>>) = 0
  BY <1>1, LenProperties, EmptySeq
<1>3. todo[t] # <<>> => Head(todo[t]) = todo[t][1] /\ Len(todo[t]) > 0
  BY <1>1, TailElements
<1>4. \A k \in 1..Len(todo[t]) : StepShape(t, todo[t][k]) /\ StepFits(todo[t][k], queues, opened)
  BY <1>1 DEF ShapeOf, TypeInv, TodoInv
<1>5. \A k \in 1..Len(todo[t]) : todo[t][k] \in StepRecord /\ todo[t] # <<>>
  BY <1>2, <1>4 DEF StepShape
<1> QED BY <1>1, <1>2, <1>3, <1>4, <1>5

\* Only the first step may put a session on the table of pending ones.
LEMMA PutFirst ==
  ASSUME TypeInv, NEW t \in Threads, NEW k \in 1..Len(todo[t]), todo[t][k].op = "put"
  PROVE  k = 1 /\ t = "module" /\ todo[t] # <<>> /\ Head(todo[t]) = todo[t][1]
<1>1. /\ ShapeOf(t, todo[t]) /\ StepShape(t, todo[t][k]) /\ Len(todo[t]) \in Nat
      /\ todo[t] # <<>> /\ Head(todo[t]) = todo[t][1] /\ 1 \in 1..Len(todo[t])
  BY FirstStep
<1>2. k = 1
  <2> SUFFICES ASSUME 1 < k PROVE FALSE
    BY <1>1
  <2> QED BY <1>1 DEF ShapeOf, Precedes
<1> QED BY <1>1, <1>2 DEF StepShape, OpeningOps

LEMMA PutAheadFacts ==
  ASSUME TypeInv, NEW s, PutAhead(s)
  PROVE  /\ todo["module"] # <<>> /\ Head(todo["module"]) = todo["module"][1] /\ 1 \in 1..Len(todo["module"])
         /\ Head(todo["module"]).op = "put" /\ Head(todo["module"]).s = s
         /\ s \in Sessions /\ opened[s] # "no"
<1>1. PICK k \in 1..Len(todo["module"]) : todo["module"][k].op = "put" /\ todo["module"][k].s = s
  BY DEF PutAhead
<1>2. k = 1 /\ todo["module"] # <<>> /\ Head(todo["module"]) = todo["module"][1]
  BY <1>1, PutFirst, ThreadNames
<1>3. StepShape("module", todo["module"][k]) /\ StepFits(todo["module"][k], queues, opened)
  BY FirstStep, ThreadNames
<1> QED BY <1>1, <1>2, <1>3 DEF StepShape, StepFits, StopOps, PastOps, OpeningOps

\* The steps that are left were left before, or suppose nothing that is not so.
OldStep(e) == \E u \in Threads : \E j \in 1..Len(todo[u]) : todo[u][j] = e
NewStep(e) == e.op \notin OpeningOps /\ (e.op \in ClosingOps => Begun(e.s))
StepsKept  == \A u \in Threads : \A k \in 1..Len(todo'[u]) : OldStep(todo'[u][k]) \/ NewStep(todo'[u][k])

\* What comes to the head of a thread, when connectGatt() is not what it did.
HeadLinked(t) ==
  todo'[t] # <<>> /\ Head(todo'[t]).op = "putGatt" => Linked(Head(todo'[t]).s)

LEMMA OthersKept ==
  ASSUME TypeInv, NEW t, \A u \in Threads : u # t => todo'[u] = todo[u],
         \A k \in 1..Len(todo'[t]) : OldStep(todo'[t][k]) \/ NewStep(todo'[t][k])
  PROVE  StepsKept
BY DEF StepsKept, OldStep

LEMMA GoesKeeps ==
  ASSUME TypeInv, TypeInv', BegunInv, NEW t \in Threads, Goes(t)
  PROVE  /\ StepsKept /\ \A u \in Threads : u # t => todo'[u] = todo[u]
         /\ todo[t] # <<>> /\ (Head(todo[t]).op # "connect" => HeadLinked(t))
<1>0. todo[t] # <<>>
  BY DEF Goes, Pops, Clears, Swaps
<1>1. CASE Pops(t)
  <2>1. /\ \A u \in Threads : u # t => todo'[u] = todo[u]
        /\ Len(todo'[t]) = Len(todo[t]) - 1 /\ Len(todo[t]) \in Nat \ {0}
        /\ \A k \in 1..Len(todo'[t]) : k + 1 \in 1..Len(todo[t]) /\ todo'[t][k] = todo[t][k + 1]
    BY <1>1, PopFacts
  <2>2. \A k \in 1..Len(todo'[t]) : OldStep(todo'[t][k])
    BY <2>1 DEF OldStep
  <2>3. StepsKept
    BY <2>1, <2>2, OthersKept
  <2>4. ASSUME Head(todo[t]).op # "connect", todo'[t] # <<>>, Head(todo'[t]).op = "putGatt"
        PROVE  Linked(Head(todo'[t]).s)
    <3>1. Head(todo'[t]) = todo'[t][1] /\ 1 \in 1..Len(todo'[t])
      BY <2>4, TailElements DEF TypeInv, TodoInv
    <3>2. /\ Head(todo'[t]) = todo[t][2] /\ 2 \in 1..Len(todo[t]) /\ 1 \in 1..Len(todo[t])
          /\ Head(todo[t]) = todo[t][1]
      BY <1>0, <2>1, <3>1, FirstStep
    <3>3. Precedes(todo[t][1], todo[t][2]) /\ Leads(todo[t][1], todo[t][2])
      <4>1. ShapeOf(t, todo[t]) /\ 1 + 1 = 2
        BY FirstStep
      <4> QED BY <3>2, <4>1 DEF ShapeOf
    <3>4. Head(todo[t]).op = "putGatt" /\ Head(todo[t]).s = Head(todo'[t]).s
      BY <2>4, <3>2, <3>3 DEF Precedes, Leads, OpeningOps
    <3> QED BY <1>0, <3>4 DEF BegunInv
  <2> QED BY <1>0, <2>1, <2>3, <2>4 DEF HeadLinked
<1>2. CASE Clears(t)
  <2>1. /\ \A u \in Threads : u # t => todo'[u] = todo[u]
        /\ todo'[t] = <<>> /\ Len(todo'[t]) = 0
    BY <1>2, ClearFacts
  <2>2. \A k \in 1..Len(todo'[t]) : OldStep(todo'[t][k])
    BY <2>1
  <2> QED BY <1>0, <2>1, <2>2, OthersKept DEF HeadLinked
<1>3. CASE /\ todo'[t] # <<>> /\ Swaps(t, Head(todo'[t]))
           /\ \/ Head(todo[t]).op \in SendingOps /\ Head(todo'[t]).op \in SendingOps
              \/ Head(todo[t]).op = "failQueue" /\ Head(todo'[t]).op = "drain" /\ Head(todo'[t]).s = Head(todo[t]).s
  <2>1. /\ \A u \in Threads : u # t => todo'[u] = todo[u]
        /\ Len(todo'[t]) = Len(todo[t]) /\ Len(todo[t]) \in Nat \ {0} /\ todo'[t][1] = Head(todo'[t])
        /\ \A k \in 1..Len(todo[t]) : k # 1 => todo'[t][k] = todo[t][k]
    BY <1>3, SwapFacts
  <2>2. Head(todo[t]) = todo[t][1] /\ 1 \in 1..Len(todo[t])
    BY <1>0, FirstStep
  <2>3. NewStep(todo'[t][1])
    <3>1. CASE Head(todo[t]).op \in SendingOps /\ Head(todo'[t]).op \in SendingOps
      BY <2>1, <3>1 DEF NewStep, SendingOps, CarryOps, OpeningOps, ClosingOps, SettleOps
    <3>2. CASE Head(todo[t]).op = "failQueue" /\ Head(todo'[t]).op = "drain" /\ Head(todo'[t]).s = Head(todo[t]).s
      <4>1. StepBegun(todo[t][1])
        BY <2>2 DEF BegunInv
      <4>2. Begun(Head(todo[t]).s)
        BY <2>2, <3>2, <4>1 DEF StepBegun, ClosingOps
      <4> QED BY <2>1, <3>2, <4>2 DEF NewStep, OpeningOps
    <3> QED BY <1>3, <3>1, <3>2
  <2>4. \A k \in 1..Len(todo'[t]) : OldStep(todo'[t][k]) \/ NewStep(todo'[t][k])
    BY <2>1, <2>3 DEF OldStep
  <2>5. Head(todo'[t]).op # "putGatt"
    BY <1>3 DEF SendingOps, CarryOps
  <2> QED BY <1>0, <2>1, <2>4, <2>5, OthersKept DEF HeadLinked
<1> QED BY <1>1, <1>2, <1>3 DEF Goes

LEMMA EndingStarts ==
  ASSUME TypeInv, TypeInv', BegunInv, NEW t \in Threads, NEW s, Begun(s), EndsOnly(t, s)
  PROVE  StepsKept /\ (\A u \in Threads : u # t => todo'[u] = todo[u]) /\ todo[t] = <<>> /\ HeadLinked(t)
<1>1. PICK T \in Seq(StepRecord) : Ending(t, s, T)
  BY DEF EndsOnly
<1>2. todo[t] = <<>> /\ todo'[t] = T /\ \A u \in Threads : u # t => todo'[u] = todo[u]
  BY <1>1 DEF Ending, Starts, TypeInv, TodoInv
<1>3. \A k \in 1..Len(todo'[t]) : NewStep(todo'[t][k])
  BY <1>1, <1>2 DEF Ending, NewStep, ClosingOps, SettleOps, OpeningOps
<1>4. T # <<>> => Head(T).op \in ClosingOps
  <2>1. T # <<>> => Head(T) = T[1] /\ 1 \in 1..Len(T)
    BY TailElements
  <2> QED BY <1>1, <2>1 DEF Ending
<1> QED BY <1>2, <1>3, <1>4, OthersKept DEF HeadLinked, ClosingOps, SettleOps

LEMMA SameSteps ==
  ASSUME UNCHANGED todo
  PROVE  StepsKept
BY DEF StepsKept, OldStep

\* Opens and connections only go forward.
Forward ==
  \A s \in Sessions : /\ opened'[s] = "no" => opened[s] = "no"
                      /\ link'[s] = link[s] \/ Linked(s)'

LEMMA PutAheadOld ==
  ASSUME TypeInv, StepsKept, NEW s, PutAhead(s)'
  PROVE  PutAhead(s)
<1>1. PICK k \in 1..Len(todo'["module"]) : todo'["module"][k].op = "put" /\ todo'["module"][k].s = s
  BY DEF PutAhead
<1>2. OldStep(todo'["module"][k])
  BY <1>1, ThreadNames DEF StepsKept, NewStep, OpeningOps
<1>3. PICK u \in Threads : \E j \in 1..Len(todo[u]) : todo[u][j] = todo'["module"][k]
  BY <1>2 DEF OldStep
<1>4. PICK j \in 1..Len(todo[u]) : todo[u][j] = todo'["module"][k]
  BY <1>3
<1>5. u = "module"
  BY <1>1, <1>4, PutFirst
<1> QED BY <1>1, <1>4, <1>5 DEF PutAhead

LEMMA BegunStays ==
  ASSUME TypeInv, StepsKept, Forward, NEW s \in Sessions
  PROVE  (Begun(s) => Begun(s)') /\ (Linked(s) => Linked(s)')
<1>1. PutAhead(s)' => PutAhead(s)
  BY PutAheadOld
<1> QED BY <1>1 DEF Begun, Linked, Forward

\* A connection whose result is about to be put on the table was made.
HeadsLinked ==
  \A t \in Threads : todo'[t] # <<>> /\ Head(todo'[t]).op = "putGatt" =>
    link'[Head(todo'[t]).s] \notin {"none", "calling"}

\* What the steps, the tables and the connections need to stay begun.
LEMMA BegunKept ==
  ASSUME TypeInv, TypeInv', BegunInv, StepsKept, Forward, HeadsLinked,
         \A s \in Sessions : Linked(s)' => Linked(s) \/ Begun(s)',
         \A s \in Sessions : opened'[s] # opened[s] => link'[s] # "calling" /\ ~PutAhead(s)',
         \A s \in pendingSessions' \cup sessionTimeouts' : s \in pendingSessions \cup sessionTimeouts \/ Begun(s)',
         \A s \in pendingSessions' : s \in pendingSessions \/ ~PutAhead(s)',
         \A s \in clientGatts' \cup serverDevices' \cup classicSockets' :
           s \in clientGatts \cup serverDevices \cup classicSockets \/ Linked(s)',
         \A s \in classicSockets' : opened'[s] # "waiting",
         \A t \in Threads : \A k \in 1..Len(todo'[t]) :
           todo'[t][k].op = "connect" => link'[todo'[t][k].s] = link[todo'[t][k].s]
  PROVE  BegunInv'
<1>1. \A s \in Sessions : (Begun(s) => Begun(s)') /\ (Linked(s) => Linked(s)')
  BY BegunStays
<1>2. \A s \in Sessions : Linked(s)' => Begun(s)'
  BY <1>1 DEF BegunInv
<1>3. \A s \in Sessions : link'[s] = "calling" => opened'[s] = "waiting"
  BY DEF BegunInv, Forward, Linked
<1>4. \A s \in pendingSessions' \cup sessionTimeouts' : Begun(s)'
  BY <1>1 DEF BegunInv, TypeInv, SetupOK
<1>5. \A s \in clientGatts' \cup serverDevices' \cup classicSockets' : Linked(s)'
  BY <1>1 DEF BegunInv, TypeInv, SetupOK
<1>6. ASSUME NEW t \in Threads, NEW k \in 1..Len(todo'[t])
      PROVE  StepBegun(todo[t][k])'
  <2>1. PICK e \in StepRecord : e = todo'[t][k] /\ StepShape(t, e) /\ StepFits(e, queues', opened')
    BY <1>6 DEF TypeInv, TodoInv, ShapeOf, StepShape
  <2>2. CASE NewStep(e)
    <3>1. e.op \in ClosingOps => e.s \in Sessions /\ Begun(e.s)
      BY <2>1, <2>2 DEF NewStep, StepShape, ClosingOps, SettleOps, StopOps, PastOps
    <3>2. e.op \in ClosingOps => Begun(e.s)'
      BY <1>1, <3>1
    <3>3. StepBegun(e)'
      BY <2>2, <3>2 DEF StepBegun, NewStep, OpeningOps
    <3> QED BY <2>1, <3>3
  <2>3. CASE OldStep(e)
    <3>1. PICK u \in Threads : \E j \in 1..Len(todo[u]) : todo[u][j] = e
      BY <2>3 DEF OldStep
    <3>2. StepBegun(e)
      BY <3>1 DEF BegunInv
    <3>3. e.op \in OpeningOps \cup ClosingOps => e.s \in Sessions
      BY <2>1 DEF StepShape, ClosingOps, SettleOps, OpeningOps, StopOps, PastOps
    <3>4. e.op \in ClosingOps => Begun(e.s)'
      BY <1>1, <3>2, <3>3 DEF StepBegun
    <3>5. e.op = "put" => PutAhead(e.s)'
      BY <1>6, <2>1, ThreadNames DEF PutAhead, StepShape, OpeningOps
    <3>6. e.op = "put" => opened'[e.s] = "waiting" /\ e.s \notin pendingSessions'
      BY <3>2, <3>3, <3>5 DEF StepBegun, OpeningOps
    <3>7. e.op \in {"put", "schedule", "connect"} => link'[e.s] # "calling"
      BY <3>2, <3>3 DEF StepBegun, OpeningOps, Forward, Linked
    <3>8. e.op = "connect" => link'[e.s] = "none"
      BY <1>6, <2>1, <3>2 DEF StepBegun
    <3>9. StepBegun(e)'
      BY <3>4, <3>6, <3>7, <3>8 DEF StepBegun
    <3> QED BY <2>1, <3>9
  <2> QED BY <1>6, <2>1, <2>2, <2>3 DEF StepsKept
<1>7. \A t \in Threads : \A k \in 1..Len(todo'[t]) : StepBegun(todo[t][k])'
  BY <1>6
<1>8. \A t \in Threads : todo'[t] # <<>> /\ Head(todo'[t]).op = "putGatt" => Linked(Head(todo[t]).s)'
  BY DEF HeadsLinked, Linked
<1> QED BY <1>2, <1>3, <1>4, <1>5, <1>7, <1>8 DEF BegunInv

\* What a step does that opens nothing: opens on the table are settled, and
\* tables lose what they hold.
Settles ==
  /\ \A s \in Sessions : \/ opened'[s] = opened[s]
                         \/ s \in pendingSessions /\ opened[s] = "waiting" /\ opened'[s] \in {"resolved", "rejected"}
  /\ pendingSessions' \subseteq pendingSessions /\ sessionTimeouts' \subseteq sessionTimeouts
  /\ clientGatts' \subseteq clientGatts /\ serverDevices' \subseteq serverDevices
  /\ classicSockets' \subseteq classicSockets
  /\ \A s \in Sessions : link'[s] = link[s] \/ (Linked(s) /\ Linked(s)')

LEMMA BegunSettles ==
  ASSUME TypeInv, TypeInv', BegunInv, StepsKept, Settles, \A t \in Threads : HeadLinked(t)
  PROVE  BegunInv'
<1>1. Forward
  BY DEF Forward, Settles
<1>2. HeadsLinked
  <2> SUFFICES ASSUME NEW t \in Threads, todo'[t] # <<>>, Head(todo'[t]).op = "putGatt"
               PROVE  link'[Head(todo'[t]).s] \notin {"none", "calling"}
    BY DEF HeadsLinked
  <2>1. PICK e : e = Head(todo'[t]) /\ StepShape(t, e)
    <3>1. Head(todo'[t]) = todo'[t][1] /\ 1 \in 1..Len(todo'[t])
      BY TailElements DEF TypeInv, TodoInv
    <3> QED BY <3>1 DEF TypeInv, TodoInv, ShapeOf
  <2>2. e.s \in Sessions /\ Linked(e.s)
    BY <2>1 DEF HeadLinked, StepShape, StopOps, PastOps
  <2> QED BY <2>1, <2>2 DEF Settles, Linked
<1>3. \A s \in Sessions : opened'[s] # opened[s] => link'[s] # "calling" /\ ~PutAhead(s)'
  <2> SUFFICES ASSUME NEW s \in Sessions, opened'[s] # opened[s] PROVE link'[s] # "calling" /\ ~PutAhead(s)'
    OBVIOUS
  <2>1. Begun(s)
    BY DEF Settles, BegunInv
  <2>2. Begun(s)'
    BY <1>1, <2>1, BegunStays
  <2> QED BY <2>2 DEF Begun
<1>4. \A s \in classicSockets' : opened'[s] # "waiting"
  BY DEF Settles, BegunInv, TypeInv, SetupOK
<1>5. \A t \in Threads : \A k \in 1..Len(todo'[t]) :
        todo'[t][k].op = "connect" => link'[todo'[t][k].s] = link[todo'[t][k].s]
  <2> SUFFICES ASSUME NEW t \in Threads, NEW k \in 1..Len(todo'[t]), todo'[t][k].op = "connect"
               PROVE  link'[todo'[t][k].s] = link[todo'[t][k].s]
    OBVIOUS
  <2>1. PICK e : e = todo'[t][k] /\ StepShape(t, e)
    BY DEF TypeInv, TodoInv, ShapeOf
  <2>2. OldStep(e)
    BY <2>1 DEF StepsKept, NewStep, OpeningOps
  <2>3. StepBegun(e)
    BY <2>2 DEF OldStep, BegunInv
  <2>4. e.s \in Sessions
    BY <2>1 DEF StepShape, StopOps, PastOps
  <2> QED BY <2>1, <2>3, <2>4 DEF StepBegun, Settles, Linked
<1>6. \A s \in Sessions : Linked(s)' => Linked(s) \/ Begun(s)'
  BY DEF Settles, Linked
<1>7. \A s \in pendingSessions' \cup sessionTimeouts' : s \in pendingSessions \cup sessionTimeouts \/ Begun(s)'
  BY DEF Settles
<1>8. \A s \in pendingSessions' : s \in pendingSessions \/ ~PutAhead(s)'
  BY DEF Settles
<1>9. \A s \in clientGatts' \cup serverDevices' \cup classicSockets' :
        s \in clientGatts \cup serverDevices \cup classicSockets \/ Linked(s)'
  BY DEF Settles
<1> QED BY <1>1, <1>2, <1>3, <1>4, <1>5, <1>6, <1>7, <1>8, <1>9, BegunKept

LEMMA GoesBegun ==
  ASSUME TypeInv, TypeInv', BegunInv, NEW t \in Threads, Goes(t), Head(todo[t]).op # "connect", Settles
  PROVE  BegunInv'
<1>1. StepsKept /\ HeadLinked(t) /\ \A u \in Threads : u # t => todo'[u] = todo[u]
  BY GoesKeeps
<1>2. \A u \in Threads : u # t => HeadLinked(u)
  BY <1>1 DEF HeadLinked, BegunInv
<1> QED BY <1>1, <1>2, BegunSettles

\* The steps that leave the set-up alone.
LeavesSetUp == UNCHANGED <<link, clientGatts, serverDevices, classicSockets, pendingSessions, sessionTimeouts, opened, overtaken>>

LEMMA SendsGo ==
  ASSUME TypeInv, NEW t \in Threads, todo[t] # <<>>, NEW s, s = Head(todo[t]).s,
         \/ Admit(t, s) \/ GetOrPut(t, s) \/ Add(t, s) \/ CheckActive(t, s) \/ GetQueue(t, s) \/ Poll(t, s)
         \/ RemoveQueue(t, s) \/ SetActive(t, s) \/ Write(t, s) \/ CompleteWrite(t, s)
  PROVE  TypeInv' /\ Goes(t) /\ LeavesSetUp /\ Head(todo[t]).op \in SendingOps
<1>1. LeavesSetUp
  BY DEF Admit, GetOrPut, Add, CheckActive, GetQueue, Poll, RemoveQueue, SetActive, Write, CompleteWrite,
         LeavesSetUp, radio, gatts, setup, opens
<1>2. CASE Admit(t, s)
  BY <1>1, <1>2, AdmitType DEF Goes, SendingOps, CarryOps
<1>3. CASE GetOrPut(t, s)
  BY <1>1, <1>3, GetOrPutType DEF Goes, SendingOps, CarryOps
<1>4. CASE Add(t, s)
  BY <1>1, <1>4, AddType DEF Goes, SendingOps, CarryOps
<1>5. CASE CheckActive(t, s) \/ GetQueue(t, s)
  BY <1>1, <1>5, CheckActiveType, GetQueueType DEF Goes, SendingOps
<1>6. CASE Poll(t, s)
  BY <1>1, <1>6, PollType DEF Goes, SendingOps
<1>7. CASE RemoveQueue(t, s)
  <2>1. TypeInv' /\ Pops(t)
    BY <1>7, RemoveQueueType
  <2> QED BY <1>1, <1>7, <2>1 DEF Goes, SendingOps, RemoveQueue, Runs
<1>8. CASE SetActive(t, s)
  BY <1>1, <1>8, SetActiveType DEF Goes, SendingOps, CarryOps
<1>9. CASE Write(t, s)
  BY <1>1, <1>9, WriteType DEF Goes, SendingOps, CarryOps
<1>10. CASE CompleteWrite(t, s)
  BY <1>1, <1>10, CompleteWriteType DEF Goes, SendingOps
<1> QED BY <1>2, <1>3, <1>4, <1>5, <1>6, <1>7, <1>8, <1>9, <1>10

\* Those that fail the sends of a session that is closed, or of all.
LEMMA FailsGo ==
  ASSUME TypeInv, NEW t \in Threads, todo[t] # <<>>, NEW s, s = Head(todo[t]).s,
         FailActive(t, s) \/ FailQueue(t, s) \/ Drain(t, s) \/ StopActive(t) \/ StopQueues(t)
  PROVE  /\ TypeInv' /\ Goes(t) /\ LeavesSetUp
         /\ Head(todo[t]).op \in {"failActive", "failQueue", "drain"} \cup (PastOps \ {"clearOpens"})
         /\ Pops(t) \/ Clears(t) \/ Head(todo[t]).op = "failQueue"
<1>1. LeavesSetUp
  BY DEF FailActive, FailQueue, Drain, StopActive, StopQueues, LeavesSetUp, radio, gatts, setup, opens
<1>2. CASE FailActive(t, s)
  BY <1>1, <1>2, FailActiveType DEF Goes
<1>3. CASE FailQueue(t, s)
  BY <1>1, <1>3, FailQueueType DEF Goes
<1>4. CASE Drain(t, s)
  BY <1>1, <1>4, DrainType DEF Goes
<1>5. CASE StopActive(t)
  BY <1>1, <1>5, StopActiveType DEF Goes
<1>6. CASE StopQueues(t)
  BY <1>1, <1>6, StopQueuesType DEF Goes
<1> QED BY <1>2, <1>3, <1>4, <1>5, <1>6

LEMMA LeavesBegun ==
  ASSUME LeavesSetUp
  PROVE  Settles
BY DEF LeavesSetUp, Settles

\* Connections that are on the tables are closed.
LEMMA ClosedLinks ==
  ASSUME TypeInv, BegunInv, NEW S, S \subseteq clientGatts \cup serverDevices \cup classicSockets, Closed(S)
  PROVE  \A s \in Sessions : link'[s] = link[s] \/ (Linked(s) /\ Linked(s)')
BY DEF Closed, BegunInv, Linked

LEMMA ClosesBegun ==
  ASSUME TypeInv, BegunInv, NEW t \in Threads, todo[t] # <<>>, NEW s, s = Head(todo[t]).s,
         \/ CancelTimeout(t, s) \/ SettlePending(t, s) \/ Drop(t, s) \/ DropServer(t, s) \/ Report(t, s)
         \/ StopGatts(t) \/ StopOpens(t) \/ ClearRest(t)
  PROVE  BegunInv'
<1>1. CASE CancelTimeout(t, s) \/ DropServer(t, s) \/ Report(t, s) \/ ClearRest(t)
  <2>1. TypeInv' /\ Pops(t)
    BY <1>1, CancelTimeoutType, DropServerType, ReportType, ClearRestType
  <2>2. Settles
    BY <1>1 DEF CancelTimeout, DropServer, Report, ClearRest, Settles, radio, gatts, setup, opens
  <2>3. Head(todo[t]).op # "connect"
    BY <1>1 DEF CancelTimeout, DropServer, Report, ClearRest, Runs
  <2> QED BY <2>1, <2>2, <2>3, GoesBegun DEF Goes
<1>2. CASE Drop(t, s)
  <2>1. TypeInv' /\ Pops(t) /\ Head(todo[t]).op # "connect"
    BY <1>2, DropType DEF Drop, Runs
  <2>2. \A r \in Sessions : link'[r] = link[r] \/ (Linked(r) /\ Linked(r)')
    BY <1>2, ClosedLinks DEF Drop
  <2>3. Settles
    BY <1>2, <2>2 DEF Drop, Settles, opens
  <2> QED BY <2>1, <2>3, GoesBegun DEF Goes
<1>3. CASE StopGatts(t)
  <2>1. TypeInv' /\ Pops(t) /\ Head(todo[t]).op # "connect"
    BY <1>3, StopGattsType DEF StopGatts, Runs
  <2>2. \A r \in Sessions : link'[r] = link[r] \/ (Linked(r) /\ Linked(r)')
    BY <1>3, ClosedLinks DEF StopGatts
  <2>3. Settles
    BY <1>3, <2>2 DEF StopGatts, Settles, setup, opens
  <2> QED BY <2>1, <2>3, GoesBegun DEF Goes
<1>4. CASE SettlePending(t, s)
  <2>1. /\ TypeInv' /\ Head(todo[t]).op \in SettleOps /\ pendingSessions' = pendingSessions \ {s}
        /\ UNCHANGED <<radio, gatts, sessionTimeouts, negotiatedMtu, writes, overtaken>>
        /\ \E how \in {"resolved", "rejected"} : OpenedMoves({s} \cap pendingSessions, how)
        /\ Pops(t) \/ Clears(t)
    BY <1>4, SettlePendingType
  <2>2. Settles
    BY <2>1 DEF Settles, OpenedMoves, radio, gatts
  <2> QED BY <2>1, <2>2, GoesBegun DEF Goes, SettleOps
<1>5. CASE StopOpens(t)
  <2>1. /\ TypeInv' /\ Head(todo[t]).op # "connect" /\ pendingSessions' \subseteq pendingSessions
        /\ UNCHANGED <<radio, gatts, sessionTimeouts, negotiatedMtu, writes, overtaken>>
        /\ OpenedMoves(pendingSessions, "rejected") \/ UNCHANGED opened
        /\ Pops(t) \/ Clears(t)
    BY <1>5, StopOpensType
  <2>2. Settles
    BY <2>1 DEF Settles, OpenedMoves, radio, gatts
  <2> QED BY <2>1, <2>2, GoesBegun DEF Goes
<1> QED BY <1>1, <1>2, <1>3, <1>4, <1>5

\* The steps of opening a session.
LEMMA OpeningHead ==
  ASSUME TypeInv, BegunInv, NEW t \in Threads, todo[t] # <<>>, Head(todo[t]).op \in OpeningOps
  PROVE  LET s == Head(todo[t]).s
         IN  /\ t = "module" /\ s \in Sessions /\ opened[s] # "no"
             /\ Head(todo[t]).op \in {"put", "schedule", "connect"} => link[s] # "calling"
             /\ Head(todo[t]).op = "connect" => link[s] = "none"
             /\ Head(todo[t]).op = "put" => s \notin pendingSessions /\ opened[s] = "waiting"
             /\ Head(todo[t]).op = "putGatt" => Linked(s)
<1>1. /\ Head(todo[t]) = todo[t][1] /\ 1 \in 1..Len(todo[t])
      /\ StepShape(t, Head(todo[t])) /\ StepFits(Head(todo[t]), queues, opened)
  BY HeadFacts DEF TypeInv
<1>2. StepBegun(Head(todo[t]))
  BY <1>1 DEF BegunInv
<1> QED BY <1>1, <1>2 DEF StepShape, StepFits, StepBegun, BegunInv, OpeningOps, StopOps, PastOps

\* After the first step of a thread no put is left.
LEMMA NoPutLeft ==
  ASSUME TypeInv, NEW t \in Threads, Pops(t), t = "module", NEW s
  PROVE  ~PutAhead(s)'
<1> SUFFICES ASSUME PutAhead(s)' PROVE FALSE
  OBVIOUS
<1>1. PICK k \in 1..Len(todo'["module"]) : todo'["module"][k].op = "put" /\ todo'["module"][k].s = s
  BY DEF PutAhead
<1>2. k + 1 \in 1..Len(todo[t]) /\ todo[t][k + 1].op = "put" /\ k \in Nat
  BY <1>1, PopFacts
<1>3. k + 1 = 1
  BY <1>2, PutFirst
<1> QED BY <1>2, <1>3

LEMMA OpeningBegun ==
  ASSUME TypeInv, BegunInv, NEW t \in Threads, todo[t] # <<>>, NEW s, s = Head(todo[t]).s,
         Put(t, s) \/ Schedule(t, s) \/ PutGatt(t, s)
  PROVE  BegunInv'
<1>1. TypeInv' /\ Pops(t)
  BY PutType, ScheduleType, PutGattType
<1>2. /\ Head(todo[t]).op \in {"put", "schedule", "putGatt"}
      /\ UNCHANGED <<link, opened, serverDevices, classicSockets>>
  BY DEF Put, Schedule, PutGatt, Runs, radio, gatts, writes, opens
<1>3. /\ t = "module" /\ s \in Sessions /\ opened[s] # "no"
      /\ Head(todo[t]).op \in {"put", "schedule"} => link[s] # "calling"
      /\ Head(todo[t]).op = "putGatt" => Linked(s)
  BY <1>2, OpeningHead DEF OpeningOps
<1>4. StepsKept /\ HeadLinked(t) /\ \A u \in Threads : u # t => todo'[u] = todo[u]
  BY <1>1, <1>2, GoesKeeps DEF Goes
<1>5. Forward
  BY <1>2 DEF Forward
<1>6. HeadsLinked
  BY <1>2, <1>4 DEF HeadsLinked, HeadLinked, BegunInv, Linked
<1>7. ~PutAhead(s)'
  BY <1>1, <1>3, NoPutLeft
<1>8. Head(todo[t]).op \in {"put", "schedule"} => Begun(s)'
  BY <1>2, <1>3, <1>7 DEF Begun
<1>9. \A r \in pendingSessions' \cup sessionTimeouts' : r \in pendingSessions \cup sessionTimeouts \/ Begun(r)'
  BY <1>8 DEF Put, Schedule, PutGatt, Runs, setup
<1>10. \A r \in pendingSessions' : r \in pendingSessions \/ ~PutAhead(r)'
  BY <1>7 DEF Put, Schedule, PutGatt, setup
<1>11. \A r \in clientGatts' \cup serverDevices' \cup classicSockets' :
         r \in clientGatts \cup serverDevices \cup classicSockets \/ Linked(r)'
  BY <1>2, <1>3 DEF Put, Schedule, PutGatt, Runs, gatts, Linked
<1>12. \A r \in classicSockets' : opened'[r] # "waiting"
  BY <1>2 DEF BegunInv
<1>13. \A r \in Sessions : Linked(r)' => Linked(r) \/ Begun(r)'
  BY <1>2 DEF Linked
<1> QED BY <1>1, <1>2, <1>4, <1>5, <1>6, <1>9, <1>10, <1>11, <1>12, <1>13, BegunKept

LEMMA ConnectBegun ==
  ASSUME TypeInv, BegunInv, NEW t \in Threads, todo[t] # <<>>, NEW s, s = Head(todo[t]).s, Connect(t, s)
  PROVE  BegunInv'
<1>1. TypeInv' /\ Pops(t)
  BY ConnectType
<1>2. /\ Head(todo[t]).op = "connect" /\ link' = [link EXCEPT ![s] = "connecting"]
      /\ UNCHANGED <<opened, clientGatts, serverDevices, classicSockets, pendingSessions, sessionTimeouts>>
  BY DEF Connect, Runs, gatts, setup, opens
<1>3. t = "module" /\ s \in Sessions /\ opened[s] # "no" /\ link[s] = "none"
  BY <1>2, OpeningHead DEF OpeningOps
<1>4. StepsKept /\ \A u \in Threads : u # t => todo'[u] = todo[u]
  BY <1>1, GoesKeeps DEF Goes
<1>5. \A r \in Sessions : link'[r] = IF r = s THEN "connecting" ELSE link[r]
  BY <1>2, <1>3 DEF TypeInv, RadioOK
<1>6. Forward
  BY <1>2, <1>5 DEF Forward, Linked
<1>7. ~PutAhead(s)'
  BY <1>1, <1>3, NoPutLeft
<1>8. \A r \in Sessions : Linked(r)' => Linked(r) \/ Begun(r)'
  BY <1>2, <1>3, <1>5, <1>7 DEF Linked, Begun
<1>9. ASSUME NEW k \in 1..Len(todo'[t])
      PROVE  todo'[t][k].op # "connect" /\ todo'[t][k].s = s
  <2>1. k + 1 \in 1..Len(todo[t]) /\ 1 \in 1..Len(todo[t]) /\ todo'[t][k] = todo[t][k + 1] /\ 1 < k + 1
    BY <1>1, PopFacts
  <2>2. Precedes(todo[t][1], todo[t][k + 1]) /\ Head(todo[t]) = todo[t][1]
    <3>1. ShapeOf(t, todo[t]) /\ Head(todo[t]) = todo[t][1]
      BY FirstStep
    <3> QED BY <2>1, <3>1 DEF ShapeOf
  <2> QED BY <1>2, <2>1, <2>2 DEF Precedes
<1>10. HeadsLinked
  <2> SUFFICES ASSUME NEW u \in Threads, todo'[u] # <<>>, Head(todo'[u]).op = "putGatt"
               PROVE  link'[Head(todo'[u]).s] \notin {"none", "calling"}
    BY DEF HeadsLinked
  <2>1. Head(todo'[u]) = todo'[u][1] /\ 1 \in 1..Len(todo'[u])
    BY TailElements, <1>1 DEF TypeInv, TodoInv
  <2>2. u = "module"
    BY <1>1, <2>1 DEF TypeInv, TodoInv, ShapeOf, StepShape, OpeningOps
  <2>3. Head(todo'[u]).s = s
    BY <1>3, <1>9, <2>1, <2>2
  <2> QED BY <1>3, <1>5, <2>3
<1>11. \A u \in Threads : \A k \in 1..Len(todo'[u]) :
         todo'[u][k].op = "connect" => link'[todo'[u][k].s] = link[todo'[u][k].s]
  <2> SUFFICES ASSUME NEW u \in Threads, NEW k \in 1..Len(todo'[u]), todo'[u][k].op = "connect" PROVE FALSE
    OBVIOUS
  <2>1. u = "module"
    BY <1>1 DEF TypeInv, TodoInv, ShapeOf, StepShape, OpeningOps
  <2> QED BY <1>3, <1>9, <2>1
<1>12. \A r \in pendingSessions' \cup sessionTimeouts' : r \in pendingSessions \cup sessionTimeouts \/ Begun(r)'
  BY <1>2
<1>13. \A r \in pendingSessions' : r \in pendingSessions \/ ~PutAhead(r)'
  BY <1>2
<1>14. \A r \in clientGatts' \cup serverDevices' \cup classicSockets' :
         r \in clientGatts \cup serverDevices \cup classicSockets \/ Linked(r)'
  BY <1>2
<1>15. \A r \in classicSockets' : opened'[r] # "waiting"
  BY <1>2 DEF BegunInv
<1>16. \A r \in Sessions : opened'[r] # opened[r] => link'[r] # "calling" /\ ~PutAhead(r)'
  BY <1>2
<1> QED BY <1>1, <1>4, <1>6, <1>8, <1>10, <1>11, <1>12, <1>13, <1>14, <1>15, <1>16, BegunKept

\* A call or a callback that opens nothing.
LEMMA OtherBegun ==
  ASSUME TypeInv, TypeInv', BegunInv, Settles,
         UNCHANGED todo \/ (\E t \in Threads : \E s \in Sessions : Begun(s) /\ EndsOnly(t, s))
  PROVE  BegunInv'
<1>1. CASE UNCHANGED todo
  <2>1. StepsKept /\ \A u \in Threads : HeadLinked(u)
    BY <1>1, SameSteps DEF HeadLinked, BegunInv
  <2> QED BY <2>1, BegunSettles
<1>2. CASE \E t \in Threads : \E s \in Sessions : Begun(s) /\ EndsOnly(t, s)
  <2>1. PICK t \in Threads : \E s \in Sessions : Begun(s) /\ EndsOnly(t, s)
    BY <1>2
  <2>2. PICK s \in Sessions : Begun(s) /\ EndsOnly(t, s)
    BY <2>1
  <2>3. StepsKept /\ HeadLinked(t) /\ \A u \in Threads : u # t => todo'[u] = todo[u]
    BY <2>2, EndingStarts
  <2>4. \A u \in Threads : HeadLinked(u)
    BY <2>3 DEF HeadLinked, BegunInv
  <2> QED BY <2>3, <2>4, BegunSettles
<1> QED BY <1>1, <1>2

LEMMA AliveLinked ==
  ASSUME NEW s, link[s] \in Alive
  PROVE  Linked(s)
BY DEF Alive, Linked

LEMMA CallbackBegun ==
  ASSUME TypeInv, BegunInv, NEW s \in Sessions, Callback(s), ~Accepted(s), ~OnCharacteristicWrite(s)
  PROVE  BegunInv'
<1>1. CASE OnConnected(s) \/ OnMtuChanged(s) \/ OnServicesDiscovered(s) \/ OnDescriptorWrite(s)
  <2>1. /\ TypeInv' /\ (UNCHANGED todo \/ Closes(s, s))
        /\ link[s] \in Alive /\ \E l \in Alive : link' = [link EXCEPT ![s] = l]
    BY <1>1, OnConnectedType, OnMtuChangedType, OnServicesDiscoveredType, OnDescriptorWriteType
  <2>2. UNCHANGED <<gatts, pendingSessions, sessionTimeouts, opens>>
    BY <1>1 DEF OnConnected, OnMtuChanged, OnServicesDiscovered, OnDescriptorWrite, setup
  <2>3. Settles
    BY <2>1, <2>2 DEF Settles, gatts, opens, Linked, Alive, TypeInv, RadioOK
  <2>4. Begun(s)
    BY <2>1, AliveLinked DEF BegunInv
  <2> QED BY <2>1, <2>3, <2>4, ClosesEnds, ThreadNames, OtherBegun
<1>2. CASE OnServerMtuChanged(s)
  <2>1. TypeInv'
    BY <1>2, OnServerMtuChangedType
  <2>2. Settles /\ UNCHANGED todo
    BY <1>2 DEF OnServerMtuChanged, Settles, radio, gatts, opens
  <2> QED BY <2>1, <2>2, OtherBegun
<1>3. CASE OnDisconnected(s)
  <2>1. /\ TypeInv' /\ link[s] \in Alive /\ link' = [link EXCEPT ![s] = "gone"]
        /\ UNCHANGED <<stops, selectedMode, gatts, setup, writes, opens>>
        /\ UNCHANGED todo \/ EndsOnly(s, s)
    BY <1>3, OnDisconnectedType, ClosesEnds
  <2>2. Linked(s) /\ Begun(s)
    BY <2>1, AliveLinked DEF BegunInv
  <2>3. Settles
    BY <2>1, <2>2 DEF Settles, gatts, setup, opens, Linked, TypeInv, RadioOK
  <2> QED BY <2>1, <2>2, <2>3, ThreadNames, OtherBegun
<1>4. CASE ClassicLost(s)
  <2>1. /\ TypeInv' /\ s \in classicSockets /\ EndsOnly(s, s)
        /\ classicSockets' = classicSockets \ {s} /\ link' = [link EXCEPT ![s] = "gone"]
        /\ UNCHANGED <<stops, selectedMode, air, clientGatts, serverDevices, setup, writes, opens>>
    BY <1>4, ClassicLostType
  <2>2. Linked(s) /\ Begun(s)
    BY <2>1 DEF BegunInv
  <2>3. Settles
    BY <2>1, <2>2 DEF Settles, setup, opens, Linked, TypeInv, RadioOK
  <2> QED BY <2>1, <2>2, <2>3, ThreadNames, OtherBegun
<1> QED BY <1>1, <1>2, <1>3, <1>4 DEF Callback

LEMMA KnownBegun ==
  ASSUME TypeInv, BegunInv, NEW s \in Sessions, Known(s)
  PROVE  Begun(s)
<1>1. link[s] # "calling" /\ opened[s] # "waiting"
  BY DEF Known, BegunInv
<1>2. ~PutAhead(s)
  <2> SUFFICES ASSUME PutAhead(s) PROVE FALSE
    OBVIOUS
  <2>1. PICK k \in 1..Len(todo["module"]) : todo["module"][k].op = "put" /\ todo["module"][k].s = s
    BY DEF PutAhead
  <2>2. StepBegun(todo["module"][k])
    BY ThreadNames DEF BegunInv
  <2> QED BY <1>1, <2>1, <2>2 DEF StepBegun
<1> QED BY <1>1, <1>2 DEF Known, Begun

LEMMA EndBegun ==
  ASSUME TypeInv, BegunInv, NEW s \in Sessions, CloseSession(s) \/ Timeout(s)
  PROVE  BegunInv'
<1>1. TypeInv' /\ \E t \in Threads : EndsOnly(t, s)
  BY CloseSessionType, TimeoutType, ClosesEnds, ThreadNames
<1>2. Begun(s)
  BY CloseSessionType, TimeoutType, KnownBegun DEF BegunInv
<1>3. Settles
  BY DEF CloseSession, Timeout, Settles, radio, gatts, setup, opens
<1> QED BY <1>1, <1>2, <1>3, OtherBegun

LEMMA AdvertisingBegun ==
  ASSUME TypeInv, BegunInv, AdvertisingUnavailable
  PROVE  BegunInv'
<1>1. TypeInv' /\ UNCHANGED todo
  BY AdvertisingType DEF AdvertisingUnavailable
<1>2. \A r \in Sessions : link'[r] = link[r] \/ (Linked(r) /\ Linked(r)')
  BY ClosedLinks DEF AdvertisingUnavailable
<1>3. Settles
  BY <1>2 DEF AdvertisingUnavailable, Settles, setup, opens
<1> QED BY <1>1, <1>3, OtherBegun

\* Steps that suppose nothing.
LEMMA FreshBegun ==
  ASSUME TypeInv, TypeInv', BegunInv, Settles, NEW t \in Threads, NEW T \in Seq(StepRecord), Starts(t, T),
         \A k \in 1..Len(T) : T[k].op \notin OpeningOps \cup ClosingOps
  PROVE  BegunInv'
<1>1. todo'[t] = T /\ \A u \in Threads : u # t => todo'[u] = todo[u]
  BY DEF Starts, TypeInv, TodoInv
<1>2. StepsKept
  BY <1>1, OthersKept DEF NewStep
<1>3. T # <<>> => Head(T).op # "putGatt"
  <2>1. T # <<>> => Head(T) = T[1] /\ 1 \in 1..Len(T)
    BY TailElements
  <2> QED BY <2>1 DEF OpeningOps
<1>4. \A u \in Threads : HeadLinked(u)
  BY <1>1, <1>3 DEF HeadLinked, BegunInv
<1> QED BY <1>2, <1>4, BegunSettles

LEMMA FreshCalls ==
  ASSUME TypeInv, (\E w \in Records : SendRecord(w)) \/ (\E s \in Sessions : OnCharacteristicWrite(s))
                  \/ StopRelayOn("module") \/ StopRelayOn("main")
  PROVE  /\ TypeInv' /\ LeavesSetUp
         /\ \E t \in Threads : \E T \in Seq(StepRecord) :
              /\ Starts(t, T) /\ \A k \in 1..Len(T) : T[k].op \notin OpeningOps \cup ClosingOps
              /\ Len(T) \in Nat \ {0} /\ T[1].op \notin PastOps
<1>1. CASE \E w \in Records : SendRecord(w)
  <2>1. PICK w \in Records : SendRecord(w)
    BY <1>1
  <2>2. TypeInv' /\ UNCHANGED <<radio, gatts, setup, opens>>
    BY <2>1, SendRecordType
  <2>3. \E T \in Seq(StepRecord) : Starts("module", T) /\ Len(T) = 1 /\ T[1].op = "admit"
    BY <2>1, SendRecordType
  <2>4. LeavesSetUp
    BY <2>2 DEF LeavesSetUp, radio, gatts, setup, opens
  <2> QED BY <2>2, <2>3, <2>4, ThreadNames DEF OpeningOps, ClosingOps, SettleOps, PastOps
<1>2. CASE \E s \in Sessions : OnCharacteristicWrite(s)
  <2>1. PICK s \in Sessions : OnCharacteristicWrite(s)
    BY <1>2
  <2>2. TypeInv' /\ UNCHANGED <<link, gatts, setup, opens>>
    BY <2>1, OnCharacteristicWriteType
  <2>3. \E T \in Seq(StepRecord) : Starts(s, T) /\ Len(T) = 1 /\ T[1].op \in {"completed", "failed"}
    BY <2>1, OnCharacteristicWriteType
  <2>4. LeavesSetUp
    BY <2>2 DEF LeavesSetUp, gatts, setup, opens
  <2> QED BY <2>2, <2>3, <2>4, ThreadNames DEF OpeningOps, ClosingOps, SettleOps, PastOps
<1>3. CASE StopRelayOn("module") \/ StopRelayOn("main")
  <2>1. PICK t \in {"module", "main"} : StopRelayOn(t)
    BY <1>3
  <2>2. TypeInv' /\ UNCHANGED <<link, gatts, setup, opens>>
    BY <2>1, StopRelayType
  <2>3. PICK T \in Seq(StepRecord) : /\ Starts(t, T) /\ Len(T) = 8 /\ T[1].op = "stopGatts"
                                     /\ \A k \in 1..8 : T[k].op \in StopOps
    BY <2>1, StopRelayType
  <2>4. LeavesSetUp
    BY <2>2 DEF LeavesSetUp, gatts, setup, opens
  <2>5. /\ \A k \in 1..Len(T) : T[k].op \notin OpeningOps \cup ClosingOps
        /\ Len(T) \in Nat \ {0} /\ T[1].op \notin PastOps
    BY <2>3 DEF OpeningOps, ClosingOps, SettleOps, PastOps, StopOps
  <2>6. t \in Threads
    BY ThreadNames
  <2> QED BY <2>2, <2>3, <2>4, <2>5, <2>6
<1> QED BY <1>1, <1>2, <1>3

LEMMA FreshCallsBegun ==
  ASSUME TypeInv, BegunInv,
         (\E w \in Records : SendRecord(w)) \/ (\E s \in Sessions : OnCharacteristicWrite(s))
         \/ StopRelayOn("module") \/ StopRelayOn("main")
  PROVE  BegunInv'
<1>1. TypeInv' /\ Settles
  BY FreshCalls, LeavesBegun
<1>2. PICK t \in Threads : \E T \in Seq(StepRecord) :
        Starts(t, T) /\ \A k \in 1..Len(T) : T[k].op \notin OpeningOps \cup ClosingOps
  BY FreshCalls
<1> QED BY <1>1, <1>2, FreshBegun

\* A connection that comes up, of a session that is not about to be opened.
LEMMA ArrivalBegun ==
  ASSUME TypeInv, TypeInv', BegunInv, NEW s \in Sessions, NEW l \in {"up", "gone"}, link' = [link EXCEPT ![s] = l],
         UNCHANGED <<clientGatts, pendingSessions, sessionTimeouts, todo>>,
         \/ link[s] = "none" /\ opened[s] = "no" /\ UNCHANGED opened
         \/ link[s] = "calling" /\ \E how \in {"resolved", "rejected"} : opened' = [opened EXCEPT ![s] = how],
         serverDevices' \subseteq serverDevices \cup {s}, classicSockets' \subseteq classicSockets \cup {s},
         s \in classicSockets' => opened'[s] # "waiting"
  PROVE  BegunInv'
<1>1. /\ \A r \in Sessions : link'[r] = IF r = s THEN l ELSE link[r]
      /\ \A r \in Sessions : r # s => opened'[r] = opened[r]
      /\ link'[s] \notin {"none", "calling"} /\ (opened'[s] = "no" => opened[s] = "no")
  BY DEF TypeInv, RadioOK, SetupOK
<1>2. StepsKept /\ Forward
  BY <1>1, SameSteps DEF Forward, Linked
<1>3. ~PutAhead(s)'
  <2> SUFFICES ASSUME PutAhead(s)' PROVE FALSE
    OBVIOUS
  <2>1. PutAhead(s) /\ opened[s] # "no"
    BY <1>2, PutAheadOld, PutAheadFacts
  <2>2. PICK k \in 1..Len(todo["module"]) : todo["module"][k].op = "put" /\ todo["module"][k].s = s
    BY <2>1 DEF PutAhead
  <2>3. StepBegun(todo["module"][k])
    BY ThreadNames DEF BegunInv
  <2> QED BY <2>1, <2>2, <2>3 DEF StepBegun
<1>4. Begun(s)'
  BY <1>1, <1>3 DEF Begun
<1>5. \A r \in Sessions : Linked(r)' => Linked(r) \/ Begun(r)'
  BY <1>1, <1>4 DEF Linked
<1>6. HeadsLinked
  <2> SUFFICES ASSUME NEW t \in Threads, todo[t] # <<>>, Head(todo[t]).op = "putGatt"
               PROVE  link'[Head(todo[t]).s] \notin {"none", "calling"}
    BY DEF HeadsLinked
  <2>1. Linked(Head(todo[t]).s) /\ Head(todo[t]).s \in Sessions
    BY OpeningHead DEF OpeningOps
  <2> QED BY <1>1, <2>1 DEF Linked
<1>7. \A t \in Threads : \A k \in 1..Len(todo'[t]) :
        todo'[t][k].op = "connect" => link'[todo'[t][k].s] = link[todo'[t][k].s]
  <2> SUFFICES ASSUME NEW t \in Threads, NEW k \in 1..Len(todo[t]), todo[t][k].op = "connect", todo[t][k].s = s
               PROVE  FALSE
    <3> SUFFICES ASSUME NEW t \in Threads, NEW k \in 1..Len(todo[t]), todo[t][k].op = "connect"
                 PROVE  link'[todo[t][k].s] = link[todo[t][k].s]
      OBVIOUS
    <3>1. todo[t][k].s \in Sessions
      BY FirstStep DEF StepShape, StopOps, PastOps
    <3> QED BY <1>1, <3>1
  <2>1. StepBegun(todo[t][k]) /\ StepFits(todo[t][k], queues, opened)
    BY FirstStep DEF BegunInv
  <2> QED BY <2>1 DEF StepBegun, StepFits, OpeningOps
<1>8. \A r \in classicSockets' : opened'[r] # "waiting"
  BY <1>1 DEF BegunInv, TypeInv, SetupOK
<1>9. \A r \in Sessions : opened'[r] # opened[r] => link'[r] # "calling" /\ ~PutAhead(r)'
  BY <1>1, <1>3
<1>10. \A r \in clientGatts' \cup serverDevices' \cup classicSockets' :
         r \in clientGatts \cup serverDevices \cup classicSockets \/ Linked(r)'
  BY <1>1 DEF Linked
<1> QED BY <1>2, <1>5, <1>6, <1>7, <1>8, <1>9, <1>10, BegunKept

LEMMA ArrivalsBegun ==
  ASSUME TypeInv, BegunInv, NEW s \in Sessions, Accepted(s) \/ ClassicCall(s)
  PROVE  BegunInv'
<1>1. TypeInv'
  BY AcceptedType, ClassicConnectedType, ClassicRefusedType DEF ClassicCall
<1>2. CASE Accepted(s)
  <2>1. s \notin classicSockets
    BY <1>2 DEF Accepted, BegunInv, Linked
  <2> QED BY <1>1, <1>2, <2>1, ArrivalBegun DEF Accepted, opens
<1>3. CASE ClassicConnected(s)
  <2>1. opened'[s] # "waiting"
    BY <1>3 DEF ClassicConnected, TypeInv, SetupOK
  <2>2. UNCHANGED <<clientGatts, serverDevices, pendingSessions, sessionTimeouts, todo>>
    BY <1>3 DEF ClassicConnected
  <2>3. /\ link' = [link EXCEPT ![s] = "up"] /\ classicSockets' = classicSockets \cup {s}
        /\ \/ link[s] = "none" /\ opened[s] = "no" /\ UNCHANGED opened
           \/ link[s] = "calling" /\ opened' = [opened EXCEPT ![s] = "resolved"]
    BY <1>3 DEF ClassicConnected
  <2> QED BY <1>1, <2>1, <2>2, <2>3, ArrivalBegun
<1>4. CASE ClassicRefused(s)
  <2>1. s \notin classicSockets
    BY <1>4 DEF ClassicRefused, BegunInv, Linked
  <2> QED BY <1>1, <1>4, <2>1, ArrivalBegun DEF ClassicRefused, gatts, setup
<1> QED BY <1>2, <1>3, <1>4 DEF ClassicCall

\* A session not heard of yet: nothing is on the tables, and no step is left.
LEMMA Unheard ==
  ASSUME TypeInv, BegunInv, NEW s \in Sessions, opened[s] = "no", link[s] = "none"
  PROVE  /\ ~Begun(s) /\ ~Linked(s) /\ ~PutAhead(s) /\ s \notin pendingSessions \cup sessionTimeouts
         /\ s \notin clientGatts \cup serverDevices \cup classicSockets
         /\ \A t \in Threads : \A k \in 1..Len(todo[t]) :
              todo[t][k].op \in OpeningOps \cup ClosingOps => todo[t][k].s # s
<1>1. ~Begun(s) /\ ~Linked(s)
  BY DEF Begun, Linked
<1>2. ~PutAhead(s)
  BY PutAheadFacts
<1>3. s \notin pendingSessions \cup sessionTimeouts /\ s \notin clientGatts \cup serverDevices \cup classicSockets
  BY <1>1 DEF BegunInv
<1>4. ASSUME NEW t \in Threads, NEW k \in 1..Len(todo[t]), todo[t][k].op \in OpeningOps \cup ClosingOps,
             todo[t][k].s = s
      PROVE  FALSE
  <2>1. StepBegun(todo[t][k]) /\ StepFits(todo[t][k], queues, opened)
    BY FirstStep DEF BegunInv
  <2> QED BY <1>1, <1>4, <2>1 DEF StepBegun, StepFits
<1> QED BY <1>1, <1>2, <1>3, <1>4

LEMMA OpenSessionBegun ==
  ASSUME TypeInv, BegunInv, NEW s \in Sessions, OpenSession(s)
  PROVE  BegunInv'
<1>1. /\ TypeInv' /\ opened[s] = "no" /\ link[s] = "none"
      /\ UNCHANGED <<clientGatts, serverDevices, classicSockets, pendingSessions, sessionTimeouts>>
  BY OpenSessionType DEF gatts, setup
<1>2. /\ ~Begun(s) /\ ~Linked(s) /\ ~PutAhead(s) /\ s \notin pendingSessions \cup sessionTimeouts
      /\ s \notin clientGatts \cup serverDevices \cup classicSockets
      /\ \A t \in Threads : \A k \in 1..Len(todo[t]) :
           todo[t][k].op \in OpeningOps \cup ClosingOps => todo[t][k].s # s
  BY <1>1, Unheard
<1>3. ASSUME NEW r \in Sessions, r # s
      PROVE  link'[r] = link[r] /\ opened'[r] = opened[r]
  BY <1>3, OpenSessionType DEF TypeInv, RadioOK, SetupOK
<1>4. CASE opened' = [opened EXCEPT ![s] = "rejected"] /\ UNCHANGED <<link, todo>>
  <2>1. StepsKept /\ Forward
    BY <1>4, SameSteps DEF Forward, TypeInv, SetupOK
  <2>2. HeadsLinked
    BY <1>4 DEF HeadsLinked, BegunInv, Linked
  <2>3. ~PutAhead(s)'
    BY <1>2, <2>1, PutAheadOld
  <2>4. \A r \in Sessions : opened'[r] # opened[r] => link'[r] # "calling" /\ ~PutAhead(r)'
    BY <1>1, <1>3, <1>4, <2>3
  <2>5. \A r \in classicSockets' : opened'[r] # "waiting"
    BY <1>1, <1>2, <1>3 DEF BegunInv, TypeInv, SetupOK
  <2>6. \A r \in Sessions : Linked(r)' => Linked(r) \/ Begun(r)'
    BY <1>4 DEF Linked
  <2> QED BY <1>1, <1>4, <2>1, <2>2, <2>4, <2>5, <2>6, BegunKept
<1>5. ASSUME opened' = [opened EXCEPT ![s] = "waiting"], link'[s] \in {"none", "calling"},
             \A r \in Sessions : r # s => (PutAhead(r)' => PutAhead(r)),
             \A t \in Threads : \A k \in 1..Len(todo'[t]) :
               \/ OldStep(todo'[t][k])
               \/ todo'[t][k].op \in OpeningOps /\ todo'[t][k].s = s /\ link'[s] = "none",
             \A t \in Threads : todo'[t] # <<>> /\ Head(todo'[t]).op = "putGatt" => todo'[t] = todo[t]
      PROVE  BegunInv'
  <2>1. opened'[s] = "waiting"
    BY <1>5 DEF TypeInv, SetupOK
  <2>2. \A r \in Sessions : (Begun(r) => r # s /\ Begun(r)') /\ (Linked(r) <=> Linked(r)') /\ (Linked(r)' => r # s)
    BY <1>2, <1>3, <1>5 DEF Begun, Linked
  <2>3. \A r \in Sessions : Linked(r)' => Begun(r)'
    BY <2>2 DEF BegunInv
  <2>4. \A r \in Sessions : link'[r] = "calling" => opened'[r] = "waiting"
    BY <1>3, <2>1 DEF BegunInv
  <2>5. \A r \in pendingSessions' \cup sessionTimeouts' : Begun(r)'
    BY <1>1, <2>2 DEF BegunInv, TypeInv, SetupOK
  <2>6. \A r \in clientGatts' \cup serverDevices' \cup classicSockets' : Linked(r)'
    BY <1>1, <2>2 DEF BegunInv, TypeInv, SetupOK
  <2>7. \A r \in classicSockets' : opened'[r] # "waiting"
    BY <1>1, <1>2, <1>3 DEF BegunInv, TypeInv, SetupOK
  <2>8. ASSUME NEW t \in Threads, NEW k \in 1..Len(todo'[t])
        PROVE  StepBegun(todo[t][k])'
    <3>1. PICK e \in StepRecord : e = todo'[t][k] /\ StepShape(t, e)
      BY <1>1, <2>8 DEF TypeInv, TodoInv, ShapeOf, StepShape
    <3>2. CASE e.op \in OpeningOps /\ e.s = s /\ link'[s] = "none"
      <4>1. StepBegun(e)'
        BY <1>1, <1>2, <2>1, <3>2 DEF StepBegun, OpeningOps, ClosingOps, SettleOps
      <4> QED BY <3>1, <4>1
    <3>3. CASE OldStep(e)
      <4>1. StepBegun(e) /\ (e.op \in OpeningOps \cup ClosingOps => e.s # s)
        BY <1>2, <3>3 DEF OldStep, BegunInv
      <4>2. e.op \in OpeningOps \cup ClosingOps => e.s \in Sessions
        BY <3>1 DEF StepShape, ClosingOps, SettleOps, OpeningOps, StopOps, PastOps
      <4>3. e.op \in ClosingOps => Begun(e.s)'
        BY <2>2, <4>1, <4>2 DEF StepBegun
      <4>4. StepBegun(e)'
        BY <1>1, <1>3, <4>1, <4>2, <4>3 DEF StepBegun, OpeningOps
      <4> QED BY <3>1, <4>4
    <3> QED BY <1>5, <3>1, <3>2, <3>3
  <2>9. \A t \in Threads : \A k \in 1..Len(todo'[t]) : StepBegun(todo[t][k])'
    BY <2>8
  <2>10. ASSUME NEW t \in Threads, todo'[t] # <<>>, Head(todo'[t]).op = "putGatt"
         PROVE  Linked(Head(todo[t]).s)'
    <3>1. todo'[t] = todo[t] /\ todo[t] # <<>>
      BY <1>5, <2>10
    <3>2. PICK v \in Sessions : v = Head(todo[t]).s /\ Linked(v)
      BY <2>10, <3>1, OpeningHead DEF OpeningOps
    <3> QED BY <2>2, <3>1, <3>2
  <2> QED BY <2>3, <2>4, <2>5, <2>6, <2>7, <2>9, <2>10 DEF BegunInv
<1>6. CASE opened' = [opened EXCEPT ![s] = "waiting"] /\ link' = [link EXCEPT ![s] = "calling"] /\ UNCHANGED todo
  <2>1. link'[s] = "calling" /\ \A r : PutAhead(r)' => PutAhead(r)
    BY <1>6 DEF TypeInv, RadioOK, PutAhead
  <2> QED BY <1>5, <1>6, <2>1 DEF OldStep
<1>7. CASE /\ opened' = [opened EXCEPT ![s] = "waiting"] /\ UNCHANGED link
           /\ \E T \in Seq(StepRecord) :
                /\ Starts("module", T) /\ Plan(T, <<"put", "schedule", "connect", "putGatt">>, s)
  <2>1. PICK T \in Seq(StepRecord) : Starts("module", T) /\ Plan(T, <<"put", "schedule", "connect", "putGatt">>, s)
    BY <1>7
  <2>2. todo'["module"] = T /\ \A u \in Threads : u # "module" => todo'[u] = todo[u]
    BY <2>1, ThreadNames DEF Starts, TypeInv, TodoInv
  <2>3. /\ Len(T) = 4 /\ T[1].op = "put" /\ T[2].op = "schedule" /\ T[3].op = "connect" /\ T[4].op = "putGatt"
        /\ \A k \in 1..4 : T[k].s = s
    BY <2>1 DEF Plan
  <2>4. T # <<>> /\ Head(T) = T[1]
    <3>1. Len(<<>>) = 0 /\ <<>> \in Seq(StepRecord)
      BY EmptySeq
    <3>2. Len(T) = 4
      BY <2>3
    <3>3. T # <<>>
      BY <3>1, <3>2
    <3> QED BY <3>3, TailElements
  <2>5. \A r \in Sessions : r # s => ~PutAhead(r)'
    BY <2>2, <2>3 DEF PutAhead
  <2>6. \A t \in Threads : \A k \in 1..Len(todo'[t]) :
          \/ OldStep(todo'[t][k])
          \/ todo'[t][k].op \in OpeningOps /\ todo'[t][k].s = s /\ link'[s] = "none"
    <3>1. \A k \in 1..Len(T) : T[k].op \in OpeningOps /\ T[k].s = s /\ link'[s] = "none"
      BY <1>1, <1>7, <2>3 DEF OpeningOps
    <3>2. \A u \in Threads : u # "module" => \A k \in 1..Len(todo'[u]) : OldStep(todo'[u][k])
      BY <2>2 DEF OldStep
    <3> QED BY <2>2, <3>1, <3>2
  <2>7. \A t \in Threads : todo'[t] # <<>> /\ Head(todo'[t]).op = "putGatt" => todo'[t] = todo[t]
    BY <2>2, <2>3, <2>4
  <2> QED BY <1>1, <1>5, <1>7, <2>5, <2>6, <2>7
<1> QED BY <1>4, <1>6, <1>7, OpenSessionType

LEMMA InitBegun == Init => BegunInv
<1> SUFFICES ASSUME Init PROVE BegunInv
  OBVIOUS
<1>1. \A t \in Threads : Len(todo[t]) = 0 /\ todo[t] = <<>>
  BY EmptySeq DEF Init
<1> QED BY <1>1 DEF Init, BegunInv, Linked

LEMMA NextBegun == TypeInv /\ BegunInv /\ [Next]_vars => BegunInv'
<1> SUFFICES ASSUME TypeInv, BegunInv, [Next]_vars PROVE BegunInv'
  OBVIOUS
<1>1. CASE Call
  BY <1>1, OpenSessionBegun, EndBegun, FreshCallsBegun DEF Call, StopRelay
<1>2. ASSUME NEW t \in Threads, Run(t) PROVE BegunInv'
  <2>1. PICK s : s = Head(todo[t]).s
    OBVIOUS
  <2>2. todo[t] # <<>>
    BY <1>2 DEF Run, Idle
  <2>3. CASE \/ Put(t, s) \/ Schedule(t, s) \/ PutGatt(t, s) \/ Connect(t, s)
    BY <2>1, <2>2, <2>3, OpeningBegun, ConnectBegun
  <2>4. CASE \/ CancelTimeout(t, s) \/ SettlePending(t, s) \/ Drop(t, s) \/ DropServer(t, s) \/ Report(t, s)
             \/ StopGatts(t) \/ StopOpens(t) \/ ClearRest(t)
    BY <2>1, <2>2, <2>4, ClosesBegun
  <2>5. CASE \/ Admit(t, s) \/ GetOrPut(t, s) \/ Add(t, s) \/ CheckActive(t, s) \/ GetQueue(t, s) \/ Poll(t, s)
             \/ RemoveQueue(t, s) \/ SetActive(t, s) \/ Write(t, s) \/ CompleteWrite(t, s)
    <3>1. TypeInv' /\ Goes(t) /\ Settles /\ Head(todo[t]).op \in SendingOps
      BY <2>1, <2>2, <2>5, SendsGo, LeavesBegun
    <3> QED BY <3>1, GoesBegun DEF SendingOps, CarryOps
  <2>6. CASE FailActive(t, s) \/ FailQueue(t, s) \/ Drain(t, s) \/ StopActive(t) \/ StopQueues(t)
    <3>1. TypeInv' /\ Goes(t) /\ Settles /\ Head(todo[t]).op # "connect"
      BY <2>1, <2>2, <2>6, FailsGo, LeavesBegun DEF PastOps
    <3> QED BY <3>1, GoesBegun
  <2> QED BY <1>2, <2>1, <2>3, <2>4, <2>5, <2>6 DEF Run, SessionStep
<1>3. ASSUME NEW s \in Sessions, Callback(s) \/ ClassicCall(s) \/ Timeout(s) PROVE BegunInv'
  BY <1>3, CallbackBegun, ArrivalsBegun, EndBegun, FreshCallsBegun
<1>4. CASE NotificationStop \/ AdvertisingUnavailable
  BY <1>4, FreshCallsBegun, AdvertisingBegun DEF NotificationStop
<1>5. CASE UNCHANGED vars
  <2>1. TypeInv' /\ LeavesSetUp /\ UNCHANGED todo
    BY <1>5, NextType DEF vars, LeavesSetUp, radio, gatts, setup, opens
  <2> QED BY <2>1, LeavesBegun, OtherBegun
<1> QED BY <1>1, <1>2, <1>3, <1>4, <1>5 DEF Next

----------------------------------------------------------------------------
(* Opens that wait are tended.                                             *)

\* What is settled stays so, and what is left alone is not lost sight of.
Tends ==
  /\ \A s \in Sessions : Over(s) => Over(s)'
  /\ \A s \in Sessions : link[s] = "calling" => link'[s] = "calling" \/ Over(s)'
  /\ \A s \in pendingSessions : s \in pendingSessions' \/ Over(s)'
  /\ \A s \in sessionTimeouts \cap pendingSessions' : s \in sessionTimeouts' \/ Settling(s)' \/ Over(s)'

LEMMA TendedKept ==
  ASSUME TypeInv, TypeInv', TendedInv, Tends,
         \A s \in Sessions : PutAhead(s) => PutAhead(s)' \/ s \in pendingSessions' \/ Over(s)',
         \A s \in pendingSessions' :
           \/ Settling(s)'
           \/ s \in pendingSessions /\ (Settling(s) => Settling(s)' \/ s \in sessionTimeouts' \/ Over(s)'),
         \A t \in Threads : todo'[t] # <<>> /\ Head(todo'[t]).op \in PastOps => \A s \in pendingSessions' : Over(s)',
         \A t \in Threads : \A k \in 1..Len(todo'[t]) : \A s \in Sessions :
           s = todo'[t][k].s /\ todo'[t][k].op \in {"drop", "report"} /\ SettledBefore(todo'[t], k) => Over(s)'
  PROVE  TendedInv'
<1>1. ASSUME NEW s \in Sessions, s \notin overtaken', opened'[s] = "waiting"
      PROVE  link'[s] = "calling" \/ PutAhead(s)' \/ s \in pendingSessions'
  <2>1. ~Over(s)'
    BY <1>1 DEF Over
  <2>2. s \notin overtaken /\ opened[s] = "waiting"
    BY <2>1 DEF Tends, Over
  <2>3. link[s] = "calling" \/ PutAhead(s) \/ s \in pendingSessions
    BY <2>2 DEF TendedInv
  <2> QED BY <2>1, <2>3 DEF Tends
<1>2. ASSUME NEW s \in pendingSessions', ~Over(s)'
      PROVE  s \in sessionTimeouts' \/ Settling(s)'
  <2>1. s \in Sessions
    BY DEF TypeInv, SetupOK
  <2>2. ~Over(s)
    BY <1>2, <2>1 DEF Tends
  <2>3. s \in pendingSessions => s \in sessionTimeouts \/ Settling(s)
    BY <2>2 DEF TendedInv
  <2> QED BY <1>2, <2>3 DEF Tends
<1>3. ASSUME NEW t \in Threads, NEW k \in 1..Len(todo'[t]), todo'[t][k].op \in {"drop", "report"},
             SettledBefore(todo'[t], k)
      PROVE  Over(todo[t][k].s)'
  <2>1. PICK e : e = todo'[t][k] /\ StepShape(t, e)
    BY <1>3 DEF TypeInv, TodoInv, ShapeOf
  <2>2. e.s \in Sessions
    BY <1>3, <2>1 DEF StepShape, StopOps, PastOps
  <2>3. Over(e.s)'
    BY <1>3, <2>1, <2>2
  <2> QED BY <2>1, <2>3
<1> QED BY <1>1, <1>2, <1>3 DEF TendedInv

\* A step of a closing that comes next is of the same session.
LEMMA SecondStep ==
  ASSUME TypeInv, NEW t \in Threads, NEW k \in 1..Len(todo[t]), k # 1
  PROVE  /\ todo[t] # <<>> /\ Head(todo[t]) = todo[t][1] /\ 1 \in 1..Len(todo[t])
         /\ Precedes(Head(todo[t]), todo[t][k])
<1>1. todo[t] # <<>> /\ Head(todo[t]) = todo[t][1] /\ 1 \in 1..Len(todo[t]) /\ ShapeOf(t, todo[t])
  BY FirstStep
<1>2. 1 < k
  BY FirstStep
<1> QED BY <1>1, <1>2 DEF ShapeOf

LEMMA TendedByPop ==
  ASSUME TypeInv, TypeInv', TendedInv, Tends, pendingSessions' \subseteq pendingSessions,
         NEW t \in Threads, Pops(t), Head(todo[t]).op \notin {"put", "schedule"},
         Head(todo[t]).op \in SettleOps => \A s \in Sessions : s = Head(todo[t]).s => Over(s)',
         Head(todo[t]).op = "rejectOpens" => \A s \in pendingSessions' : Over(s)'
  PROVE  TendedInv'
<1>1. /\ \A u \in Threads : u # t => todo'[u] = todo[u]
      /\ Len(todo'[t]) = Len(todo[t]) - 1 /\ Len(todo[t]) \in Nat \ {0}
      /\ \A k \in 1..Len(todo'[t]) : k + 1 \in 1..Len(todo[t]) /\ todo'[t][k] = todo[t][k + 1]
  BY PopFacts
<1>2. todo[t] # <<>> /\ Head(todo[t]) = todo[t][1] /\ 1 \in 1..Len(todo[t])
  BY FirstStep DEF Pops
<1>3. ASSUME NEW s \in Sessions, PutAhead(s)
      PROVE  PutAhead(s)'
  <2>1. t # "module"
    BY <1>3, PutAheadFacts
  <2> QED BY <1>1, <1>3, <2>1, ThreadNames DEF PutAhead
<1>4. ASSUME NEW s \in pendingSessions', Settling(s)
      PROVE  Settling(s)' \/ Over(s)'
  <2>1. PICK u \in Threads : \E k \in DOMAIN todo[u] :
          todo[u][k].s = s /\ todo[u][k].op \in {"schedule", "resolvePending", "rejectPending"}
    BY <1>4 DEF Settling
  <2>2. PICK k \in 1..Len(todo[u]) :
          todo[u][k].s = s /\ todo[u][k].op \in {"schedule", "resolvePending", "rejectPending"}
    BY <2>1, FirstStep, LenProperties
  <2>3. CASE u # t
    BY <1>1, <2>1, <2>3 DEF Settling
  <2>4. CASE u = t /\ k = 1
    <3>1. Head(todo[t]).op \in SettleOps /\ Head(todo[t]).s = s
      BY <1>2, <2>2, <2>4 DEF SettleOps
    <3>2. s \in Sessions
      BY DEF TypeInv, SetupOK
    <3> QED BY <3>1, <3>2
  <2>5. CASE u = t /\ k # 1
    <3>1. k - 1 \in 1..Len(todo'[t]) /\ (k - 1) + 1 = k
      BY <1>1, <2>5
    <3>2. todo'[t][k - 1] = todo[t][k]
      BY <1>1, <3>1
    <3>3. k - 1 \in DOMAIN todo'[t]
      BY <3>1, LenProperties DEF TypeInv, TodoInv
    <3> QED BY <2>2, <2>5, <3>2, <3>3 DEF Settling
  <2> QED BY <2>3, <2>4, <2>5
<1>5. ASSUME NEW u \in Threads, todo'[u] # <<>>, Head(todo'[u]).op \in PastOps, NEW s \in pendingSessions'
      PROVE  Over(s)'
  <2>1. CASE u # t
    <3>1. Over(s)
      BY <1>1, <1>5, <2>1 DEF TendedInv
    <3> QED BY <3>1 DEF Tends, TypeInv, SetupOK
  <2>2. CASE u = t
    <3>1. Head(todo'[t]) = todo'[t][1] /\ 1 \in 1..Len(todo'[t])
      BY <1>5, <2>2, TailElements DEF TypeInv, TodoInv
    <3>2. Head(todo'[t]) = todo[t][2] /\ 2 \in 1..Len(todo[t])
      BY <1>1, <3>1
    <3>3. Precedes(todo[t][1], todo[t][2]) /\ Leads(todo[t][1], todo[t][2])
      <4>1. ShapeOf(t, todo[t]) /\ 1 + 1 = 2
        BY FirstStep
      <4> QED BY <1>2, <3>2, <4>1 DEF ShapeOf
    <3>4. Head(todo[t]).op \in PastOps \cup {"rejectOpens"}
      BY <1>2, <1>5, <2>2, <3>2, <3>3 DEF Precedes, Leads, StopOps, PastOps
    <3>5. CASE Head(todo[t]).op \in PastOps
      <4>1. Over(s)
        BY <1>2, <3>5 DEF TendedInv
      <4> QED BY <4>1 DEF Tends, TypeInv, SetupOK
    <3> QED BY <3>4, <3>5
  <2> QED BY <2>1, <2>2
<1>6. ASSUME NEW u \in Threads, NEW k \in 1..Len(todo'[u]), NEW s \in Sessions, s = todo'[u][k].s,
             todo'[u][k].op \in {"drop", "report"}, SettledBefore(todo'[u], k)
      PROVE  Over(s)'
  <2>1. CASE u # t
    <3>1. Over(s)
      BY <1>1, <1>6, <2>1 DEF TendedInv
    <3> QED BY <3>1 DEF Tends
  <2>2. CASE u = t
    <3>1. k + 1 \in 1..Len(todo[t]) /\ todo'[t][k] = todo[t][k + 1] /\ k + 1 # 1
      BY <1>1, <2>2
    <3>2. CASE Head(todo[t]).op \in SettleOps
      <4>1. Precedes(Head(todo[t]), todo[t][k + 1])
        BY <3>1, SecondStep
      <4>2. Head(todo[t]).s = s
        BY <1>6, <2>2, <3>1, <4>1 DEF Precedes
      <4> QED BY <3>2, <4>2
    <3>3. CASE Head(todo[t]).op \notin SettleOps
      <4>1. ASSUME NEW j \in 1..((k + 1) - 1)
            PROVE  todo[t][j].op \notin SettleOps
        <5>1. CASE j = 1
          BY <1>2, <3>3, <5>1
        <5>2. CASE j # 1
          <6>1. j - 1 \in 1..(k - 1) /\ j - 1 \in 1..Len(todo'[t]) /\ (j - 1) + 1 = j
            BY <1>1, <2>2, <5>2
          <6>2. todo'[t][j - 1] = todo[t][j]
            BY <1>1, <6>1
          <6> QED BY <1>6, <2>2, <6>1, <6>2 DEF SettledBefore
        <5> QED BY <5>1, <5>2
      <4>2. Over(s)
        BY <1>6, <2>2, <3>1, <4>1 DEF TendedInv, SettledBefore
      <4> QED BY <4>2 DEF Tends
    <3> QED BY <3>2, <3>3
  <2> QED BY <2>1, <2>2
<1> QED BY <1>3, <1>4, <1>5, <1>6, TendedKept

LEMMA TendedByClear ==
  ASSUME TypeInv, TypeInv', TendedInv, Tends, pendingSessions' \subseteq pendingSessions,
         NEW t \in Threads, Clears(t), Head(todo[t]).op \notin OpeningOps \cup {"cancelTimeout"},
         Head(todo[t]).op \in SettleOps => \A s \in Sessions : s = Head(todo[t]).s => Over(s)'
  PROVE  TendedInv'
<1>1. todo'[t] = <<>> /\ Len(todo'[t]) = 0 /\ \A u \in Threads : u # t => todo'[u] = todo[u]
  BY ClearFacts
<1>2. todo[t] # <<>> /\ Head(todo[t]) = todo[t][1] /\ 1 \in 1..Len(todo[t])
  BY FirstStep DEF Clears
<1>3. ASSUME NEW s \in Sessions, PutAhead(s)
      PROVE  PutAhead(s)'
  <2>1. t # "module"
    BY <1>3, PutAheadFacts DEF OpeningOps
  <2> QED BY <1>1, <1>3, <2>1, ThreadNames DEF PutAhead
<1>4. ASSUME NEW s \in pendingSessions', Settling(s)
      PROVE  Settling(s)' \/ Over(s)'
  <2>1. PICK u \in Threads : \E k \in DOMAIN todo[u] :
          todo[u][k].s = s /\ todo[u][k].op \in {"schedule", "resolvePending", "rejectPending"}
    BY <1>4 DEF Settling
  <2>2. PICK k \in 1..Len(todo[u]) :
          todo[u][k].s = s /\ todo[u][k].op \in {"schedule", "resolvePending", "rejectPending"}
    BY <2>1, FirstStep, LenProperties
  <2>3. CASE u # t
    BY <1>1, <2>1, <2>3 DEF Settling
  <2>4. CASE u = t
    <3>1. k # 1 => Precedes(Head(todo[t]), todo[t][k])
      BY <2>4, SecondStep
    <3>2. Head(todo[t]).op \in SettleOps /\ Head(todo[t]).s = s
      BY <1>2, <2>2, <2>4, <3>1 DEF Precedes, OpeningOps, SettleOps
    <3>3. s \in Sessions
      BY DEF TypeInv, SetupOK
    <3> QED BY <3>2, <3>3
  <2> QED BY <2>3, <2>4
<1>5. ASSUME NEW u \in Threads, todo'[u] # <<>>, Head(todo'[u]).op \in PastOps, NEW s \in pendingSessions'
      PROVE  Over(s)'
  <2>1. Over(s)
    BY <1>1, <1>5 DEF TendedInv
  <2> QED BY <2>1 DEF Tends, TypeInv, SetupOK
<1>6. ASSUME NEW u \in Threads, NEW k \in 1..Len(todo'[u]), NEW s \in Sessions, s = todo'[u][k].s,
             todo'[u][k].op \in {"drop", "report"}, SettledBefore(todo'[u], k)
      PROVE  Over(s)'
  <2>1. u # t
    BY <1>1, <1>6
  <2>2. Over(s)
    BY <1>1, <1>6, <2>1 DEF TendedInv
  <2> QED BY <2>2 DEF Tends
<1> QED BY <1>3, <1>4, <1>5, <1>6, TendedKept

LEMMA TendedBySwap ==
  ASSUME TypeInv, TypeInv', TendedInv, LeavesSetUp, NEW t \in Threads, Goes(t), ~Pops(t), ~Clears(t)
  PROVE  TendedInv'
<1>1. /\ todo'[t] # <<>> /\ Swaps(t, Head(todo'[t]))
      /\ Head(todo[t]).op \in SendingOps \cup {"failQueue"}
      /\ Head(todo'[t]).op \in SendingOps \cup {"drain"}
  BY DEF Goes
<1>2. /\ \A u \in Threads : u # t => todo'[u] = todo[u]
      /\ Len(todo'[t]) = Len(todo[t]) /\ Len(todo[t]) \in Nat \ {0} /\ todo'[t][1] = Head(todo'[t])
      /\ \A k \in 1..Len(todo[t]) : k # 1 => todo'[t][k] = todo[t][k]
  BY <1>1, SwapFacts
<1>3. todo[t] # <<>> /\ Head(todo[t]) = todo[t][1] /\ 1 \in 1..Len(todo[t])
  BY <1>1, FirstStep DEF Swaps
<1>4. Tends /\ \A s : Over(s)' <=> Over(s)
  BY DEF Tends, LeavesSetUp, Over
<1>5. ASSUME NEW s \in Sessions, PutAhead(s)
      PROVE  PutAhead(s)'
  <2>1. t # "module"
    BY <1>1, <1>5, PutAheadFacts DEF SendingOps, CarryOps
  <2> QED BY <1>2, <1>5, <2>1, ThreadNames DEF PutAhead
<1>6. ASSUME NEW s \in pendingSessions', Settling(s)
      PROVE  Settling(s)'
  <2>1. PICK u \in Threads : \E k \in DOMAIN todo[u] :
          todo[u][k].s = s /\ todo[u][k].op \in {"schedule", "resolvePending", "rejectPending"}
    BY <1>6 DEF Settling
  <2>2. PICK k \in 1..Len(todo[u]) :
          todo[u][k].s = s /\ todo[u][k].op \in {"schedule", "resolvePending", "rejectPending"}
    BY <2>1, FirstStep, LenProperties
  <2>3. CASE u # t
    BY <1>2, <2>1, <2>3 DEF Settling
  <2>4. CASE u = t
    <3>1. k # 1
      BY <1>1, <1>3, <2>2, <2>4 DEF SendingOps, CarryOps
    <3>2. todo'[t][k] = todo[t][k] /\ k \in 1..Len(todo'[t])
      BY <1>2, <2>4, <3>1
    <3>3. k \in DOMAIN todo'[t]
      BY <3>2, LenProperties DEF TypeInv, TodoInv
    <3> QED BY <2>2, <2>4, <3>2, <3>3 DEF Settling
  <2> QED BY <2>3, <2>4
<1>7. ASSUME NEW u \in Threads, todo'[u] # <<>>, Head(todo'[u]).op \in PastOps, NEW s \in pendingSessions'
      PROVE  Over(s)'
  <2>1. u # t
    BY <1>1, <1>7 DEF SendingOps, CarryOps, PastOps
  <2> QED BY <1>2, <1>4, <1>7, <2>1 DEF TendedInv, LeavesSetUp
<1>8. ASSUME NEW u \in Threads, NEW k \in 1..Len(todo'[u]), NEW s \in Sessions, s = todo'[u][k].s,
             todo'[u][k].op \in {"drop", "report"}, SettledBefore(todo'[u], k)
      PROVE  Over(s)'
  <2>1. CASE u # t
    BY <1>2, <1>4, <1>8, <2>1 DEF TendedInv
  <2>2. CASE u = t
    <3>1. k # 1
      BY <1>1, <1>2, <1>8, <2>2 DEF SendingOps, CarryOps
    <3>2. \A j \in 1..(k - 1) : todo[t][j].op \notin SettleOps
      <4> TAKE j \in 1..(k - 1)
      <4>1. CASE j = 1
        BY <1>1, <1>3, <4>1 DEF SendingOps, CarryOps, SettleOps
      <4>2. CASE j # 1
        BY <1>2, <1>8, <2>2, <4>2 DEF SettledBefore
      <4> QED BY <4>1, <4>2
    <3>3. Over(s)
      BY <1>2, <1>8, <2>2, <3>1, <3>2 DEF TendedInv, SettledBefore
    <3> QED BY <1>4, <3>3
  <2> QED BY <2>1, <2>2
<1>9. pendingSessions' = pendingSessions
  BY DEF LeavesSetUp
<1> QED BY <1>4, <1>5, <1>6, <1>7, <1>8, <1>9, TendedKept

\* A thread that starts, with an open that it settles or that is over; or none.
LEMMA TendedByStart ==
  ASSUME TypeInv, TypeInv', TendedInv, Tends, pendingSessions' \subseteq pendingSessions,
         NEW t \in Threads, NEW T \in Seq(StepRecord), Starts(t, T),
         T # <<>> => T[1].op \notin PastOps,
         \A k \in 1..Len(T) : \A s \in Sessions :
           s = T[k].s /\ T[k].op \in {"drop", "report"} /\ SettledBefore(T, k) => Over(s)'
  PROVE  TendedInv'
<1>1. todo[t] = <<>> /\ todo'[t] = T /\ \A u \in Threads : u # t => todo'[u] = todo[u]
  BY DEF Starts, TypeInv, TodoInv
<1>2. ASSUME NEW s \in Sessions, PutAhead(s)
      PROVE  PutAhead(s)'
  <2>1. t # "module"
    BY <1>1, <1>2, PutAheadFacts
  <2> QED BY <1>1, <1>2, <2>1, ThreadNames DEF PutAhead
<1>3. ASSUME NEW s \in pendingSessions', Settling(s)
      PROVE  Settling(s)'
  <2>1. PICK u \in Threads : \E k \in DOMAIN todo[u] :
          todo[u][k].s = s /\ todo[u][k].op \in {"schedule", "resolvePending", "rejectPending"}
    BY <1>3 DEF Settling
  <2>2. u # t
    BY <1>1, <2>1, FirstStep, LenProperties
  <2> QED BY <1>1, <2>1, <2>2 DEF Settling
<1>4. ASSUME NEW u \in Threads, todo'[u] # <<>>, Head(todo'[u]).op \in PastOps, NEW s \in pendingSessions'
      PROVE  Over(s)'
  <2>1. u # t
    <3>1. T # <<>> => Head(T) = T[1]
      BY TailElements
    <3> QED BY <1>1, <1>4, <3>1
  <2>2. Over(s)
    BY <1>1, <1>4, <2>1 DEF TendedInv
  <2> QED BY <2>2 DEF Tends, TypeInv, SetupOK
<1>5. ASSUME NEW u \in Threads, NEW k \in 1..Len(todo'[u]), NEW s \in Sessions, s = todo'[u][k].s,
             todo'[u][k].op \in {"drop", "report"}, SettledBefore(todo'[u], k)
      PROVE  Over(s)'
  <2>1. CASE u # t
    <3>1. Over(s)
      BY <1>1, <1>5, <2>1 DEF TendedInv
    <3> QED BY <3>1 DEF Tends
  <2>2. CASE u = t
    BY <1>1, <1>5, <2>2
  <2> QED BY <2>1, <2>2
<1> QED BY <1>2, <1>3, <1>4, <1>5, TendedKept

LEMMA TendedSame ==
  ASSUME TypeInv, TypeInv', TendedInv, Tends, pendingSessions' \subseteq pendingSessions, UNCHANGED todo
  PROVE  TendedInv'
<1>1. \A s : PutAhead(s)' <=> PutAhead(s)
  BY DEF PutAhead
<1>2. \A s : Settling(s)' <=> Settling(s)
  BY DEF Settling
<1>3. ASSUME NEW u \in Threads, todo'[u] # <<>>, Head(todo'[u]).op \in PastOps, NEW s \in pendingSessions'
      PROVE  Over(s)'
  <2>1. Over(s)
    BY <1>3 DEF TendedInv
  <2> QED BY <2>1 DEF Tends, TypeInv, SetupOK
<1>4. ASSUME NEW u \in Threads, NEW k \in 1..Len(todo'[u]), NEW s \in Sessions, s = todo'[u][k].s,
             todo'[u][k].op \in {"drop", "report"}, SettledBefore(todo'[u], k)
      PROVE  Over(s)'
  <2>1. Over(s)
    BY <1>4 DEF TendedInv
  <2> QED BY <2>1 DEF Tends
<1> QED BY <1>1, <1>2, <1>3, <1>4, TendedKept

LEMMA SettlesTends ==
  ASSUME TypeInv, Settles, overtaken \subseteq overtaken',
         \A s \in pendingSessions : s \in pendingSessions' \/ Over(s)',
         \A s \in sessionTimeouts \cap pendingSessions' : s \in sessionTimeouts' \/ Settling(s)' \/ Over(s)'
  PROVE  Tends /\ pendingSessions' \subseteq pendingSessions
<1>1. \A s \in Sessions : Over(s) => Over(s)'
  BY DEF Settles, Over
<1>2. \A s \in Sessions : link[s] = "calling" => link'[s] = "calling" \/ Over(s)'
  BY DEF Settles, Linked
<1> QED BY <1>1, <1>2 DEF Tends, Settles

LEMMA SendsTended ==
  ASSUME TypeInv, TypeInv', TendedInv, NEW t \in Threads, Goes(t), LeavesSetUp,
         Head(todo[t]).op \notin OpeningOps \cup SettleOps \cup {"cancelTimeout", "rejectOpens"}
  PROVE  TendedInv'
<1>1. Tends /\ pendingSessions' \subseteq pendingSessions
  BY LeavesBegun, SettlesTends DEF LeavesSetUp
<1>2. CASE Pops(t)
  BY <1>1, <1>2, TendedByPop DEF OpeningOps
<1>3. CASE Clears(t)
  BY <1>1, <1>3, TendedByClear
<1> QED BY <1>2, <1>3, TendedBySwap

\* What the step at the head supposes of its session.
LEMMA ClosingHead ==
  ASSUME TypeInv, BegunInv, TendedInv, NEW t \in Threads, todo[t] # <<>>, NEW s, s = Head(todo[t]).s
  PROVE  /\ Head(todo[t]).op \in ClosingOps => s \in Sessions /\ Begun(s)
         /\ Head(todo[t]).op \in {"drop", "report"} => Over(s)
         /\ Head(todo[t]).op \in PastOps => \A r \in pendingSessions : Over(r)
         /\ Head(todo[t]).op \in ClosingOps /\ s \notin pendingSessions => Over(s)
<1>1. /\ Head(todo[t]) = todo[t][1] /\ 1 \in 1..Len(todo[t]) /\ StepShape(t, Head(todo[t]))
      /\ StepBegun(Head(todo[t]))
  BY HeadFacts DEF TypeInv, BegunInv
<1>2. Head(todo[t]).op \in ClosingOps => s \in Sessions /\ Begun(s)
  BY <1>1 DEF StepShape, StepBegun, ClosingOps, SettleOps, StopOps, PastOps
<1>3. SettledBefore(todo[t], 1)
  BY DEF SettledBefore
<1>4. Head(todo[t]).op \in {"drop", "report"} => Over(s)
  BY <1>1, <1>3 DEF TendedInv
<1>5. Head(todo[t]).op \in PastOps => \A r \in pendingSessions : Over(r)
  BY DEF TendedInv
<1>6. s \in Sessions /\ Begun(s) /\ s \notin pendingSessions => Over(s)
  BY DEF TendedInv, Over, Begun
<1> QED BY <1>2, <1>4, <1>5, <1>6

\* What is left of a thread after a step.
LEMMA AfterPop ==
  ASSUME TypeInv, NEW t \in Threads, Pops(t)
  PROVE  /\ \A k \in 1..Len(todo[t]) : k # 1 =>
              k - 1 \in 1..Len(todo'[t]) /\ k - 1 \in DOMAIN todo'[t] /\ todo'[t][k - 1] = todo[t][k]
         /\ \A k \in 1..Len(todo'[t]) : \E j \in 1..Len(todo[t]) : j # 1 /\ todo'[t][k] = todo[t][j]
         /\ Len(todo[t]) # 1 => /\ 1 \in DOMAIN todo'[t] /\ todo'[t][1] = todo[t][2]
                                /\ Precedes(todo[t][1], todo[t][2]) /\ Leads(todo[t][1], todo[t][2])
         /\ todo'[t] # <<>> => 1 \in 1..Len(todo'[t]) /\ Head(todo'[t]) = todo'[t][1]
<1>1. /\ Len(todo'[t]) = Len(todo[t]) - 1 /\ Len(todo[t]) \in Nat \ {0}
      /\ \A k \in 1..Len(todo'[t]) : k + 1 \in 1..Len(todo[t]) /\ todo'[t][k] = todo[t][k + 1]
  BY PopFacts
<1>2. todo'[t] \in Seq(StepRecord)
  <2>1. todo'[t] = Tail(todo[t]) /\ todo[t] # <<>> /\ todo[t] \in Seq(StepRecord)
    BY DEF Pops, TypeInv, TodoInv
  <2> QED BY <2>1, TailElements
<1>3. DOMAIN todo'[t] = 1..Len(todo'[t])
  BY <1>2, LenProperties
<1>4. \A k \in 1..Len(todo[t]) : k # 1 => k - 1 \in 1..Len(todo'[t]) /\ todo'[t][k - 1] = todo[t][k]
  <2> TAKE k \in 1..Len(todo[t])
  <2> HAVE k # 1
  <2>1. k - 1 \in 1..Len(todo'[t]) /\ (k - 1) + 1 = k
    BY <1>1
  <2> QED BY <1>1, <2>1
<1>5. \A k \in 1..Len(todo'[t]) : \E j \in 1..Len(todo[t]) : j # 1 /\ todo'[t][k] = todo[t][j]
  <2> TAKE k \in 1..Len(todo'[t])
  <2>1. k + 1 \in 1..Len(todo[t]) /\ todo'[t][k] = todo[t][k + 1] /\ k + 1 # 1
    BY <1>1
  <2> QED BY <2>1
<1>6. todo'[t] # <<>> => 1 \in 1..Len(todo'[t]) /\ Head(todo'[t]) = todo'[t][1]
  BY <1>2, TailElements
<1>7. ASSUME Len(todo[t]) # 1
      PROVE  /\ 1 \in DOMAIN todo'[t] /\ todo'[t][1] = todo[t][2]
             /\ Precedes(todo[t][1], todo[t][2]) /\ Leads(todo[t][1], todo[t][2])
  <2>1. Len(todo'[t]) = Len(todo[t]) - 1 /\ Len(todo[t]) \in Nat \ {0}
    BY <1>1
  <2>2. 1 \in 1..Len(todo'[t]) /\ 1 \in 1..Len(todo[t]) /\ 2 \in 1..Len(todo[t])
    <3>1. PICK n \in Nat : n = Len(todo[t])
      BY <2>1
    <3>2. n # 0 /\ n # 1
      BY <1>7, <2>1, <3>1
    <3>3. PICK m \in Nat : m = Len(todo'[t]) /\ m = n - 1
      BY <2>1, <3>1, <3>2
    <3>4. 1 \in 1..m /\ 1 \in 1..n /\ 2 \in 1..n
      BY <3>2, <3>3
    <3> QED BY <3>1, <3>3, <3>4
  <2>3. todo'[t][1] = todo[t][2]
    BY <1>1, <2>2
  <2>4. ShapeOf(t, todo[t]) /\ 1 + 1 = 2
    BY FirstStep
  <2> QED BY <1>3, <2>2, <2>3, <2>4 DEF ShapeOf
<1> QED BY <1>3, <1>4, <1>5, <1>6, <1>7

\* After the timeout is cancelled the open is settled.
LEMMA CancelTimeoutTended ==
  ASSUME TypeInv, BegunInv, TendedInv, NEW t \in Threads, todo[t] # <<>>, NEW s, s = Head(todo[t]).s,
         CancelTimeout(t, s)
  PROVE  TendedInv'
<1>1. TypeInv' /\ Pops(t)
  BY CancelTimeoutType
<1>2. /\ Head(todo[t]).op = "cancelTimeout" /\ sessionTimeouts' = sessionTimeouts \ {s}
      /\ UNCHANGED <<radio, gatts, pendingSessions, opens>>
  BY DEF CancelTimeout, Runs
<1>3. Settling(s)'
  <2>1. Head(todo[t]) = todo[t][1] /\ ShapeOf(t, todo[t])
    BY FirstStep
  <2>2. Len(todo[t]) # 1
    <3>1. Ends(todo[t][Len(todo[t])])
      BY <2>1 DEF ShapeOf
    <3>2. todo[t][Len(todo[t])].op # "cancelTimeout"
      BY <3>1 DEF Ends
    <3>3. todo[t][1].op = "cancelTimeout"
      BY <1>2, <2>1
    <3> QED BY <3>2, <3>3
  <2>3. /\ 1 \in DOMAIN todo'[t] /\ todo'[t][1] = todo[t][2]
        /\ Precedes(todo[t][1], todo[t][2]) /\ Leads(todo[t][1], todo[t][2])
    BY <1>1, <2>2, AfterPop
  <2>4. todo'[t][1].s = s /\ todo'[t][1].op \in {"resolvePending", "rejectPending"}
    BY <1>2, <2>1, <2>3 DEF Precedes, Leads, SettleOps
  <2> QED BY <2>3, <2>4 DEF Settling
<1>4. Settles
  BY <1>2 DEF Settles, radio, gatts, opens
<1>5. Tends /\ pendingSessions' \subseteq pendingSessions
  BY <1>2, <1>3, <1>4, SettlesTends DEF opens
<1> QED BY <1>1, <1>2, <1>5, TendedByPop DEF SettleOps

LEMMA SettlePendingTended ==
  ASSUME TypeInv, BegunInv, TendedInv, NEW t \in Threads, todo[t] # <<>>, NEW s, s = Head(todo[t]).s,
         SettlePending(t, s)
  PROVE  TendedInv'
<1>1. /\ TypeInv' /\ s \in Sessions /\ Head(todo[t]).op \in SettleOps /\ pendingSessions' = pendingSessions \ {s}
      /\ UNCHANGED <<radio, gatts, sessionTimeouts, negotiatedMtu, writes, overtaken>>
      /\ \E how \in {"resolved", "rejected"} : OpenedMoves({s} \cap pendingSessions, how)
      /\ \/ Pops(t) /\ (s \in pendingSessions => opened'[s] # "waiting")
         \/ Clears(t) /\ s \in pendingSessions /\ opened[s] # "waiting"
  BY SettlePendingType
<1>2. Settles /\ overtaken \subseteq overtaken'
  BY <1>1 DEF Settles, OpenedMoves, radio, gatts
<1>3. Over(s)'
  <2>1. CASE s \in pendingSessions /\ opened'[s] # "waiting"
    BY <2>1 DEF Over
  <2>2. CASE Over(s)
    BY <1>1, <1>2, <2>2 DEF Settles, Over
  <2> QED BY <1>1, <2>1, <2>2, ClosingHead DEF ClosingOps, Over
<1>4. Tends /\ pendingSessions' \subseteq pendingSessions
  BY <1>1, <1>2, <1>3, SettlesTends
<1>5. Head(todo[t]).op \notin OpeningOps \cup {"cancelTimeout", "rejectOpens"}
  BY <1>1 DEF SettleOps, OpeningOps
<1>6. CASE Pops(t)
  BY <1>1, <1>3, <1>4, <1>5, <1>6, TendedByPop DEF OpeningOps
<1>7. CASE Clears(t)
  BY <1>1, <1>3, <1>4, <1>5, <1>7, TendedByClear
<1> QED BY <1>1, <1>6, <1>7

LEMMA DropsTended ==
  ASSUME TypeInv, BegunInv, TendedInv, NEW t \in Threads, todo[t] # <<>>, NEW s, s = Head(todo[t]).s,
         Drop(t, s) \/ DropServer(t, s) \/ Report(t, s) \/ StopGatts(t) \/ ClearRest(t)
  PROVE  TendedInv'
<1>1. TypeInv' /\ Pops(t)
  BY DropType, DropServerType, ReportType, StopGattsType, ClearRestType
<1>2. /\ UNCHANGED <<pendingSessions, opened, overtaken>>
      /\ Head(todo[t]).op \in {"drop", "dropServer", "report", "stopGatts", "clearRest"}
  BY DEF Drop, DropServer, Report, StopGatts, ClearRest, Runs, setup, opens
<1>3. \A r \in Sessions : link'[r] = link[r] \/ (Linked(r) /\ Linked(r)')
  BY ClosedLinks DEF Drop, DropServer, Report, StopGatts, ClearRest, radio
<1>4. Settles
  BY <1>2, <1>3 DEF Drop, DropServer, Report, StopGatts, ClearRest, Settles, gatts, setup
<1>5. \A r \in pendingSessions : r \in sessionTimeouts => r \in sessionTimeouts' \/ Over(r)
  BY ClosingHead DEF Drop, DropServer, Report, StopGatts, ClearRest, Runs, PastOps, setup
<1>6. \A r : Over(r)' <=> Over(r)
  BY <1>2 DEF Over
<1>7. Tends /\ pendingSessions' \subseteq pendingSessions
  BY <1>2, <1>4, <1>5, <1>6, SettlesTends
<1> QED BY <1>1, <1>2, <1>7, TendedByPop DEF SettleOps

LEMMA StopOpensTended ==
  ASSUME TypeInv, BegunInv, TendedInv, NEW t \in Threads, todo[t] # <<>>, StopOpens(t)
  PROVE  TendedInv'
<1>1. TypeInv' /\ UNCHANGED <<radio, gatts, sessionTimeouts, negotiatedMtu, writes, overtaken>>
  BY StopOpensType
<1>2. CASE /\ Head(todo[t]).op = "rejectOpens" /\ UNCHANGED pendingSessions
           /\ OpenedMoves(pendingSessions, "rejected")
           /\ (Pops(t) /\ \A s \in pendingSessions : opened'[s] = "rejected") \/ Clears(t)
  <2>1. Settles
    BY <1>1, <1>2 DEF Settles, OpenedMoves, radio, gatts
  <2>2. Tends /\ pendingSessions' \subseteq pendingSessions
    BY <1>1, <1>2, <2>1, SettlesTends
  <2>3. Head(todo[t]).op \notin OpeningOps \cup SettleOps \cup {"cancelTimeout"}
    BY <1>2 DEF OpeningOps, SettleOps
  <2>4. CASE Pops(t) /\ \A s \in pendingSessions : opened'[s] = "rejected"
    <3>1. \A s \in pendingSessions' : Over(s)'
      BY <1>2, <2>4 DEF Over
    <3> QED BY <1>1, <2>2, <2>3, <2>4, <3>1, TendedByPop DEF OpeningOps
  <2>5. CASE Clears(t)
    BY <1>1, <2>2, <2>3, <2>5, TendedByClear
  <2> QED BY <1>2, <2>4, <2>5
<1>3. CASE Head(todo[t]).op = "clearOpens" /\ pendingSessions' = {} /\ Pops(t) /\ UNCHANGED opened
  <2>1. Settles
    BY <1>1, <1>3 DEF Settles, radio, gatts
  <2>2. \A s \in pendingSessions : Over(s)'
    BY <1>1, <1>3, ClosingHead DEF PastOps, Over
  <2>3. Tends /\ pendingSessions' \subseteq pendingSessions
    BY <1>1, <1>3, <2>1, <2>2, SettlesTends
  <2> QED BY <1>1, <1>3, <2>3, TendedByPop DEF SettleOps
<1> QED BY <1>2, <1>3, StopOpensType

\* connectGatt() is called, and its result put on the table.
LEMMA ConnectTended ==
  ASSUME TypeInv, BegunInv, TendedInv, NEW t \in Threads, todo[t] # <<>>, NEW s, s = Head(todo[t]).s,
         Connect(t, s) \/ PutGatt(t, s)
  PROVE  TendedInv'
<1>1. TypeInv' /\ Pops(t)
  BY ConnectType, PutGattType
<1>2. UNCHANGED <<pendingSessions, sessionTimeouts, opened, overtaken>> /\ Head(todo[t]).op \in {"connect", "putGatt"}
  BY DEF Connect, PutGatt, Runs, setup, opens
<1>3. \A r \in Sessions : link[r] = "calling" => link'[r] = "calling"
  <2>1. CASE Connect(t, s)
    <3>1. link[s] = "none" /\ link' = [link EXCEPT ![s] = "connecting"]
      BY <2>1, OpeningHead DEF Connect, Runs, OpeningOps
    <3> QED BY <3>1 DEF TypeInv, RadioOK
  <2>2. CASE PutGatt(t, s)
    BY <2>2 DEF PutGatt, radio
  <2> QED BY <2>1, <2>2
<1>4. Tends /\ pendingSessions' \subseteq pendingSessions
  BY <1>2, <1>3 DEF Tends, Over
<1> QED BY <1>1, <1>2, <1>4, TendedByPop DEF SettleOps

\* After a step of opening a session only such steps are left.
LEMMA OpeningLeft ==
  ASSUME TypeInv, NEW t \in Threads, Pops(t), Head(todo[t]).op \in OpeningOps
  PROVE  \A k \in 1..Len(todo'[t]) : todo'[t][k].op \in OpeningOps
<1> TAKE k \in 1..Len(todo'[t])
<1>1. PICK j \in 1..Len(todo[t]) : j # 1 /\ todo'[t][k] = todo[t][j]
  BY AfterPop
<1>2. Precedes(Head(todo[t]), todo[t][j])
  BY <1>1, SecondStep
<1> QED BY <1>1, <1>2 DEF Precedes

\* A session put on the table while a stop of the relay clears it is overtaken.
LEMMA PastIsStop ==
  ASSUME TypeInv, NEW t \in Threads, todo[t] # <<>>, Head(todo[t]).op \in PastOps
  PROVE  t \in {"module", "main"} /\ Stopping(t)
<1>1. /\ ShapeOf(t, todo[t]) /\ Head(todo[t]) = todo[t][1] /\ 1 \in 1..Len(todo[t]) /\ StepShape(t, todo[t][1])
      /\ Len(todo[t]) \in Nat
  BY FirstStep
<1>2. Ends(todo[t][Len(todo[t])])
  BY <1>1 DEF ShapeOf
<1>3. todo[t][Len(todo[t])].op \in StopOps
  <2>1. CASE Len(todo[t]) = 1
    BY <1>1, <2>1 DEF StopOps
  <2>2. CASE Len(todo[t]) # 1
    <3>1. Len(todo[t]) \in 1..Len(todo[t])
      BY <1>1
    <3>2. Precedes(Head(todo[t]), todo[t][Len(todo[t])])
      BY <2>2, <3>1, SecondStep
    <3> QED BY <3>2 DEF Precedes, StopOps
  <2> QED BY <2>1, <2>2
<1> QED BY <1>1, <1>2, <1>3 DEF Ends, Stopping, Idle, StepShape, StopOps

LEMMA PutTended ==
  ASSUME TypeInv, BegunInv, TendedInv, NEW t \in Threads, todo[t] # <<>>, NEW s, s = Head(todo[t]).s, Put(t, s)
  PROVE  TendedInv'
<1>1. TypeInv' /\ Pops(t)
  BY PutType
<1>2. /\ Head(todo[t]).op = "put" /\ pendingSessions' = pendingSessions \cup {s}
      /\ overtaken' = (IF Stopping("main") THEN overtaken \cup {s} ELSE overtaken)
      /\ UNCHANGED <<link, sessionTimeouts, opened>>
  BY DEF Put, Runs, radio
<1>3. t = "module" /\ s \in Sessions
  BY <1>2, OpeningHead DEF OpeningOps
<1>4. /\ \A u \in Threads : u # t => todo'[u] = todo[u]
      /\ \A k \in 1..Len(todo'[t]) : todo'[t][k].op \in OpeningOps
  BY <1>1, <1>2, PopFacts, OpeningLeft DEF OpeningOps
<1>5. \A r : Over(r) => Over(r)'
  BY <1>2 DEF Over
<1>6. Tends
  BY <1>2, <1>5 DEF Tends
<1>7. \A r \in Sessions : PutAhead(r) => r \in pendingSessions'
  BY <1>2, PutAheadFacts, <1>3
<1>8. Settling(s)'
  <2>1. Head(todo[t]) = todo[t][1] /\ ShapeOf(t, todo[t]) /\ Len(todo[t]) \in Nat /\ 1 \in 1..Len(todo[t])
    BY <1>1, FirstStep DEF Pops
  <2>2. Len(todo[t]) # 1
    <3>1. Ends(todo[t][Len(todo[t])])
      BY <2>1 DEF ShapeOf
    <3>2. todo[t][Len(todo[t])].op # "put"
      BY <3>1 DEF Ends
    <3>3. todo[t][1].op = "put"
      BY <1>2, <2>1
    <3> QED BY <3>2, <3>3
  <2>3. /\ 1 \in DOMAIN todo'[t] /\ todo'[t][1] = todo[t][2]
        /\ Precedes(todo[t][1], todo[t][2]) /\ Leads(todo[t][1], todo[t][2])
    BY <1>1, <2>2, AfterPop
  <2>4. todo'[t][1].s = s /\ todo'[t][1].op = "schedule"
    BY <1>2, <2>1, <2>3 DEF Precedes, Leads
  <2> QED BY <2>3, <2>4 DEF Settling
<1>9. ASSUME NEW r \in pendingSessions', r # s, Settling(r)
      PROVE  Settling(r)'
  <2>1. PICK u \in Threads : \E k \in DOMAIN todo[u] :
          todo[u][k].s = r /\ todo[u][k].op \in {"schedule", "resolvePending", "rejectPending"}
    BY <1>9 DEF Settling
  <2>2. PICK k \in 1..Len(todo[u]) : todo[u][k].s = r
    BY <2>1, FirstStep, LenProperties
  <2>3. u # t
    <3> SUFFICES ASSUME u = t PROVE FALSE
      OBVIOUS
    <3>1. k # 1
      BY <1>9, <2>2, FirstStep
    <3>2. Precedes(Head(todo[t]), todo[t][k])
      BY <2>2, <3>1, SecondStep
    <3> QED BY <1>9, <2>2, <3>2 DEF Precedes
  <2> QED BY <1>4, <2>1, <2>3 DEF Settling
<1>10. ASSUME NEW u \in Threads, todo'[u] # <<>>, Head(todo'[u]).op \in PastOps, NEW r \in pendingSessions'
       PROVE  Over(r)'
  <2>1. u # t
    <3> SUFFICES ASSUME u = t PROVE FALSE
      OBVIOUS
    <3>1. 1 \in 1..Len(todo'[t]) /\ Head(todo'[t]) = todo'[t][1]
      BY <1>1, <1>10, AfterPop
    <3>2. Head(todo'[t]).op \in OpeningOps
      BY <1>4, <3>1
    <3> QED BY <1>10, <3>2 DEF PastOps, OpeningOps
  <2>2. todo[u] # <<>> /\ Head(todo[u]).op \in PastOps
    BY <1>4, <1>10, <2>1
  <2>3. Stopping("main")
    BY <1>3, <2>1, <2>2, PastIsStop
  <2>4. r \in pendingSessions => Over(r)
    BY <2>2 DEF TendedInv
  <2> QED BY <1>2, <1>5, <2>3, <2>4 DEF Over
<1>11. ASSUME NEW u \in Threads, NEW k \in 1..Len(todo'[u]), NEW r \in Sessions, r = todo'[u][k].s,
              todo'[u][k].op \in {"drop", "report"}, SettledBefore(todo'[u], k)
       PROVE  Over(r)'
  <2>1. u # t
    BY <1>4, <1>11 DEF OpeningOps
  <2>2. Over(r)
    BY <1>4, <1>11, <2>1 DEF TendedInv
  <2> QED BY <1>5, <2>2
<1>12. \A r \in pendingSessions' : \/ Settling(r)'
                                   \/ r \in pendingSessions /\ (Settling(r) => Settling(r)' \/ r \in sessionTimeouts' \/ Over(r)')
  BY <1>2, <1>8, <1>9
<1> QED BY <1>1, <1>6, <1>7, <1>10, <1>11, <1>12, TendedKept

LEMMA ScheduleTended ==
  ASSUME TypeInv, BegunInv, TendedInv, NEW t \in Threads, todo[t] # <<>>, NEW s, s = Head(todo[t]).s, Schedule(t, s)
  PROVE  TendedInv'
<1>1. TypeInv' /\ Pops(t)
  BY ScheduleType
<1>2. /\ Head(todo[t]).op = "schedule" /\ sessionTimeouts' = sessionTimeouts \cup {s}
      /\ UNCHANGED <<link, pendingSessions, opened, overtaken>>
  BY DEF Schedule, Runs, radio, opens
<1>3. t = "module" /\ s \in Sessions
  BY <1>2, OpeningHead DEF OpeningOps
<1>4. /\ \A u \in Threads : u # t => todo'[u] = todo[u]
      /\ \A k \in 1..Len(todo'[t]) : todo'[t][k].op \in OpeningOps
  BY <1>1, <1>2, PopFacts, OpeningLeft DEF OpeningOps
<1>5. \A r : Over(r) <=> Over(r)'
  BY <1>2 DEF Over
<1>6. Tends
  BY <1>2, <1>5 DEF Tends
<1>7. \A r \in Sessions : ~PutAhead(r)
  BY <1>2, <1>3, PutAheadFacts
<1>8. ASSUME NEW r \in pendingSessions', Settling(r)
      PROVE  Settling(r)' \/ r \in sessionTimeouts'
  <2>1. PICK u \in Threads : \E k \in DOMAIN todo[u] :
          todo[u][k].s = r /\ todo[u][k].op \in {"schedule", "resolvePending", "rejectPending"}
    BY <1>8 DEF Settling
  <2>2. PICK k \in 1..Len(todo[u]) : todo[u][k].s = r
    BY <2>1, FirstStep, LenProperties
  <2>3. u = t => r = s
    <3> SUFFICES ASSUME u = t, r # s PROVE FALSE
      OBVIOUS
    <3>1. k # 1
      BY <2>2, FirstStep
    <3>2. Precedes(Head(todo[t]), todo[t][k])
      BY <2>2, <3>1, SecondStep
    <3> QED BY <2>2, <3>2 DEF Precedes
  <2> QED BY <1>2, <1>4, <2>1, <2>3 DEF Settling
<1>9. ASSUME NEW u \in Threads, todo'[u] # <<>>, Head(todo'[u]).op \in PastOps, NEW r \in pendingSessions'
      PROVE  Over(r)'
  <2>1. u # t
    <3> SUFFICES ASSUME u = t PROVE FALSE
      OBVIOUS
    <3>1. 1 \in 1..Len(todo'[t]) /\ Head(todo'[t]) = todo'[t][1]
      BY <1>1, <1>9, AfterPop
    <3>2. Head(todo'[t]).op \in OpeningOps
      BY <1>4, <3>1
    <3> QED BY <1>9, <3>2 DEF PastOps, OpeningOps
  <2> QED BY <1>2, <1>4, <1>5, <1>9, <2>1 DEF TendedInv
<1>10. ASSUME NEW u \in Threads, NEW k \in 1..Len(todo'[u]), NEW r \in Sessions, r = todo'[u][k].s,
              todo'[u][k].op \in {"drop", "report"}, SettledBefore(todo'[u], k)
       PROVE  Over(r)'
  <2>1. u # t
    BY <1>4, <1>10 DEF OpeningOps
  <2> QED BY <1>4, <1>5, <1>10, <2>1 DEF TendedInv
<1> QED BY <1>1, <1>2, <1>6, <1>7, <1>8, <1>9, <1>10, TendedKept

\* A closing that starts settles the open first, unless it is over.
LEMMA EndsTended ==
  ASSUME TypeInv, TypeInv', TendedInv, Tends, pendingSessions' \subseteq pendingSessions,
         NEW t \in Threads, NEW s \in Sessions, Closes(t, s) \/ (EndsOnly(t, s) /\ Over(s)')
  PROVE  TendedInv'
<1>1. PICK T \in Seq(StepRecord) :
        /\ Ending(t, s, T)
        /\ \/ \A k \in 1..Len(T) : T[k].op \in {"drop", "report"} => \E j \in 1..(k - 1) : T[j].op \in SettleOps
           \/ Over(s)'
  BY DEF Closes, EndsOnly
<1>2. T # <<>> => T[1].op \notin PastOps
  <2>1. T # <<>> => 1 \in 1..Len(T)
    BY TailElements
  <2> QED BY <1>1, <2>1 DEF Ending, ClosingOps, SettleOps, PastOps
<1>3. ASSUME NEW k \in 1..Len(T), NEW r \in Sessions, r = T[k].s, T[k].op \in {"drop", "report"}, SettledBefore(T, k)
      PROVE  Over(r)'
  <2>1. r = s
    BY <1>1, <1>3 DEF Ending
  <2>2. Over(s)'
    BY <1>1, <1>3 DEF SettledBefore
  <2> QED BY <2>1, <2>2
<1>4. Starts(t, T)
  BY <1>1 DEF Ending
<1> QED BY <1>2, <1>3, <1>4, TendedByStart

LEMMA CallbackTended ==
  ASSUME TypeInv, BegunInv, TendedInv, NEW s \in Sessions, Callback(s), ~Accepted(s), ~OnCharacteristicWrite(s)
  PROVE  TendedInv'
<1>1. CASE OnConnected(s) \/ OnMtuChanged(s) \/ OnServicesDiscovered(s) \/ OnDescriptorWrite(s)
  <2>1. /\ TypeInv' /\ (UNCHANGED todo \/ Closes(s, s))
        /\ link[s] \in Alive /\ \E l \in Alive : link' = [link EXCEPT ![s] = l]
    BY <1>1, OnConnectedType, OnMtuChangedType, OnServicesDiscoveredType, OnDescriptorWriteType
  <2>2. UNCHANGED <<gatts, pendingSessions, sessionTimeouts, opens>>
    BY <1>1 DEF OnConnected, OnMtuChanged, OnServicesDiscovered, OnDescriptorWrite, setup
  <2>3. Settles
    BY <2>1, <2>2 DEF Settles, gatts, opens, Linked, Alive, TypeInv, RadioOK
  <2>4. Tends /\ pendingSessions' \subseteq pendingSessions
    BY <2>2, <2>3, SettlesTends DEF opens
  <2> QED BY <2>1, <2>4, ThreadNames, TendedSame, EndsTended
<1>2. CASE OnServerMtuChanged(s)
  <2>1. TypeInv'
    BY <1>2, OnServerMtuChangedType
  <2>2. Settles /\ UNCHANGED <<todo, pendingSessions, sessionTimeouts, overtaken>>
    BY <1>2 DEF OnServerMtuChanged, Settles, radio, gatts, opens
  <2>3. Tends /\ pendingSessions' \subseteq pendingSessions
    BY <2>2, SettlesTends
  <2> QED BY <2>1, <2>2, <2>3, TendedSame
<1>3. CASE OnDisconnected(s)
  <2>1. /\ TypeInv' /\ link[s] \in Alive /\ link' = [link EXCEPT ![s] = "gone"]
        /\ UNCHANGED <<gatts, setup, opens>>
        /\ UNCHANGED todo \/ Closes(s, s) \/ (s \in serverDevices /\ EndsOnly(s, s))
    BY <1>3, OnDisconnectedType
  <2>2. Linked(s)
    BY <2>1, AliveLinked
  <2>3. Settles
    BY <2>1, <2>2 DEF Settles, gatts, setup, opens, Linked, TypeInv, RadioOK
  <2>4. Tends /\ pendingSessions' \subseteq pendingSessions
    BY <2>1, <2>3, SettlesTends DEF setup, opens
  <2>5. s \in serverDevices => Over(s)'
    BY <2>1 DEF TypeInv, SetupOK, Over, opens
  <2> QED BY <2>1, <2>4, <2>5, ThreadNames, TendedSame, EndsTended
<1>4. CASE ClassicLost(s)
  <2>1. /\ TypeInv' /\ s \in classicSockets /\ EndsOnly(s, s)
        /\ classicSockets' = classicSockets \ {s} /\ link' = [link EXCEPT ![s] = "gone"]
        /\ UNCHANGED <<clientGatts, serverDevices, setup, opens>>
    BY <1>4, ClassicLostType
  <2>2. Linked(s) /\ Over(s)'
    BY <2>1 DEF BegunInv, Over, opens
  <2>3. Settles
    BY <2>1, <2>2 DEF Settles, setup, opens, Linked, TypeInv, RadioOK
  <2>4. Tends /\ pendingSessions' \subseteq pendingSessions
    BY <2>1, <2>3, SettlesTends DEF setup, opens
  <2> QED BY <2>1, <2>2, <2>4, ThreadNames, EndsTended
<1> QED BY <1>1, <1>2, <1>3, <1>4 DEF Callback

\* The timeout takes itself off its table and is about to settle the open.
LEMMA TimeoutTended ==
  ASSUME TypeInv, BegunInv, TendedInv, NEW s \in Sessions, Timeout(s)
  PROVE  TendedInv'
<1>1. /\ TypeInv' /\ Closes("main", s) /\ sessionTimeouts' = sessionTimeouts \ {s}
      /\ UNCHANGED <<radio, gatts, pendingSessions, opens>>
  BY TimeoutType
<1>2. Settling(s)'
  <2> DEFINE P == Steps(<<"rejectPending">>, s) \o CloseSteps(s)
  <2>1. PICK T : T = P
    OBVIOUS
  <2>2. todo'["main"] = T
    BY <2>1, ThreadNames DEF Timeout, Start, TypeInv, TodoInv
  <2>3. Plan(T, <<"rejectPending", "cancelTimeout", "rejectPending", "failActive", "failQueue", "drop">>, s)
    BY <2>1, TimeoutPlan
  <2>4. T \in Seq(StepRecord) /\ Len(T) = 6 /\ T[1].op = "rejectPending" /\ T[1].s = s
    BY <2>3 DEF Plan
  <2>5. 1 \in DOMAIN T
    BY <2>4, LenProperties
  <2> QED BY <2>2, <2>4, <2>5, ThreadNames DEF Settling
<1>3. Settles
  BY <1>1 DEF Settles, radio, gatts, opens
<1>4. Tends /\ pendingSessions' \subseteq pendingSessions
  BY <1>1, <1>2, <1>3, SettlesTends DEF opens
<1> QED BY <1>1, <1>4, ThreadNames, EndsTended

LEMMA CloseSessionTended ==
  ASSUME TypeInv, BegunInv, TendedInv, NEW s \in Sessions, CloseSession(s)
  PROVE  TendedInv'
<1>1. TypeInv' /\ Closes("module", s) /\ UNCHANGED <<radio, gatts, setup, opens>>
  BY CloseSessionType
<1>2. Settles
  BY <1>1 DEF Settles, radio, gatts, setup, opens
<1>3. Tends /\ pendingSessions' \subseteq pendingSessions
  BY <1>1, <1>2, SettlesTends DEF setup, opens
<1> QED BY <1>1, <1>3, ThreadNames, EndsTended

LEMMA AdvertisingTended ==
  ASSUME TypeInv, BegunInv, TendedInv, AdvertisingUnavailable
  PROVE  TendedInv'
<1>1. TypeInv' /\ UNCHANGED <<todo, setup, opens>>
  BY AdvertisingType DEF AdvertisingUnavailable
<1>2. \A r \in Sessions : link'[r] = link[r] \/ (Linked(r) /\ Linked(r)')
  BY ClosedLinks DEF AdvertisingUnavailable
<1>3. Settles
  BY <1>2 DEF AdvertisingUnavailable, Settles, setup, opens
<1>4. Tends /\ pendingSessions' \subseteq pendingSessions
  BY <1>1, <1>3, SettlesTends DEF setup, opens
<1> QED BY <1>1, <1>4, TendedSame

LEMMA FreshCallsTended ==
  ASSUME TypeInv, BegunInv, TendedInv,
         (\E w \in Records : SendRecord(w)) \/ (\E s \in Sessions : OnCharacteristicWrite(s))
         \/ StopRelayOn("module") \/ StopRelayOn("main")
  PROVE  TendedInv'
<1>1. TypeInv' /\ LeavesSetUp
  BY FreshCalls
<1>2. PICK t \in Threads : \E T \in Seq(StepRecord) :
        /\ Starts(t, T) /\ \A k \in 1..Len(T) : T[k].op \notin OpeningOps \cup ClosingOps
        /\ Len(T) \in Nat \ {0} /\ T[1].op \notin PastOps
  BY FreshCalls
<1>3. PICK T \in Seq(StepRecord) :
        /\ Starts(t, T) /\ \A k \in 1..Len(T) : T[k].op \notin OpeningOps \cup ClosingOps
        /\ T[1].op \notin PastOps
  BY <1>2
<1>4. \A k \in 1..Len(T) : T[k].op \notin {"drop", "report"}
  BY <1>3 DEF ClosingOps
<1>5. Tends /\ pendingSessions' \subseteq pendingSessions
  BY <1>1, LeavesBegun, SettlesTends DEF LeavesSetUp
<1> QED BY <1>1, <1>3, <1>4, <1>5, TendedByStart

\* A connection that comes up; the open that called it is settled.
LEMMA ArrivalsTended ==
  ASSUME TypeInv, BegunInv, TendedInv, NEW s \in Sessions, Accepted(s) \/ ClassicCall(s)
  PROVE  TendedInv'
<1>1. /\ TypeInv' /\ UNCHANGED <<todo, pendingSessions, sessionTimeouts, overtaken>>
      /\ \E l \in {"up", "gone"} : link' = [link EXCEPT ![s] = l]
  BY AcceptedType, ClassicConnectedType, ClassicRefusedType DEF ClassicCall, Accepted, ClassicConnected,
     ClassicRefused, setup, opens
<1>2. \/ UNCHANGED opened /\ link[s] # "calling"
      \/ \E how \in {"resolved", "rejected"} : opened' = [opened EXCEPT ![s] = how]
  BY DEF ClassicCall, Accepted, ClassicConnected, ClassicRefused, opens
<1>3. \A r \in Sessions : Over(r) => Over(r)'
  BY <1>1, <1>2 DEF Over, TypeInv, SetupOK
<1>4. \A r \in Sessions : link[r] = "calling" => link'[r] = "calling" \/ Over(r)'
  <2>1. \A r \in Sessions : r # s => link'[r] = link[r]
    BY <1>1 DEF TypeInv, RadioOK
  <2>2. link[s] = "calling" => Over(s)'
    BY <1>2 DEF Over, TypeInv, SetupOK
  <2> QED BY <2>1, <2>2
<1>5. Tends /\ pendingSessions' \subseteq pendingSessions
  BY <1>1, <1>3, <1>4 DEF Tends
<1> QED BY <1>1, <1>5, TendedSame

\* An open that is refused at once is over; one that waits is calling, or the
\* module thread is about to put it on the table.
LEMMA OpenSessionTended ==
  ASSUME TypeInv, BegunInv, TendedInv, NEW s \in Sessions, OpenSession(s)
  PROVE  TendedInv'
<1>1. /\ TypeInv' /\ opened[s] = "no" /\ link[s] = "none"
      /\ UNCHANGED <<pendingSessions, sessionTimeouts, overtaken>>
  BY OpenSessionType DEF setup
<1>2. /\ ~PutAhead(s) /\ s \notin pendingSessions \cup sessionTimeouts
      /\ \A t \in Threads : \A k \in 1..Len(todo[t]) :
           todo[t][k].op \in OpeningOps \cup ClosingOps => todo[t][k].s # s
  BY <1>1, Unheard
<1>3. ASSUME NEW r \in Sessions, r # s
      PROVE  link'[r] = link[r] /\ opened'[r] = opened[r]
  BY <1>3, OpenSessionType DEF TypeInv, RadioOK, SetupOK
<1>4. CASE opened' = [opened EXCEPT ![s] = "rejected"] /\ UNCHANGED <<link, todo>>
  <2>1. opened'[s] = "rejected"
    BY <1>4 DEF TypeInv, SetupOK
  <2>2. \A r \in Sessions : Over(r) => Over(r)'
    BY <1>1, <1>3, <2>1 DEF Over
  <2>3. Tends /\ pendingSessions' \subseteq pendingSessions
    BY <1>1, <1>4, <2>2 DEF Tends
  <2> QED BY <1>1, <1>4, <2>3, TendedSame
<1>5. ASSUME NEW T \in Seq(StepRecord), UNCHANGED todo \/ Starts("module", T),
             \A k \in 1..Len(T) : T[k].op \in OpeningOps,
             link'[s] = "calling" \/ PutAhead(s)'
      PROVE  TendedInv'
  <2>1. /\ \A u \in Threads : todo'[u] = todo[u] \/ (todo[u] = <<>> /\ todo'[u] = T)
        /\ Len(<<>>) = 0
    BY <1>5, ThreadNames, EmptySeq DEF Starts, TypeInv, TodoInv
  <2>2. \A r \in Sessions : r # s => (Over(r)' <=> Over(r))
    BY <1>1, <1>3 DEF Over
  <2>3. ASSUME NEW r \in Sessions, PutAhead(r)
        PROVE  PutAhead(r)'
    <3>1. todo["module"] # <<>>
      BY <2>3, PutAheadFacts
    <3>2. todo'["module"] = todo["module"]
      BY <2>1, <3>1, ThreadNames
    <3> QED BY <2>3, <3>2 DEF PutAhead
  <2>4. ASSUME NEW r, Settling(r)
        PROVE  Settling(r)'
    <3>1. PICK u \in Threads : \E k \in DOMAIN todo[u] :
            todo[u][k].s = r /\ todo[u][k].op \in {"schedule", "resolvePending", "rejectPending"}
      BY <2>4 DEF Settling
    <3>2. todo[u] # <<>>
      BY <3>1, FirstStep, LenProperties
    <3>3. todo'[u] = todo[u]
      BY <2>1, <3>2
    <3> QED BY <3>1, <3>3 DEF Settling
  <2>5. ASSUME NEW r \in Sessions \ overtaken', opened'[r] = "waiting"
        PROVE  link'[r] = "calling" \/ PutAhead(r)' \/ r \in pendingSessions'
    <3>1. CASE r = s
      BY <1>5, <3>1
    <3>2. CASE r # s
      <4>1. link[r] = "calling" \/ PutAhead(r) \/ r \in pendingSessions
        BY <1>1, <1>3, <2>5, <3>2 DEF TendedInv
      <4> QED BY <1>1, <1>3, <2>3, <3>2, <4>1
    <3> QED BY <3>1, <3>2
  <2>6. ASSUME NEW r \in pendingSessions', ~Over(r)'
        PROVE  r \in sessionTimeouts' \/ Settling(r)'
    <3>1. r \in Sessions /\ r # s
      BY <1>1, <1>2 DEF TypeInv, SetupOK
    <3>2. r \in sessionTimeouts \/ Settling(r)
      BY <1>1, <2>2, <2>6, <3>1 DEF TendedInv
    <3> QED BY <1>1, <2>4, <3>2
  <2>7. ASSUME NEW u \in Threads, todo'[u] # <<>>, Head(todo'[u]).op \in PastOps, NEW r \in pendingSessions'
        PROVE  Over(r)'
    <3>1. r \in Sessions /\ r # s
      BY <1>1, <1>2 DEF TypeInv, SetupOK
    <3>2. todo'[u] = todo[u]
      <4>1. T # <<>> => Head(T) = T[1] /\ 1 \in 1..Len(T)
        BY TailElements
      <4>2. T # <<>> => Head(T).op \notin PastOps
        BY <1>5, <4>1 DEF PastOps, OpeningOps
      <4> QED BY <2>1, <2>7, <4>2
    <3>3. Over(r)
      BY <1>1, <2>7, <3>2 DEF TendedInv
    <3> QED BY <2>2, <3>1, <3>3
  <2>8. ASSUME NEW u \in Threads, NEW k \in 1..Len(todo'[u]), todo'[u][k].op \in {"drop", "report"},
               SettledBefore(todo'[u], k)
        PROVE  Over(todo[u][k].s)'
    <3>1. todo'[u] = todo[u]
      BY <1>5, <2>1, <2>8 DEF OpeningOps
    <3>2. PICK r : r = todo[u][k].s
      OBVIOUS
    <3>3. r \in Sessions /\ r # s /\ Over(r)
      <4>1. todo[u][k].s # s
        BY <1>2, <2>8, <3>1 DEF ClosingOps
      <4>2. StepShape(u, todo[u][k])
        BY <2>8, <3>1, FirstStep
      <4>3. Over(todo[u][k].s)
        BY <2>8, <3>1 DEF TendedInv
      <4> QED BY <2>8, <3>1, <3>2, <4>1, <4>2, <4>3 DEF StepShape, StopOps, PastOps
    <3>4. Over(r)'
      BY <2>2, <3>3
    <3>5. r = todo'[u][k].s
      BY <3>1, <3>2
    <3> QED BY <3>4, <3>5
  <2> QED BY <2>5, <2>6, <2>7, <2>8 DEF TendedInv
<1>6. CASE opened' = [opened EXCEPT ![s] = "waiting"] /\ link' = [link EXCEPT ![s] = "calling"] /\ UNCHANGED todo
  <2>1. link'[s] = "calling" /\ <<>> \in Seq(StepRecord) /\ Len(<<>>) = 0
    BY <1>6, EmptySeq DEF TypeInv, RadioOK
  <2>2. PICK T \in Seq(StepRecord) : Len(T) = 0
    BY <2>1
  <2>3. \A k \in 1..Len(T) : T[k].op \in OpeningOps
    BY <2>2
  <2> QED BY <1>5, <1>6, <2>1, <2>3
<1>7. CASE /\ opened' = [opened EXCEPT ![s] = "waiting"] /\ UNCHANGED link
           /\ \E T \in Seq(StepRecord) :
                /\ Starts("module", T) /\ Plan(T, <<"put", "schedule", "connect", "putGatt">>, s)
  <2>1. PICK T \in Seq(StepRecord) : Starts("module", T) /\ Plan(T, <<"put", "schedule", "connect", "putGatt">>, s)
    BY <1>7
  <2>2. todo'["module"] = T
    BY <2>1, ThreadNames DEF Starts, TypeInv, TodoInv
  <2>3. /\ Len(T) = 4 /\ T[1].op = "put" /\ T[2].op = "schedule" /\ T[3].op = "connect" /\ T[4].op = "putGatt"
        /\ T[1].s = s
    BY <2>1 DEF Plan
  <2>4. PutAhead(s)'
    BY <2>2, <2>3 DEF PutAhead
  <2>5. \A k \in 1..Len(T) : T[k].op \in OpeningOps
    BY <2>3 DEF OpeningOps
  <2> QED BY <1>5, <2>1, <2>4, <2>5
<1> QED BY <1>4, <1>6, <1>7, OpenSessionType

LEMMA InitTended == Init => TendedInv
<1> SUFFICES ASSUME Init PROVE TendedInv
  OBVIOUS
<1>1. \A t \in Threads : Len(todo[t]) = 0 /\ todo[t] = <<>>
  BY EmptySeq DEF Init
<1> QED BY <1>1 DEF Init, TendedInv

LEMMA NextTended == TypeInv /\ BegunInv /\ TendedInv /\ [Next]_vars => TendedInv'
<1> SUFFICES ASSUME TypeInv, BegunInv, TendedInv, [Next]_vars PROVE TendedInv'
  OBVIOUS
<1>1. CASE Call
  BY <1>1, OpenSessionTended, CloseSessionTended, FreshCallsTended DEF Call, StopRelay
<1>2. ASSUME NEW t \in Threads, Run(t) PROVE TendedInv'
  <2>1. PICK s : s = Head(todo[t]).s
    OBVIOUS
  <2>2. todo[t] # <<>>
    BY <1>2 DEF Run, Idle
  <2>3. CASE Put(t, s) \/ Schedule(t, s) \/ PutGatt(t, s) \/ Connect(t, s)
    BY <2>1, <2>2, <2>3, PutTended, ScheduleTended, ConnectTended
  <2>4. CASE \/ CancelTimeout(t, s) \/ SettlePending(t, s) \/ Drop(t, s) \/ DropServer(t, s) \/ Report(t, s)
             \/ StopGatts(t) \/ StopOpens(t) \/ ClearRest(t)
    BY <2>1, <2>2, <2>4, CancelTimeoutTended, SettlePendingTended, DropsTended, StopOpensTended
  <2>5. CASE \/ Admit(t, s) \/ GetOrPut(t, s) \/ Add(t, s) \/ CheckActive(t, s) \/ GetQueue(t, s) \/ Poll(t, s)
             \/ RemoveQueue(t, s) \/ SetActive(t, s) \/ Write(t, s) \/ CompleteWrite(t, s)
    <3>1. TypeInv' /\ Goes(t) /\ LeavesSetUp /\ Head(todo[t]).op \in SendingOps
      BY <2>1, <2>2, <2>5, SendsGo
    <3> QED BY <3>1, SendsTended DEF SendingOps, CarryOps, OpeningOps, SettleOps
  <2>6. CASE FailActive(t, s) \/ FailQueue(t, s) \/ Drain(t, s) \/ StopActive(t) \/ StopQueues(t)
    <3>1. /\ TypeInv' /\ Goes(t) /\ LeavesSetUp
          /\ Head(todo[t]).op \notin OpeningOps \cup SettleOps \cup {"cancelTimeout", "rejectOpens"}
      BY <2>1, <2>2, <2>6, FailsGo DEF PastOps, OpeningOps, SettleOps
    <3> QED BY <3>1, SendsTended
  <2> QED BY <1>2, <2>1, <2>3, <2>4, <2>5, <2>6 DEF Run, SessionStep
<1>3. ASSUME NEW s \in Sessions, Callback(s) \/ ClassicCall(s) \/ Timeout(s) PROVE TendedInv'
  BY <1>3, CallbackTended, ArrivalsTended, TimeoutTended, FreshCallsTended
<1>4. CASE NotificationStop \/ AdvertisingUnavailable
  BY <1>4, FreshCallsTended, AdvertisingTended DEF NotificationStop
<1>5. CASE UNCHANGED vars
  <2>1. TypeInv' /\ LeavesSetUp /\ UNCHANGED todo
    BY <1>5, NextType DEF vars, LeavesSetUp, radio, gatts, setup, opens
  <2>2. Tends /\ pendingSessions' \subseteq pendingSessions
    BY <2>1, LeavesBegun, SettlesTends DEF LeavesSetUp
  <2> QED BY <2>1, <2>2, TendedSame
<1> QED BY <1>1, <1>2, <1>3, <1>4, <1>5 DEF Next

\* An open that is about to be put on the table is about to be scheduled too.
LEMMA OpensInvTends == TypeInv /\ OpensInv => OpensAreTended
<1> SUFFICES ASSUME TypeInv, OpensInv, NEW s \in Sessions \ overtaken, opened[s] = "waiting",
                    link[s] # "calling", s \notin pendingSessions \cap sessionTimeouts
             PROVE  Settling(s)
  BY DEF OpensAreTended
<1>1. CASE PutAhead(s)
  <2>1. /\ todo["module"] # <<>> /\ Head(todo["module"]) = todo["module"][1] /\ 1 \in 1..Len(todo["module"])
        /\ todo["module"][1].op = "put" /\ todo["module"][1].s = s
    BY <1>1, PutAheadFacts
  <2>2. ShapeOf("module", todo["module"]) /\ Len(todo["module"]) \in Nat /\ 1 + 1 = 2
    BY FirstStep, ThreadNames
  <2>3. Len(todo["module"]) # 1
    <3>1. Ends(todo["module"][Len(todo["module"])])
      BY <2>1, <2>2 DEF ShapeOf
    <3>2. todo["module"][Len(todo["module"])].op # "put"
      BY <3>1 DEF Ends
    <3> QED BY <2>1, <3>2
  <2>4. 2 \in 1..Len(todo["module"])
    <3>1. PICK n \in Nat : n = Len(todo["module"])
      BY <2>2
    <3>2. n # 1 /\ 1 \in 1..n
      BY <2>1, <2>3, <3>1
    <3>3. 2 \in 1..n
      BY <3>2
    <3> QED BY <3>1, <3>3
  <2>5. Precedes(todo["module"][1], todo["module"][2]) /\ Leads(todo["module"][1], todo["module"][2])
    BY <2>1, <2>2, <2>4 DEF ShapeOf
  <2>6. todo["module"][2].op = "schedule" /\ todo["module"][2].s = s
    BY <2>1, <2>5 DEF Precedes, Leads
  <2>7. 2 \in DOMAIN todo["module"]
    BY <2>4, FirstStep, ThreadNames, LenProperties
  <2> QED BY <2>6, <2>7, ThreadNames DEF Settling
<1>2. CASE ~PutAhead(s)
  <2>1. s \in pendingSessions
    BY <1>2 DEF OpensInv, TendedInv
  <2>2. ~Over(s)
    BY DEF Over
  <2> QED BY <2>1, <2>2 DEF OpensInv, TendedInv
<1> QED BY <1>1, <1>2

\* Whatever the sessions, the records and the stops, an openSession() that waits
\* has a thread about to settle it, or waits for Android's answer or its
\* timeout, unless the Stop of the notification ran into it: no order of the
\* accesses to the tables of AndroidRadioBridgeModule leaves it behind.
THEOREM OpensTended == Spec => []OpensAreTended
<1>1. Init => TypeInv /\ OpensInv
  BY InitType, InitBegun, InitTended DEF OpensInv
<1>2. TypeInv /\ OpensInv /\ [Next]_vars => (TypeInv /\ OpensInv)'
  BY NextType, NextBegun, NextTended DEF OpensInv
<1>3. TypeInv /\ OpensInv => OpensAreTended
  BY OpensInvTends
<1> QED BY <1>1, <1>2, <1>3, PTL DEF Spec
=============================================================================
