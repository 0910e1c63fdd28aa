----------------------- MODULE MobileControllerProofs -----------------------
(***************************************************************************)
(* For any number of calls, incidents, runtimes, packets and deaths: what  *)
(* a phone shows as its user's SOS was created by this phone and is        *)
(* stored; and as long as no logout cuts a start-up (~CutsStart), packets  *)
(* of one process are numbered upwards, and the open SOS of a phone with   *)
(* one incident is shown.                                                  *)
(*                                                                         *)
(* What a start-up restores it takes from the fold of the rows it read, so *)
(* the invariant must say where an incident of that fold comes from        *)
(* (HeldFacts): its first row decides whose it is.  The rows and the calls *)
(* therefore carry that the phone speaks of its own incidents only after   *)
(* it created them, and of the other one only to a reducer that has heard  *)
(* of it before (IInv).  NumbersInv says that one start-up is under way at *)
(* most, that the counter is not behind what the restored runtimes read,   *)
(* and that a call's number is above what its runtime read of its          *)
(* incident.  ScreensInv says that what the reducer of the present runtime *)
(* holds open is shown, or a call is about to show it, or it is cancelled. *)
(* What one more row does to the fold is HeldSteps, a fact about one       *)
(* state; it is needed of the next state too, which PTL gives.             *)
(***************************************************************************)
EXTENDS MobileController, FiniteSetTheorems, WellFoundedInduction, TLAPS

RowRecord == [p : PacketRecord, via : Runtimes]

CallRecord ==
  [kind : {"idle", "save", "cancel", "transition"} \cup Updates,
   at : {"idle", "locating", "storing", "stored"}, on : Runtimes \cup {0},
   about : Incidents \cup {None}, type : MessageType \cup {None}, seq : Nat]

\* A runtime that was created and not lost with the process.
Alive(n) == n \in Runtimes /\ creates[n].at \in {"read", "restored", "ready"}

\* The runtimes that are named exist, and what they read is in the log.
RuntimesInv ==
  /\ runtime # 0 => Alive(runtime)
  /\ initializing # 0 => Alive(initializing)
  /\ \A n \in Runtimes : creates[n].base <= Len(log)
  /\ \A k \in DOMAIN log : creates[log[k].via].at # "unused"

\* The phone stored the creation of this incident.
CreatedHere(i) == \E k \in DOMAIN log : Mine(k) /\ log[k].p.type = "SOS_CREATE" /\ log[k].p.about = i

\* The neighbour's own SOS.
Heard(k) == log[k].p.about = Other /\ log[k].p.type = "SOS_CREATE" /\ ~Mine(k)

HeardBy(n) == \E k \in DOMAIN log : Heard(k) /\ Takes(n, k)

\* What the phone stored is about an incident it created, or one that the runtime
\* which took the packet in had heard of before; others send the other's SOS only.
RowOK(k) ==
  /\ Mine(k) /\ log[k].p.about \in Own => CreatedHere(log[k].p.about)
  /\ Mine(k) /\ log[k].p.about = Other =>
       \E j \in 1..(k - 1) : Heard(j) /\ (Alive(log[k].via) => Takes(log[k].via, j))
  /\ ~Mine(k) /\ log[k].p.about = Other => Heard(k)

RowsInv == \A k \in DOMAIN log : RowOK(k)

\* The calls under way.
Saving(call) ==
  /\ call.kind = "save"
  /\ \/ /\ call.at = "locating" /\ call.about \in Own \cup {None}
        /\ call.about # None => CreatedHere(call.about)
     \/ call.at = "storing" /\ call.type = "SOS_CREATE" /\ call.about \in Own
     \/ /\ call.at \in {"storing", "stored"} /\ call.type \in {"SOS_CREATE", "SOS_UPDATE"}
        /\ call.about \in Own /\ CreatedHere(call.about)

Cancelling(call) ==
  /\ call.kind = "cancel" /\ call.at \in {"storing", "stored"} /\ call.type = "SOS_CANCEL"
  /\ call.about \in Own /\ CreatedHere(call.about)

Responding(call) ==
  /\ call.kind \in Updates \cup {"transition"} /\ call.at # "idle"
  /\ call.kind \in Updates => call.at # "locating"
  /\ call.type \in Updates \cup {"RESPONDER_ASSIGNED"}
  /\ call.about = Other /\ HeardBy(call.on)

CallOK(c) ==
  \/ calls[c] = IdleCall
  \/ Alive(calls[c].on) /\ (Saving(calls[c]) \/ Cancelling(calls[c]) \/ Responding(calls[c]))

CallsInv == \A c \in Calls : CallOK(c)

\* The inductive invariant.
IInv == TypeOK /\ RuntimesInv /\ RowsInv /\ CallsInv /\ ShownIsStored


-----------------------------------------------------------------------------
(* Smallest and largest numbers *)

\* A set of natural numbers has a smallest one.
LEMMA Smallest ==
  ASSUME NEW T \in SUBSET Nat, T # {}
  PROVE  \E x \in T : \A y \in T : x <= y
<1>1. IsWellFoundedOn(OpToRel(<, Nat), Nat)
  BY NatLessThanWellFounded
<1>2. PICK x \in T : \A y \in T : ~(<<y, x>> \in OpToRel(<, Nat))
  BY <1>1, WFMin
<1>3. \A y \in T : ~(y < x)
  BY <1>2 DEF OpToRel
<1> QED BY <1>3

LEMMA MaxFacts ==
  ASSUME NEW m \in Nat, NEW t \in SUBSET (0..m), t # {}
  PROVE  Max(t) \in t /\ \A y \in t : y <= Max(t)
<1> DEFINE D == {d \in Nat : m - d \in t}
<1>1. D # {}
  <2>1. PICK y \in t : TRUE
    OBVIOUS
  <2>2. y \in 0..m
    OBVIOUS
  <2>3. m - y \in Nat /\ m - (m - y) = y
    BY <2>2
  <2> QED BY <2>1, <2>3
<1>2. PICK u \in D : \A v \in D : u <= v
  BY <1>1, Smallest
<1>3. m - u \in t
  BY <1>2
<1>4. ASSUME NEW y \in t PROVE m - u >= y
  <2>1. y \in 0..m
    OBVIOUS
  <2>2. m - y \in Nat /\ m - (m - y) = y
    BY <2>1
  <2>3. m - y \in D
    BY <2>2
  <2>4. u \in Nat /\ u <= m - y
    BY <1>2, <2>3
  <2> QED BY <2>1, <2>4
<1> QED BY <1>3, <1>4 DEF Max

LEMMA IntervalFacts ==
  ASSUME NEW n \in Nat, n # 0
  PROVE  Max(1..n) = n /\ (1..n) \ {n} = 1..(n - 1) /\ 1..n # {}
<1>1. n \in 1..n
  OBVIOUS
<1>2. Max(1..n) \in 1..n /\ \A y \in 1..n : y <= Max(1..n)
  <2>1. 1..n \in SUBSET (0..n) /\ 1..n # {}
    BY <1>1
  <2> QED BY <2>1, MaxFacts
<1>3. Max(1..n) = n
  BY <1>1, <1>2
<1>4. ASSUME NEW y PROVE y \in (1..n) \ {n} <=> y \in 1..(n - 1)
  OBVIOUS
<1> QED BY <1>1, <1>3, <1>4

-----------------------------------------------------------------------------
(* What a reducer holds is a fold, and a fold exists: by induction, on the     *)
(* smallest length for which it does not.                                      *)

Given(n, incs, k) == IF Takes(n, k) THEN ApplyToIncidents(incs, log[k].p) ELSE incs

NoIncidents == [i \in Incidents |-> None]

\* The fold of the library, over the indices up to m.
IsFold(n, s, m, f) ==
  f = [t \in SUBSET (1..m) |->
         IF t = {} THEN NoIncidents ELSE Given(n, f[t \ {Max(t)}], s[Max(t)])]

LEMMA HeldIs ==
  ASSUME NEW S, log \in Seq(S), NEW n
  PROVE  Held(n) = (CHOOSE f : IsFold(n, [k \in DOMAIN log |-> k], Len(log), f))[1..Len(log)]
<1> DEFINE s == [k \in DOMAIN log |-> k]
<1>1. DOMAIN log = 1..Len(log)
  OBVIOUS
<1>2. DOMAIN s = 1..Len(log)
  BY <1>1
<1> HIDE DEF s
<1>3. Held(n) = FoldLeft(LAMBDA incs, k : IF Takes(n, k) THEN ApplyToIncidents(incs, log[k].p) ELSE incs, NoIncidents, s)
  BY DEF Held, s, NoIncidents
<1> QED BY <1>2, <1>3 DEF FoldLeft, MapThenFoldSet, IsFold, Given, s

\* One more index.
LEMMA FoldGrows ==
  ASSUME NEW n, NEW s, NEW m \in Nat, NEW f, IsFold(n, s, m, f)
  PROVE  \E g : IsFold(n, s, m + 1, g)
<1> DEFINE g == [t \in SUBSET (1..(m + 1)) |->
                  IF t = {} THEN NoIncidents ELSE Given(n, f[t \ {Max(t)}], s[Max(t)])]
<1>1. f = [t \in SUBSET (1..m) |->
             IF t = {} THEN NoIncidents ELSE Given(n, f[t \ {Max(t)}], s[Max(t)])]
  BY DEF IsFold
<1>2. ASSUME NEW t \in SUBSET (1..m) PROVE g[t] = f[t]
  <2>1. t \in SUBSET (1..(m + 1))
    OBVIOUS
  <2>2. f[t] = IF t = {} THEN NoIncidents ELSE Given(n, f[t \ {Max(t)}], s[Max(t)])
    BY <1>1
  <2> QED BY <2>1, <2>2
<1>3. ASSUME NEW t \in SUBSET (1..(m + 1)), t # {} PROVE t \ {Max(t)} \in SUBSET (1..m)
  <2> DEFINE x == Max(t)
  <2>1. m + 1 \in Nat
    OBVIOUS
  <2>2. x \in t /\ \A y \in t : y <= x
    BY <1>3, <2>1, MaxFacts
  <2> HIDE DEF x
  <2>3. ASSUME NEW y \in t, y # x PROVE y \in 1..m
    BY <2>2, <2>3
  <2>4. t \ {x} \in SUBSET (1..m)
    BY <2>3
  <2> QED BY <2>4 DEF x
<1>4. ASSUME NEW t \in SUBSET (1..(m + 1))
      PROVE  g[t] = IF t = {} THEN NoIncidents ELSE Given(n, g[t \ {Max(t)}], s[Max(t)])
  BY <1>2, <1>3
<1>5. g = [t \in SUBSET (1..(m + 1)) |-> g[t]]
  OBVIOUS
<1> HIDE DEF g
<1>6. g = [t \in SUBSET (1..(m + 1)) |->
             IF t = {} THEN NoIncidents ELSE Given(n, g[t \ {Max(t)}], s[Max(t)])]
  BY <1>4, <1>5
<1> QED BY <1>6 DEF IsFold

LEMMA FoldExists ==
  ASSUME NEW n, NEW s, NEW m \in Nat
  PROVE  \E f : IsFold(n, s, m, f)
<1> SUFFICES ASSUME ~\E f : IsFold(n, s, m, f) PROVE FALSE
  OBVIOUS
<1> DEFINE T == {k \in Nat : ~\E f : IsFold(n, s, k, f)}
<1>1. PICK k \in T : \A j \in T : k <= j
  BY Smallest
<1>2. k # 0
  <2> DEFINE f == [t \in SUBSET (1..0) |-> NoIncidents]
  <2>1. \A t \in SUBSET (1..0) : t = {}
    OBVIOUS
  <2>2. IsFold(n, s, 0, f)
    BY <2>1 DEF IsFold
  <2> QED BY <1>1, <2>2
<1>3. k - 1 \in Nat /\ (k - 1) + 1 = k
  BY <1>1, <1>2
<1>4. k - 1 \notin T
  BY <1>1, <1>3
<1>5. \E f : IsFold(n, s, k - 1, f)
  BY <1>3, <1>4
<1> QED BY <1>1, <1>3, <1>5, FoldGrows

-----------------------------------------------------------------------------
(* Whose incident it is *)

LEMMA FreshType ==
  ASSUME NEW p \in PacketRecord
  PROVE  Fresh(p) \in IncidentRecord /\ (Fresh(p).own <=> p.source = Phone)
<1> DEFINE mine == p.source = Self
<1>1. mine \in BOOLEAN /\ p.createdAt \in Nat
  BY DEF PacketRecord
<1>2. Fresh(p) = [state |-> "draft", latest |-> 0, report |-> None, responder |-> None,
                  facts |-> {}, updated |-> p.createdAt, own |-> mine]
  BY DEF Fresh
<1> HIDE DEF mine
<1>3. Fresh(p) \in IncidentRecord /\ Fresh(p).own = mine
  BY <1>1, <1>2 DEF IncidentRecord, IncidentState
<1> QED BY <1>3 DEF mine, Phone

LEMMA MoveType ==
  ASSUME NEW state \in IncidentState, NEW p
  PROVE  Move(state, p) \in IncidentState
BY DEF Move, ALLOWED_NEXT, IncidentState

LEMMA ReportedType ==
  ASSUME NEW inc \in IncidentRecord, NEW p \in PacketRecord
  PROVE  Reported(inc, p) \in IncidentRecord /\ Reported(inc, p).own = inc.own
<1> DEFINE st == IF p.type = "SOS_CREATE" /\ inc.state \in {"draft", "created"} THEN "active" ELSE inc.state
<1>1. st \in IncidentState /\ p.seq \in Nat
  BY DEF IncidentRecord, IncidentState, PacketRecord
<1>2. \/ Reported(inc, p) = [inc EXCEPT !.report = p, !.latest = p.seq, !.state = st]
      \/ Reported(inc, p) = inc
  BY DEF Reported
<1> HIDE DEF st
<1> QED BY <1>1, <1>2 DEF IncidentRecord

\* A packet does not change whose the incident is.
LEMMA ReduceFacts ==
  ASSUME NEW inc \in IncidentRecord, NEW p \in PacketRecord
  PROVE  Reduce(inc, p) \in IncidentRecord /\ Reduce(inc, p).own = inc.own
<1> DEFINE q == Reported(inc, p)
           st == Move(q.state, p)
           who == Assigned(q.responder, p)
           facts == IF p.type \in {"SOS_UPDATE", "RESPONDER_DECLINED"} THEN q.facts ELSE q.facts \cup {p.type}
           time == IF p.createdAt > q.updated THEN p.createdAt ELSE q.updated
<1>1. q \in IncidentRecord /\ q.own = inc.own
  BY ReportedType
<1>2. Reduce(inc, p) = [q EXCEPT !.state = st, !.responder = who, !.facts = facts, !.updated = time]
  BY DEF Reduce
<1> HIDE DEF q
<1>3. q.state \in IncidentState /\ q.responder = None /\ q.facts \subseteq MessageType /\ q.updated \in Nat
  BY <1>1 DEF IncidentRecord
<1>4. st \in IncidentState
  BY <1>3, MoveType
<1>5. who = None
  BY <1>3 DEF Assigned, PacketRecord
<1>6. facts \in SUBSET MessageType /\ time \in Nat
  BY <1>3 DEF PacketRecord
<1> HIDE DEF st, who, facts, time
<1> QED BY <1>1, <1>2, <1>4, <1>5, <1>6 DEF IncidentRecord

\* The first row about an incident that a reducer was given.
First(n, i, j) ==
  /\ Takes(n, j) /\ log[j].p.about = i
  /\ \A h \in 1..(j - 1) : Takes(n, h) /\ UpdatesIncident(log[h].p) => log[h].p.about # i

\* The fold of the first k rows.
FoldOK(n, incs, k) ==
  /\ incs \in [Incidents -> IncidentRecord \cup {None}]
  /\ \A i \in Incidents :
       /\ incs[i] = None =>
            \A j \in 1..k : Takes(n, j) /\ UpdatesIncident(log[j].p) => log[j].p.about # i
       /\ incs[i] # None => \E j \in 1..k : First(n, i, j) /\ (incs[i].own <=> Mine(j))

LEMMA GivenKeeps ==
  ASSUME log \in Seq(RowRecord), NEW n, NEW incs, NEW k \in Nat, k + 1 <= Len(log), FoldOK(n, incs, k)
  PROVE  FoldOK(n, Given(n, incs, k + 1), k + 1)
<1> PICK l \in Nat : l = k + 1
  OBVIOUS
<1>1. log[l] \in RowRecord
  OBVIOUS
<1> PICK p \in PacketRecord : p = log[l].p
  BY <1>1 DEF RowRecord
<1>2. 1..k \subseteq 1..l /\ l \in 1..l /\ \A j \in 1..l : j = l \/ j \in 1..k
  OBVIOUS
<1>3. CASE ~Takes(n, l) \/ ~UpdatesIncident(p)
  <2>1. Given(n, incs, l) = incs
    BY <1>3 DEF Given, ApplyToIncidents
  <2> QED BY <1>2, <1>3, <2>1 DEF FoldOK
<1>4. CASE Takes(n, l) /\ UpdatesIncident(p)
  <2> DEFINE i == p.about
             inc == IF incs[i] = None THEN Fresh(p) ELSE incs[i]
             after == Reduce(inc, p)
  <2>1. i \in Incidents
    BY DEF PacketRecord, Incidents
  <2>2. Given(n, incs, l) = [incs EXCEPT ![i] = after]
    BY <1>4 DEF Given, ApplyToIncidents
  <2>3. inc \in IncidentRecord
    BY <2>1, FreshType DEF FoldOK
  <2> HIDE DEF inc
  <2>4. after \in IncidentRecord /\ after.own = inc.own
    BY <2>3, ReduceFacts
  <2>5. after # None
    BY <2>4, NoneAssumption
  <2> HIDE DEF after
  <2>6. \E j \in 1..l : First(n, i, j) /\ (after.own <=> Mine(j))
    <3>1. CASE incs[i] = None
      <4>1. \A j \in 1..k : Takes(n, j) /\ UpdatesIncident(log[j].p) => log[j].p.about # i
        BY <2>1, <3>1 DEF FoldOK
      <4>2. First(n, i, l)
        BY <1>4, <4>1 DEF First
      <4>3. after.own <=> Mine(l)
        BY <2>4, <3>1, FreshType DEF inc, Mine
      <4> QED BY <1>2, <4>2, <4>3
    <3>2. CASE incs[i] # None
      BY <1>2, <2>1, <2>4, <3>2 DEF FoldOK, inc
    <3> QED BY <3>1, <3>2
  <2> DEFINE new == Given(n, incs, l)
  <2>7. new \in [Incidents -> IncidentRecord \cup {None}]
    BY <2>1, <2>2, <2>4 DEF FoldOK
  <2>8. \A g \in Incidents : new[g] = IF g = i THEN after ELSE incs[g]
    BY <2>1, <2>2 DEF FoldOK
  <2>9. p.about = i
    OBVIOUS
  <2> HIDE DEF new, i
  <2>10. ASSUME NEW g \in Incidents, g # i
         PROVE  /\ new[g] = None =>
                     \A j \in 1..l : Takes(n, j) /\ UpdatesIncident(log[j].p) => log[j].p.about # g
                /\ new[g] # None => \E j \in 1..l : First(n, g, j) /\ (new[g].own <=> Mine(j))
    BY <1>2, <2>8, <2>9, <2>10 DEF FoldOK
  <2>11. FoldOK(n, new, l)
    BY <2>5, <2>6, <2>7, <2>8, <2>10 DEF FoldOK
  <2> QED BY <2>11 DEF new
<1> QED BY <1>3, <1>4

\* Row by row: what the reducer holds after the first k rows.
Steps(n, f) ==
  /\ Held(n) = f[1..Len(log)]
  /\ f[1..0] = NoIncidents
  /\ \A k \in 1..Len(log) : f[1..k] = Given(n, f[1..(k - 1)], k)

LEMMA HeldSteps == log \in Seq(RowRecord) => \A n : \E f : Steps(n, f)
<1> SUFFICES ASSUME log \in Seq(RowRecord), NEW n PROVE \E f : Steps(n, f)
  OBVIOUS
<1> DEFINE s == [k \in DOMAIN log |-> k]
           f == CHOOSE f : IsFold(n, s, Len(log), f)
<1> PICK m \in Nat : m = Len(log)
  OBVIOUS
<1>1. DOMAIN log = 1..m
  OBVIOUS
<1>2. \A k \in 1..m : s[k] = k
  BY <1>1
<1>3. IsFold(n, s, m, f)
  <2>1. \E g : IsFold(n, s, m, g)
    BY FoldExists
  <2> QED BY <2>1
<1>4. Held(n) = f[1..m]
  BY HeldIs
<1> HIDE DEF f, s
<1>5. f[1..0] = NoIncidents
  <2>1. 1..0 = {} /\ 1..0 \in SUBSET (1..m)
    OBVIOUS
  <2> QED BY <1>3, <2>1 DEF IsFold
<1>6. ASSUME NEW k \in 1..m PROVE f[1..k] = Given(n, f[1..(k - 1)], k)
  <2>1. 1..k \in SUBSET (1..m)
    BY <1>6
  <2>2. f[1..k] = IF 1..k = {} THEN NoIncidents ELSE Given(n, f[(1..k) \ {Max(1..k)}], s[Max(1..k)])
    BY <1>3, <2>1 DEF IsFold
  <2>3. Max(1..k) = k /\ (1..k) \ {k} = 1..(k - 1) /\ 1..k # {}
    BY <1>6, IntervalFacts
  <2>4. s[k] = k
    BY <1>2
  <2> QED BY <2>2, <2>3, <2>4
<1> QED BY <1>4, <1>5, <1>6 DEF Steps

LEMMA HeldStepsNext == (log \in Seq(RowRecord) => \A n : \E f : Steps(n, f))'
BY HeldSteps, PTL

\* Where an incident of a reducer comes from: its first row decides whose it is.
LEMMA HeldFacts ==
  ASSUME log \in Seq(RowRecord), NEW n
  PROVE  FoldOK(n, Held(n), Len(log))
<1> PICK m \in Nat : m = Len(log)
  OBVIOUS
<1>1. PICK f : Steps(n, f)
  BY HeldSteps
<1>2. Held(n) = f[1..m] /\ f[1..0] = NoIncidents /\ \A k \in 1..m : f[1..k] = Given(n, f[1..(k - 1)], k)
  BY <1>1 DEF Steps
<1> DEFINE T == {k \in 0..m : ~FoldOK(n, f[1..k], k)}
<1>3. CASE T = {}
  BY <1>2, <1>3
<1>4. CASE T # {}
  <2>1. T \in SUBSET Nat
    OBVIOUS
  <2>2. PICK k \in T : \A j \in T : k <= j
    BY <1>4, <2>1, Smallest
  <2>3. CASE k = 0
    <3>1. FoldOK(n, NoIncidents, 0)
      BY DEF FoldOK, NoIncidents
    <3> QED BY <1>2, <2>2, <2>3, <3>1
  <2>4. CASE k # 0
    <3> PICK j \in Nat : j + 1 = k
      BY <2>2, <2>4
    <3>1. j \in 0..m /\ j \notin T /\ j = k - 1 /\ j + 1 <= m /\ k \in 1..m
      BY <2>2
    <3>2. FoldOK(n, f[1..j], j)
      BY <3>1
    <3>3. f[1..k] = Given(n, f[1..j], k)
      BY <1>2, <3>1
    <3>4. FoldOK(n, Given(n, f[1..j], j + 1), j + 1)
      BY <3>1, <3>2, GivenKeeps
    <3> QED BY <2>2, <3>3, <3>4
  <2> QED BY <2>3, <2>4
<1> QED BY <1>3, <1>4

\* A reducer is given the rows it was given before, and one more or none.
LEMMA HeldGrows ==
  ASSUME log \in Seq(RowRecord), log' \in Seq(RowRecord), NEW n, NEW l \in Nat, l = Len(log'),
         l \in {Len(log), Len(log) + 1}, NEW held, held = Held(n),
         \A k \in 1..Len(log) : log'[k] = log[k] /\ (Takes(n, k)' <=> Takes(n, k))
  PROVE  Held(n)' = IF l = Len(log) THEN held ELSE Given(n, held, l)'
<1> PICK m \in Nat : m = Len(log)
  OBVIOUS
<1>1. PICK f : Steps(n, f)
  BY HeldSteps
<1>2. PICK g : Steps(n, g)'
  BY HeldStepsNext
<1>3. Held(n) = f[1..m] /\ f[1..0] = NoIncidents /\ \A k \in 1..m : f[1..k] = Given(n, f[1..(k - 1)], k)
  BY <1>1 DEF Steps
<1>4. Held(n)' = g[1..l] /\ g[1..0] = NoIncidents /\ \A k \in 1..l : g[1..k] = Given(n, g[1..(k - 1)], k)'
  BY <1>2 DEF Steps, NoIncidents
<1>5. ASSUME NEW k \in 1..m, NEW incs PROVE Given(n, incs, k)' = Given(n, incs, k)
  BY DEF Given
<1>6. f[1..m] = g[1..m]
  <2> SUFFICES ASSUME f[1..m] # g[1..m] PROVE FALSE
    OBVIOUS
  <2> DEFINE T == {k \in 0..m : f[1..k] # g[1..k]}
  <2>1. PICK k \in T : \A j \in T : k <= j
    <3>1. T \in SUBSET Nat /\ m \in T
      OBVIOUS
    <3> QED BY <3>1, Smallest
  <2>2. k # 0
    BY <1>3, <1>4, <2>1
  <2> PICK j \in Nat : j + 1 = k
    BY <2>1, <2>2
  <2>3. j = k - 1 /\ j \in 0..m /\ j \notin T /\ k \in 1..m /\ k \in 1..l
    BY <2>1
  <2>4. f[1..k] = Given(n, f[1..j], k) /\ g[1..k] = Given(n, g[1..j], k)'
    BY <1>3, <1>4, <2>3
  <2>5. f[1..j] = g[1..j]
    BY <2>3
  <2> QED BY <1>5, <2>1, <2>3, <2>4, <2>5
<1>7. CASE l = m
  BY <1>3, <1>4, <1>6, <1>7
<1>8. CASE l = m + 1
  <2>1. l \in 1..l /\ l - 1 = m
    BY <1>8
  <2>2. g[1..l] = Given(n, g[1..m], l)'
    BY <1>4, <2>1
  <2> QED BY <1>3, <1>4, <1>6, <1>8, <2>2
<1> QED BY <1>7, <1>8

-----------------------------------------------------------------------------
(* Numbers *)

\* Finitely many numbers are bounded: by induction on how many.
LEMMA NumbersBounded ==
  ASSUME NEW rows, NEW m \in Nat, \A k \in 1..m : rows[k].p.seq \in Nat
  PROVE  \E b \in Nat : \A k \in 1..m : rows[k].p.seq <= b
<1> DEFINE Bounded(j) == \E b \in Nat : \A k \in 1..j : rows[k].p.seq <= b
           T == {j \in 0..m : ~Bounded(j)}
<1>1. CASE T = {}
  <2>1. m \in 0..m
    OBVIOUS
  <2> HIDE DEF Bounded
  <2>2. Bounded(m)
    BY <1>1, <2>1
  <2> USE DEF Bounded
  <2> QED BY <2>2
<1>2. CASE T # {}
  <2>1. PICK j \in T : \A i \in T : j <= i
    <3>1. T \in SUBSET Nat
      OBVIOUS
    <3> QED BY <1>2, <3>1, Smallest
  <2>2. Bounded(0)
    <3>1. 0 \in Nat /\ \A k \in 1..0 : rows[k].p.seq <= 0
      OBVIOUS
    <3> QED BY <3>1
  <2>3. j # 0
    BY <2>1, <2>2
  <2> PICK i \in Nat : i + 1 = j
    BY <2>1, <2>3
  <2> HIDE DEF Bounded
  <2>a. j \in 0..m
    BY <2>1
  <2>b. i \in 0..m /\ j \in 1..m /\ i < j
    BY <2>3, <2>a
  <2>4. i \in 0..m /\ i \notin T /\ j \in 1..m
    BY <2>1, <2>b
  <2> USE DEF Bounded
  <2>5. PICK b \in Nat : \A k \in 1..i : rows[k].p.seq <= b
    BY <2>4
  <2>6. rows[j].p.seq \in Nat
    BY <2>4
  <2>7. PICK c \in Nat : b <= c /\ rows[j].p.seq <= c
    <3>1. b <= b + rows[j].p.seq /\ rows[j].p.seq <= b + rows[j].p.seq /\ b + rows[j].p.seq \in Nat
      BY <2>6
    <3> QED BY <3>1
  <2>8. ASSUME NEW k \in 1..j PROVE rows[k].p.seq <= c
    <3>1. k = j \/ k \in 1..i
      BY <2>4
    <3>2. rows[k].p.seq \in Nat
      BY <2>4
    <3> QED BY <2>5, <2>6, <2>7, <3>1, <3>2
  <2>9. Bounded(j)
    BY <2>8
  <2> QED BY <2>1, <2>9
<1> QED BY <1>1, <1>2

LEMMA MaxSourceType ==
  ASSUME log \in Seq(RowRecord), NEW b \in Nat, b <= Len(log)
  PROVE  /\ MaxSourceSequence(SubSeq(log, 1, b)) \in Nat
         /\ \A k \in 1..b : Mine(k) => log[k].p.seq <= MaxSourceSequence(SubSeq(log, 1, b))
<1> DEFINE rows == SubSeq(log, 1, b)
           S == {rows[k].p.seq : k \in {j \in DOMAIN rows : rows[j].p.source = Phone}} \cup {0}
<1>1. rows \in Seq(RowRecord) /\ Len(rows) = b
  OBVIOUS
<1>2. MaxSourceSequence(rows) = Max(S)
  BY DEF MaxSourceSequence
<1>3. \A k \in 1..b : rows[k] = log[k]
  OBVIOUS
<1> HIDE DEF rows
<1>4. DOMAIN rows = 1..b /\ \A k \in 1..b : rows[k] \in RowRecord
  BY <1>1
<1>5. \A k \in 1..b : rows[k].p.seq \in Nat
  BY <1>4 DEF RowRecord, PacketRecord
<1>6. PICK c \in Nat : \A k \in 1..b : rows[k].p.seq <= c
  BY <1>5, NumbersBounded
<1>7. S \in SUBSET (0..c) /\ 0 \in S
  <2>1. ASSUME NEW k \in 1..b PROVE rows[k].p.seq \in 0..c
    BY <1>5, <1>6
  <2> QED BY <1>4, <2>1
<1>8. \A k \in 1..b : Mine(k) => log[k].p.seq \in S
  BY <1>3, <1>4 DEF Mine
<1> HIDE DEF S
<1>9. Max(S) \in 0..c /\ \A x \in S : x <= Max(S)
  <2>1. S # {}
    BY <1>7
  <2>2. Max(S) \in S /\ \A x \in S : x <= Max(S)
    BY <1>7, <2>1, MaxFacts
  <2> QED BY <1>7, <2>2
<1>10. MaxSourceSequence(rows) \in Nat /\ \A k \in 1..b : Mine(k) => log[k].p.seq <= MaxSourceSequence(rows)
  <2>1. Max(S) \in Nat
    BY <1>9
  <2> QED BY <1>2, <1>8, <1>9, <2>1 DEF S
<1> QED BY <1>10 DEF rows

LEMMA MaxOfTwo == ASSUME NEW x \in Nat PROVE Max({1, x}) \in Nat /\ x <= Max({1, x})
<1>1. {1, x} \in SUBSET (0..(x + 1)) /\ {1, x} # {}
  OBVIOUS
<1>2. Max({1, x}) \in {1, x} /\ x <= Max({1, x})
  BY <1>1, MaxFacts
<1> QED BY <1>2

-----------------------------------------------------------------------------
(* What does not get lost: rows stay where they are, and a runtime that is      *)
(* created keeps what it read until the process dies.                          *)

Kept == DOMAIN log \subseteq DOMAIN log' /\ \A k \in DOMAIN log : log'[k] = log[k]

Lives ==
  /\ \A n : Alive(n) => Alive(n)' /\ creates'[n].base = creates[n].base
  /\ \A n : Alive(n)' => Alive(n) \/ creates[n].at = "unused"

LEMMA CreatedStays ==
  ASSUME Kept, NEW i, CreatedHere(i)
  PROVE  CreatedHere(i)'
BY DEF Kept, CreatedHere, Mine

LEMMA HeardStays ==
  ASSUME Kept, Lives, NEW n, Alive(n), HeardBy(n)
  PROVE  HeardBy(n)'
<1>1. PICK k \in DOMAIN log : Heard(k) /\ Takes(n, k)
  BY DEF HeardBy
<1>2. k \in DOMAIN log' /\ log'[k] = log[k] /\ creates'[n].base = creates[n].base
  BY DEF Kept, Lives
<1>3. Heard(k)' /\ Takes(n, k)'
  BY <1>1, <1>2 DEF Heard, Mine, Takes
<1> QED BY <1>2, <1>3 DEF HeardBy

LEMMA CallStays ==
  ASSUME Kept, Lives, NEW c \in Calls, CallOK(c), calls'[c] = calls[c]
  PROVE  CallOK(c)'
<1> PICK call : call = calls[c]
  OBVIOUS
<1>1. CASE call = IdleCall
  BY <1>1 DEF CallOK
<1>2. CASE Alive(call.on) /\ Saving(call)
  <2>1. Alive(call.on)'
    BY <1>2 DEF Lives
  <2>2. Saving(call)'
    BY <1>2, CreatedStays DEF Saving
  <2> QED BY <2>1, <2>2 DEF CallOK
<1>3. CASE Alive(call.on) /\ Cancelling(call)
  <2>1. Alive(call.on)'
    BY <1>3 DEF Lives
  <2>2. Cancelling(call)'
    BY <1>3, CreatedStays DEF Cancelling
  <2> QED BY <2>1, <2>2 DEF CallOK
<1>4. CASE Alive(call.on) /\ Responding(call)
  <2>1. Alive(call.on)'
    BY <1>4 DEF Lives
  <2>2. HeardBy(call.on)'
    BY <1>4, HeardStays DEF Responding
  <2>3. Responding(call)'
    BY <1>4, <2>2 DEF Responding
  <2> QED BY <2>1, <2>3 DEF CallOK
<1> QED BY <1>1, <1>2, <1>3, <1>4 DEF CallOK

LEMMA RowStays ==
  ASSUME Kept, Lives, log \in Seq(RowRecord), RuntimesInv, NEW k \in DOMAIN log, RowOK(k)
  PROVE  RowOK(k)'
<1> PICK row : row = log[k]
  OBVIOUS
<1>1. log'[k] = row
  BY DEF Kept
<1>2. CASE ~Mine(k)
  BY <1>1, <1>2 DEF Mine, RowOK, Heard
<1>3. CASE Mine(k)
  <2>1. ASSUME row.p.about \in Own PROVE CreatedHere(row.p.about)'
    BY <1>3, <2>1, CreatedStays DEF RowOK
  <2>2. ASSUME row.p.about = Other
        PROVE  \E j \in 1..(k - 1) : Heard(j)' /\ (Alive(row.via)' => Takes(row.via, j)')
    <3>1. PICK j \in 1..(k - 1) : Heard(j) /\ (Alive(row.via) => Takes(row.via, j))
      BY <1>3, <2>2 DEF RowOK
    <3>2. j \in DOMAIN log
      <4>1. k \in 1..Len(log)
        OBVIOUS
      <4> QED BY <4>1
    <3>3. log'[j] = log[j]
      BY <3>2 DEF Kept
    <3>4. Heard(j)'
      BY <3>1, <3>3 DEF Heard, Mine
    <3>5. ASSUME Alive(row.via)' PROVE Takes(row.via, j)'
      <4>1. Alive(row.via)
        BY <3>5 DEF Lives, RuntimesInv
      <4>2. creates'[row.via].base = creates[row.via].base
        BY <4>1 DEF Lives
      <4> QED BY <3>1, <3>3, <4>1, <4>2 DEF Takes
    <3> QED BY <3>4, <3>5
  <2>3. Mine(k)'
    BY <1>1, <1>3 DEF Mine
  <2> QED BY <1>1, <2>1, <2>2, <2>3 DEF RowOK
<1> QED BY <1>2, <1>3

-----------------------------------------------------------------------------
(* The initial states, and the steps *)

LEMMA InitIInv == Init => IInv
<1> SUFFICES ASSUME Init PROVE IInv
  OBVIOUS
<1>1. log = <<>> /\ DOMAIN log = {} /\ Len(log) = 0
  BY DEF Init
<1>2. TypeOK
  <2>1. IdleCall \in CallRecord
    BY DEF IdleCall, CallRecord
  <2>2. calls \in [Calls -> CallRecord]
    BY <2>1 DEF Init
  <2>3. creates \in [Runtimes -> [at : {"unused", "read", "restored", "ready", "dead"}, base : Nat]]
    BY DEF Init, Unused
  <2>4. log \in Seq([p : PacketRecord, via : Runtimes])
    BY <1>1
  <2>5. deaths \in 0..MaxDeaths
    BY BoundsAssumption DEF Init
  <2> QED BY <2>2, <2>3, <2>4, <2>5 DEF Init, TypeOK, CallRecord, NoReconfiguration
<1>3. RuntimesInv
  BY <1>1 DEF Init, RuntimesInv, Unused
<1>4. RowsInv
  BY <1>1 DEF RowsInv
<1>5. CallsInv
  BY DEF Init, CallsInv, CallOK
<1>6. ShownIsStored
  BY DEF Init, ShownIsStored
<1> QED BY <1>2, <1>3, <1>4, <1>5, <1>6 DEF IInv

\* A step that leaves the log alone and loses no runtime.
LEMMA LogStays ==
  ASSUME IInv, log' = log, Lives
  PROVE  /\ RowsInv'
         /\ (shown' = shown => ShownIsStored')
         /\ \A c \in Calls : calls'[c] = calls[c] => CallOK(c)'
<1>1. Kept
  BY DEF Kept
<1>2. log \in Seq(RowRecord)
  BY DEF IInv, TypeOK, RowRecord
<1>3. RowsInv'
  <2>1. \A k \in DOMAIN log : RowOK(k)'
    BY <1>1, <1>2, RowStays DEF IInv, RowsInv
  <2> QED BY <2>1 DEF RowsInv
<1>4. shown' = shown => ShownIsStored'
  BY <1>1 DEF IInv, ShownIsStored, Mine, Kept
<1>5. \A c \in Calls : calls'[c] = calls[c] => CallOK(c)'
  BY <1>1, CallStays DEF IInv, CallsInv
<1> QED BY <1>3, <1>4, <1>5

\* A step that leaves the start-ups alone loses no runtime.
LEMMA NothingCreated == ASSUME creates' = creates PROVE Lives
BY DEF Lives, Alive

\* A call takes a step; log and start-ups stay.
LEMMA OneCallMoves ==
  ASSUME IInv, UNCHANGED <<log, life, deaths>>, NEW c \in Calls, NEW call \in CallRecord,
         calls' = [calls EXCEPT ![c] = call], sequence' \in Nat, relays' \subseteq Runtimes,
         shown' \in Own \cup {None}, hasActive' \in BOOLEAN,
         shown' = shown \/ shown' = None \/ CreatedHere(shown'),
         \/ call = IdleCall
         \/ Alive(call.on) /\ (Saving(call) \/ Cancelling(call) \/ Responding(call))
  PROVE  IInv'
<1>1. Lives
  BY NothingCreated DEF life
<1>2. RowsInv' /\ (shown' = shown => ShownIsStored')
  BY <1>1, LogStays
<1>3. ShownIsStored'
  <2>1. CASE shown' = shown
    BY <1>2, <2>1
  <2>2. CASE shown' = None
    BY <2>2 DEF ShownIsStored
  <2>3. CASE CreatedHere(shown')
    BY <2>3 DEF CreatedHere, ShownIsStored, Mine
  <2> QED BY <2>1, <2>2, <2>3
<1>4. calls \in [Calls -> CallRecord]
  BY DEF IInv, TypeOK, CallRecord
<1>5. calls'[c] = call /\ \A d \in Calls : d # c => calls'[d] = calls[d]
  BY <1>4
<1>6. CallOK(c)'
  <2>1. CASE call = IdleCall
    BY <1>5, <2>1 DEF CallOK
  <2>2. CASE Alive(call.on) /\ (Saving(call) \/ Cancelling(call) \/ Responding(call))
    <3>1. Alive(call.on)'
      BY <2>2, <1>1 DEF Lives
    <3>2. Kept
      BY DEF Kept
    <3>3. Saving(call) => Saving(call)'
      BY <3>2, CreatedStays DEF Saving
    <3>4. Cancelling(call) => Cancelling(call)'
      BY <3>2, CreatedStays DEF Cancelling
    <3>5. Responding(call) => Responding(call)'
      BY <3>2, <1>1, <2>2, HeardStays DEF Responding
    <3> QED BY <1>5, <2>2, <3>1, <3>3, <3>4, <3>5 DEF CallOK
  <2> QED BY <2>1, <2>2
<1>7. CallsInv'
  BY <1>1, <1>5, <1>6, LogStays DEF CallsInv
<1>8. TypeOK'
  <2>1. calls' \in [Calls -> CallRecord]
    BY <1>4
  <2> QED BY <2>1 DEF IInv, TypeOK, life, CallRecord
<1>9. RuntimesInv'
  BY DEF IInv, RuntimesInv, life, Alive
<1> QED BY <1>2, <1>3, <1>7, <1>8, <1>9 DEF IInv

\* What a reducer has of the other's incident it heard of.
LEMMA HeldOther ==
  ASSUME IInv, NEW n, Alive(n), Held(n)[Other] # None
  PROVE  HeardBy(n)
<1>1. log \in Seq(RowRecord)
  BY DEF IInv, TypeOK, RowRecord
<1>2. FoldOK(n, Held(n), Len(log))
  BY <1>1, HeldFacts
<1>3. PICK j \in 1..Len(log) : First(n, Other, j)
  BY <1>2 DEF FoldOK, Incidents
<1>4. j \in DOMAIN log /\ log[j].p.about = Other /\ Takes(n, j)
  BY <1>1, <1>3 DEF First
<1>5. CASE ~Mine(j)
  BY <1>4, <1>5 DEF IInv, RowsInv, RowOK, HeardBy
<1>6. CASE Mine(j)
  <2>1. PICK h \in 1..(j - 1) : Heard(h) /\ (Alive(log[j].via) => Takes(log[j].via, h))
    BY <1>4, <1>6 DEF IInv, RowsInv, RowOK
  <2>2. h \in DOMAIN log /\ h < j /\ j \in Nat
    BY <1>1, <1>3
  <2>3. creates[n].base \in Nat
    BY DEF IInv, TypeOK, Alive
  <2>4. Takes(n, h)
    <3>1. CASE j <= creates[n].base
      BY <2>2, <2>3, <3>1 DEF Takes
    <3>2. CASE log[j].via = n
      BY <2>1, <3>2
    <3> QED BY <1>4, <3>1, <3>2 DEF Takes
  <2> QED BY <2>1, <2>2, <2>4 DEF HeardBy
<1> QED BY <1>5, <1>6

\* What a start-up restores this phone created.
LEMMA OpenIsCreated ==
  ASSUME IInv, NEW n, Alive(n), NEW i \in OpenIn(Held(n))
  PROVE  i \in Own /\ CreatedHere(i)
<1>1. log \in Seq(RowRecord)
  BY DEF IInv, TypeOK, RowRecord
<1>2. FoldOK(n, Held(n), Len(log))
  BY <1>1, HeldFacts
<1>3. i \in Incidents /\ Held(n)[i] # None /\ Held(n)[i].own
  BY DEF OpenIn
<1>4. PICK j \in 1..Len(log) : First(n, i, j) /\ Mine(j)
  BY <1>2, <1>3 DEF FoldOK
<1>5. j \in DOMAIN log /\ log[j].p.about = i /\ Takes(n, j)
  BY <1>1, <1>4 DEF First
<1>6. i # Other
  <2> SUFFICES ASSUME i = Other PROVE FALSE
    OBVIOUS
  <2>1. PICK h \in 1..(j - 1) : Heard(h) /\ (Alive(log[j].via) => Takes(log[j].via, h))
    BY <1>4, <1>5 DEF IInv, RowsInv, RowOK
  <2>2. h < j /\ j \in Nat
    BY <1>1, <1>4
  <2>3. creates[n].base \in Nat
    BY DEF IInv, TypeOK, Alive
  <2>4. Takes(n, h)
    <3>1. CASE j <= creates[n].base
      BY <2>2, <2>3, <3>1 DEF Takes
    <3>2. CASE log[j].via = n
      BY <2>1, <3>2
    <3> QED BY <1>5, <3>1, <3>2 DEF Takes
  <2>5. UpdatesIncident(log[h].p) /\ log[h].p.about = Other
    BY <2>1 DEF Heard, UpdatesIncident, EmergencyTypes
  <2> QED BY <1>4, <2>4, <2>5 DEF First
<1>7. i \in Own
  BY <1>3, <1>6 DEF Incidents
<1> QED BY <1>4, <1>5, <1>7 DEF IInv, RowsInv, RowOK

LEMMA OpenIsOwn == IInv => \A n : Alive(n) => OpenIn(Held(n)) \subseteq Own
BY OpenIsCreated

LEMMA OpenIsOwnNext == (IInv => \A n : Alive(n) => OpenIn(Held(n)) \subseteq Own)'
BY OpenIsOwn, PTL

-----------------------------------------------------------------------------
(* The calls *)

LEMMA BeginStep ==
  ASSUME IInv, NEW c \in Calls
  PROVE  /\ BeginSave(c) => IInv'
         /\ BeginCancel(c) => IInv'
         /\ \A type \in Updates : BeginTransition(c, type) => IInv'
<1>1. /\ shown \in Own \cup {None} /\ hasActive \in BOOLEAN /\ sequence \in Nat /\ relays \subseteq Runtimes
      /\ sequence + 1 \in Nat
  BY DEF IInv, TypeOK
<1>2. runtime # 0 => Alive(runtime) /\ runtime \in Runtimes
  BY DEF IInv, RuntimesInv, Alive
<1>3. shown # None => CreatedHere(shown)
  BY DEF IInv, ShownIsStored, CreatedHere
<1>4. ASSUME BeginSave(c) PROVE IInv'
  <2> PICK call : call = Call("save", "locating", shown, None, 0)
    OBVIOUS
  <2>1. call \in CallRecord
    BY <1>1, <1>2, <1>4 DEF BeginSave, Begin, Call, CallRecord, Incidents
  <2>2. Alive(call.on) /\ Saving(call)
    BY <1>1, <1>2, <1>3, <1>4 DEF BeginSave, Begin, Call, Saving
  <2>3. UNCHANGED <<log, life, relays, screen, deaths, sequence>> /\ calls' = [calls EXCEPT ![c] = call]
    BY <1>4 DEF BeginSave, Begin
  <2> QED BY <1>1, <2>1, <2>2, <2>3, OneCallMoves DEF screen
<1>5. ASSUME BeginCancel(c) PROVE IInv'
  <2> PICK call : call = Call("cancel", "storing", shown, "SOS_CANCEL", sequence + 1)
    OBVIOUS
  <2>1. call \in CallRecord
    BY <1>1, <1>2, <1>5 DEF BeginCancel, Begin, Call, CallRecord, Incidents, MessageType, EmergencyTypes
  <2>2. Alive(call.on) /\ Cancelling(call)
    BY <1>1, <1>2, <1>3, <1>5 DEF BeginCancel, Begin, Call, Cancelling
  <2>3. /\ UNCHANGED <<log, life, relays, screen, deaths>> /\ calls' = [calls EXCEPT ![c] = call]
        /\ sequence' = sequence + 1
    BY <1>5 DEF BeginCancel, Begin
  <2> QED BY <1>1, <2>1, <2>2, <2>3, OneCallMoves DEF screen
<1>6. ASSUME NEW type \in Updates, BeginTransition(c, type) PROVE IInv'
  <2> PICK call : calls' = [calls EXCEPT ![c] = call]
                  /\ \/ call = Call(type, "storing", Other, "RESPONDER_ASSIGNED", sequence + 1)
                     \/ \E at \in {"locating", "storing"} :
                          call = Call("transition", at, Other, type, sequence + 1)
    BY <1>6 DEF BeginTransition, Begin
  <2>1. runtime # 0
    BY <1>6 DEF BeginTransition
  <2>2. HeardBy(runtime)
    BY <1>2, <1>6, <2>1, HeldOther DEF BeginTransition
  <2>3. type \in MessageType /\ "RESPONDER_ASSIGNED" \in MessageType
    BY UpdatesAssumption DEF MessageType, EmergencyTypes, ResponderLifecycle
  <2>4. call \in CallRecord
    <3>1. CASE call = Call(type, "storing", Other, "RESPONDER_ASSIGNED", sequence + 1)
      BY <1>1, <1>2, <2>1, <2>3, <3>1 DEF Call, CallRecord, Incidents
    <3>2. ASSUME NEW at \in {"locating", "storing"}, call = Call("transition", at, Other, type, sequence + 1)
          PROVE  call \in CallRecord
      BY <1>1, <1>2, <2>1, <2>3, <3>2 DEF Call, CallRecord, Incidents
    <3> QED BY <3>1, <3>2
  <2>5. Alive(call.on) /\ Responding(call)
    <3>1. Alive(runtime)
      BY <1>2, <2>1
    <3>2. CASE call = Call(type, "storing", Other, "RESPONDER_ASSIGNED", sequence + 1)
      BY <2>2, <3>1, <3>2 DEF Call, Responding
    <3>3. ASSUME NEW at \in {"locating", "storing"}, call = Call("transition", at, Other, type, sequence + 1)
          PROVE  Alive(call.on) /\ Responding(call)
      BY <2>2, <3>1, <3>3, UpdatesAssumption DEF Call, Responding
    <3> QED BY <3>2, <3>3
  <2>6. UNCHANGED <<log, life, relays, screen, deaths>> /\ sequence' = sequence + 1
    BY <1>6 DEF BeginTransition, Begin
  <2> QED BY <1>1, <2>4, <2>5, <2>6, OneCallMoves DEF screen
<1> QED BY <1>4, <1>5, <1>6

\* What the call under way is; its record taken apart.
LEMMA CallTaken ==
  ASSUME IInv, NEW c \in Calls, calls[c] # IdleCall
  PROVE  /\ calls[c] \in CallRecord
         /\ Alive(calls[c].on)
         /\ Saving(calls[c]) \/ Cancelling(calls[c]) \/ Responding(calls[c])
BY DEF IInv, TypeOK, CallRecord, CallsInv, CallOK

LEMMA LocatedStep ==
  ASSUME IInv, NEW c \in Calls, Located(c)
  PROVE  IInv'
<1>1. /\ shown \in Own \cup {None} /\ hasActive \in BOOLEAN /\ sequence \in Nat /\ relays \subseteq Runtimes
      /\ sequence + 1 \in Nat
  BY DEF IInv, TypeOK
<1> PICK old : old = calls[c]
  OBVIOUS
<1>2. /\ old \in CallRecord /\ Alive(old.on) /\ old.at = "locating"
      /\ Saving(old) \/ Cancelling(old) \/ Responding(old)
  BY CallTaken DEF Located, IdleCall
<1>3. UNCHANGED <<log, life, relays, screen, deaths>>
  BY DEF Located
<1>4. calls \in [Calls -> CallRecord]
  BY DEF IInv, TypeOK, CallRecord
<1>5. {"SOS_CREATE", "SOS_UPDATE"} \subseteq MessageType
  BY DEF MessageType, EmergencyTypes
<1> PICK kind, at, on, about, type, seq :
      old = [kind |-> kind, at |-> at, on |-> on, about |-> about, type |-> type, seq |-> seq]
  BY <1>2 DEF CallRecord
<1> DEFINE new(a, t, s) == [kind |-> kind, at |-> "storing", on |-> on, about |-> a, type |-> t, seq |-> s]
<1>6. CASE /\ old.kind = "save" /\ old.about # None
           /\ sequence' = sequence + 1
           /\ calls' = [calls EXCEPT ![c].at = "storing", ![c].type = "SOS_UPDATE", ![c].seq = sequence + 1]
  <2> PICK n \in Nat : n = sequence + 1
    BY <1>1
  <2> PICK call : call = new(about, "SOS_UPDATE", n)
    OBVIOUS
  <2>1. calls' = [calls EXCEPT ![c] = call]
    <3>1. [old EXCEPT !.at = "storing", !.type = "SOS_UPDATE", !.seq = n]
            = [[[old EXCEPT !.at = "storing"] EXCEPT !.type = "SOS_UPDATE"] EXCEPT !.seq = n]
      OBVIOUS
    <3>2. [old EXCEPT !.at = "storing"] = new(about, type, seq)
      OBVIOUS
    <3>3. [new(about, type, seq) EXCEPT !.type = "SOS_UPDATE"] = new(about, "SOS_UPDATE", seq)
      OBVIOUS
    <3>4. [new(about, "SOS_UPDATE", seq) EXCEPT !.seq = n] = new(about, "SOS_UPDATE", n)
      OBVIOUS
    <3> HIDE DEF new
    <3>5. call = [old EXCEPT !.at = "storing", !.type = "SOS_UPDATE", !.seq = n]
      BY <3>1, <3>2, <3>3, <3>4
    <3> QED BY <1>6, <3>5
  <2>2. call \in CallRecord
    BY <1>1, <1>2, <1>5 DEF CallRecord
  <2>3. Alive(call.on) /\ Saving(call)
    BY <1>2, <1>6 DEF Saving, Cancelling, Responding, CallRecord
  <2> QED BY <1>1, <1>3, <1>6, <2>1, <2>2, <2>3, OneCallMoves DEF screen
<1>7. CASE /\ old.kind = "save" /\ sequence' = sequence
           /\ \E i \in NewIds :
                calls' = [calls EXCEPT ![c].at = "storing", ![c].type = "SOS_CREATE", ![c].seq = 1, ![c].about = i]
  <2>1. PICK i \in Own :
          calls' = [calls EXCEPT ![c].at = "storing", ![c].type = "SOS_CREATE", ![c].seq = 1, ![c].about = i]
    BY <1>7 DEF NewIds
  <2> PICK call : call = new(i, "SOS_CREATE", 1)
    OBVIOUS
  <2>2. calls' = [calls EXCEPT ![c] = call]
    <3>1. [old EXCEPT !.at = "storing", !.type = "SOS_CREATE", !.seq = 1, !.about = i]
            = [[[[old EXCEPT !.at = "storing"] EXCEPT !.type = "SOS_CREATE"] EXCEPT !.seq = 1] EXCEPT !.about = i]
      OBVIOUS
    <3>2. [old EXCEPT !.at = "storing"] = new(about, type, seq)
      OBVIOUS
    <3>3. [new(about, type, seq) EXCEPT !.type = "SOS_CREATE"] = new(about, "SOS_CREATE", seq)
      OBVIOUS
    <3>4. [new(about, "SOS_CREATE", seq) EXCEPT !.seq = 1] = new(about, "SOS_CREATE", 1)
      OBVIOUS
    <3>5. [new(about, "SOS_CREATE", 1) EXCEPT !.about = i] = new(i, "SOS_CREATE", 1)
      OBVIOUS
    <3> HIDE DEF new
    <3>6. call = [old EXCEPT !.at = "storing", !.type = "SOS_CREATE", !.seq = 1, !.about = i]
      BY <3>1, <3>2, <3>3, <3>4, <3>5
    <3> QED BY <2>1, <3>6
  <2>3. call \in CallRecord
    BY <1>2, <1>5 DEF CallRecord, Incidents
  <2>4. Alive(call.on) /\ Saving(call)
    BY <1>2, <1>7 DEF Saving
  <2> QED BY <1>1, <1>3, <1>7, <2>2, <2>3, <2>4, OneCallMoves DEF screen
<1>8. CASE old.kind = "transition" /\ sequence' = sequence /\ calls' = [calls EXCEPT ![c].at = "storing"]
  <2> PICK call : call = new(about, type, seq)
    OBVIOUS
  <2>1. calls' = [calls EXCEPT ![c] = call]
    <3>1. call = [old EXCEPT !.at = "storing"]
      OBVIOUS
    <3> QED BY <1>8, <3>1
  <2>2. call \in CallRecord
    BY <1>2 DEF CallRecord
  <2>3. Alive(call.on) /\ Responding(call)
    BY <1>2, <1>8 DEF Saving, Cancelling, Responding
  <2> QED BY <1>1, <1>3, <1>8, <2>1, <2>2, <2>3, OneCallMoves DEF screen
<1> QED BY <1>6, <1>7, <1>8 DEF Located

LEMMA FinishStep ==
  ASSUME IInv, NEW c \in Calls
  PROVE  FinishSave(c) \/ FinishCancel(c) \/ FinishAssignment(c) \/ FinishTransition(c) => IInv'
<1> SUFFICES ASSUME FinishSave(c) \/ FinishCancel(c) \/ FinishAssignment(c) \/ FinishTransition(c) PROVE IInv'
  OBVIOUS
<1>1. /\ shown \in Own \cup {None} /\ hasActive \in BOOLEAN /\ sequence \in Nat /\ relays \subseteq Runtimes
      /\ sequence + 1 \in Nat
  BY DEF IInv, TypeOK
<1> PICK old : old = calls[c]
  OBVIOUS
<1>2. /\ old \in CallRecord /\ Alive(old.on) /\ old.at = "stored"
      /\ Saving(old) \/ Cancelling(old) \/ Responding(old)
  BY CallTaken DEF FinishSave, FinishCancel, FinishAssignment, FinishTransition, IdleCall
<1>3. calls \in [Calls -> CallRecord] /\ IdleCall \in CallRecord
  BY DEF IInv, TypeOK, CallRecord, IdleCall
<1>4. old.on \in Runtimes
  BY <1>2 DEF Alive
<1>5. UNCHANGED <<log, life, deaths>>
  BY DEF FinishSave, FinishCancel, FinishAssignment, FinishTransition
<1>6. CASE FinishSave(c)
  <2>1. old.about \in Own /\ CreatedHere(old.about)
    BY <1>2, <1>6, UpdatesAssumption DEF FinishSave, Saving, Cancelling, Responding
  <2>2. shown' = shown \/ (shown' = old.about /\ CreatedHere(shown'))
    BY <1>6, <2>1 DEF FinishSave
  <2> QED BY <1>1, <1>3, <1>4, <1>5, <1>6, <2>1, <2>2, OneCallMoves DEF FinishSave
<1>7. CASE FinishCancel(c)
  BY <1>1, <1>3, <1>4, <1>5, <1>7, OneCallMoves DEF FinishCancel
<1>8. CASE FinishAssignment(c)
  <2> PICK call : call = [kind |-> "transition", at |-> "storing", on |-> old.on, about |-> old.about,
                          type |-> old.kind, seq |-> sequence + 1]
    OBVIOUS
  <2>1. old.kind \in Updates /\ Responding(old)
    BY <1>2, <1>8, UpdatesAssumption DEF FinishAssignment, Saving, Cancelling
  <2>2. calls' = [calls EXCEPT ![c] = call]
    BY <1>2, <1>3, <1>8 DEF CallRecord, FinishAssignment
  <2>3. old.kind \in MessageType
    BY <2>1, UpdatesAssumption DEF MessageType, ResponderLifecycle
  <2>4. call \in CallRecord
    BY <1>1, <1>2, <2>3 DEF CallRecord
  <2>5. Alive(call.on) /\ Responding(call)
    BY <1>2, <2>1 DEF Responding
  <2> QED BY <1>1, <1>5, <1>8, <2>2, <2>4, <2>5, OneCallMoves DEF FinishAssignment, screen
<1>9. CASE FinishTransition(c)
  BY <1>1, <1>3, <1>4, <1>5, <1>9, OneCallMoves DEF FinishTransition, screen
<1> QED BY <1>6, <1>7, <1>8, <1>9

-----------------------------------------------------------------------------
(* The log grows *)

LEMMA PacketType ==
  ASSUME NEW type \in MessageType, NEW source \in {Phone, "neighbour", "responder"},
         NEW about \in Incidents, NEW seq \in Nat
  PROVE  /\ Packet(type, source, about, seq) \in PacketRecord
         /\ Packet(type, source, about, seq).type = type
         /\ Packet(type, source, about, seq).source = source
         /\ Packet(type, source, about, seq).about = about
<1> PICK class \in SourceClass :
      class = IF type \in ResponderLifecycle THEN "RESPONDER_PROVISIONED" ELSE "GENERAL_PUBLIC"
  BY DEF SourceClass
<1> PICK located \in BOOLEAN : located = (type \in {"SOS_CREATE", "SOS_UPDATE", "RESPONDER_EN_ROUTE"})
  <2>1. (type \in {"SOS_CREATE", "SOS_UPDATE", "RESPONDER_EN_ROUTE"}) \in BOOLEAN
    OBVIOUS
  <2> QED BY <2>1, Zenon
<1> PICK expires \in Nat : expires = 0 + Ttl(BudgetClassFor(type, LifeCritical))
  BY DEF Ttl
<1>1. Packet(type, source, about, seq) =
        [id |-> 0, type |-> type, source |-> source, class |-> class, about |-> about,
         ref |-> None, seq |-> seq, createdAt |-> 0, severity |-> LifeCritical,
         community |-> FALSE, located |-> located, expiresAt |-> expires]
  BY DEF Packet, Build
<1> QED BY <1>1 DEF PacketRecord, Incidents

\* A row more: the step keeps what the others say, and the new one must say as much.
LEMMA OneRowMore ==
  ASSUME IInv, UNCHANGED <<life, screen>>, NEW p \in PacketRecord, NEW n, Alive(n),
         log' = Append(log, Row(p, n)),
         p.source = Phone /\ p.about \in Own => p.type = "SOS_CREATE" \/ CreatedHere(p.about),
         p.source = Phone /\ p.about = Other => HeardBy(n),
         p.source # Phone /\ p.about = Other => p.type = "SOS_CREATE"
  PROVE  /\ log' \in Seq(RowRecord) /\ Kept /\ Lives /\ RuntimesInv' /\ RowsInv' /\ ShownIsStored'
         /\ p.source = Phone /\ p.type = "SOS_CREATE" => CreatedHere(p.about)'
<1>1. log \in Seq(RowRecord)
  BY DEF IInv, TypeOK, RowRecord
<1> PICK m \in Nat : m = Len(log)
  BY <1>1
<1> PICK row : row = Row(p, n)
  OBVIOUS
<1>2. row \in RowRecord /\ row.p = p /\ row.via = n
  BY DEF Row, RowRecord, Alive
<1>3. /\ log' \in Seq(RowRecord) /\ Len(log') = m + 1 /\ DOMAIN log = 1..m /\ DOMAIN log' = 1..(m + 1)
      /\ log'[m + 1] = row /\ \A k \in 1..m : log'[k] = log[k]
  BY <1>1, <1>2
<1> PICK l \in Nat : l = m + 1
  OBVIOUS
<1>4. l \in DOMAIN log' /\ log'[l] = row /\ \A k \in DOMAIN log' : k = l \/ k \in DOMAIN log
  BY <1>3
<1>5. Kept
  BY <1>3 DEF Kept
<1>6. Lives /\ creates' = creates
  BY NothingCreated DEF life
<1>7. RuntimesInv'
  <2>1. \A i \in Runtimes : creates[i].base <= m + 1
    <3>1. \A i \in Runtimes : creates[i].base \in Nat /\ creates[i].base <= m
      BY DEF IInv, RuntimesInv, TypeOK
    <3> QED BY <3>1
  <2>2. \A k \in DOMAIN log' : creates[log'[k].via].at # "unused"
    BY <1>2, <1>4, <1>5 DEF IInv, RuntimesInv, Alive, Kept
  <2> QED BY <1>3, <1>6, <2>1, <2>2 DEF IInv, RuntimesInv, Alive, life
<1>8. p.source = Phone /\ p.type = "SOS_CREATE" => CreatedHere(p.about)'
  BY <1>2, <1>4 DEF CreatedHere, Mine
<1>9. RowsInv'
  <2>1. ASSUME NEW k \in DOMAIN log PROVE RowOK(k)'
    BY <1>1, <1>5, <1>6, RowStays DEF IInv, RowsInv
  <2>2. RowOK(l)'
    <3>1. Mine(l)' <=> p.source = Phone
      BY <1>2, <1>4 DEF Mine
    <3>2. ASSUME p.source = Phone, p.about \in Own PROVE CreatedHere(p.about)'
      BY <1>5, <1>8, <3>2, CreatedStays
    <3>3. ASSUME p.source = Phone, p.about = Other
          PROVE  \E j \in 1..(l - 1) : Heard(j)' /\ (Alive(n)' => Takes(n, j)')
      <4>1. PICK j \in DOMAIN log : Heard(j) /\ Takes(n, j)
        BY <3>3 DEF HeardBy
      <4>2. j \in 1..(l - 1) /\ log'[j] = log[j]
        BY <1>3, <4>1
      <4> QED BY <1>6, <4>1, <4>2 DEF Heard, Mine, Takes
    <3>4. ASSUME p.source # Phone, p.about = Other PROVE Heard(l)'
      BY <1>2, <1>4, <3>1, <3>4 DEF Heard
    <3> QED BY <1>2, <1>4, <3>1, <3>2, <3>3, <3>4 DEF RowOK
  <2> QED BY <1>4, <2>1, <2>2 DEF RowsInv
<1>10. ShownIsStored'
  BY <1>5, CreatedStays DEF IInv, ShownIsStored, screen, CreatedHere, Mine, Kept
<1> QED BY <1>3, <1>5, <1>6, <1>7, <1>8, <1>9, <1>10

\* What a call that stores its packet says in it.
LEMMA StoringFacts ==
  ASSUME IInv, NEW c \in Calls, calls[c].at = "storing"
  PROVE  /\ calls[c].type \in MessageType /\ calls[c].about \in Incidents /\ calls[c].seq \in Nat
         /\ calls[c].about \in Own => calls[c].type = "SOS_CREATE" \/ CreatedHere(calls[c].about)
         /\ calls[c].about = Other => HeardBy(calls[c].on)
<1> PICK old : old = calls[c]
  OBVIOUS
<1>1. old \in CallRecord /\ old.at = "storing" /\ (Saving(old) \/ Cancelling(old) \/ Responding(old))
  BY CallTaken DEF IdleCall
<1>2. CASE Saving(old)
  BY <1>1, <1>2, NamesAssumption DEF Saving, CallRecord, Incidents, MessageType, EmergencyTypes
<1>3. CASE Cancelling(old)
  BY <1>1, <1>3, NamesAssumption DEF Cancelling, CallRecord, Incidents, MessageType, EmergencyTypes
<1>4. CASE Responding(old)
  BY <1>1, <1>4, NamesAssumption, UpdatesAssumption
     DEF Responding, CallRecord, Incidents, MessageType, ResponderLifecycle
<1> QED BY <1>1, <1>2, <1>3, <1>4

LEMMA InsertStep ==
  ASSUME IInv, NEW c \in Calls, Insert(c)
  PROVE  IInv'
<1> PICK old : old = calls[c]
  OBVIOUS
<1>1. /\ old \in CallRecord /\ Alive(old.on) /\ old.at = "storing"
      /\ Saving(old) \/ Cancelling(old) \/ Responding(old)
  BY CallTaken DEF Insert, IdleCall
<1>2. calls \in [Calls -> CallRecord]
  BY DEF IInv, TypeOK, CallRecord
<1>3. /\ old.type \in MessageType /\ old.about \in Incidents /\ old.seq \in Nat
      /\ old.about \in Own => old.type = "SOS_CREATE" \/ CreatedHere(old.about)
      /\ old.about = Other => HeardBy(old.on)
  BY <1>1, StoringFacts
<1> PICK p : p = Packet(old.type, Phone, old.about, old.seq)
  OBVIOUS
<1>4. p \in PacketRecord /\ p.type = old.type /\ p.source = Phone /\ p.about = old.about
  BY <1>3, PacketType
<1>5. log' = Append(log, Row(p, old.on)) /\ UNCHANGED <<life, relays, sequence, screen, deaths>>
  BY DEF Insert
<1>6. /\ log' \in Seq(RowRecord) /\ Kept /\ Lives /\ RuntimesInv' /\ RowsInv' /\ ShownIsStored'
      /\ p.source = Phone /\ p.type = "SOS_CREATE" => CreatedHere(p.about)'
  BY <1>1, <1>3, <1>4, <1>5, OneRowMore
<1> PICK call : call = [old EXCEPT !.at = "stored"]
  OBVIOUS
<1>7. /\ call \in CallRecord /\ call.at = "stored" /\ call.kind = old.kind /\ call.on = old.on
      /\ call.about = old.about /\ call.type = old.type
  BY <1>1 DEF CallRecord
<1>8. calls' = [calls EXCEPT ![c] = call]
  BY DEF Insert
<1>9. calls' \in [Calls -> CallRecord] /\ calls'[c] = call /\ \A d \in Calls : d # c => calls'[d] = calls[d]
  BY <1>2, <1>7, <1>8
<1>10. CallOK(c)'
  <2>1. Alive(call.on)'
    BY <1>1, <1>6, <1>7 DEF Lives
  <2>2. CASE Saving(old)
    <3>1. CreatedHere(old.about)'
      BY <1>1, <1>4, <1>6, <2>2, CreatedStays DEF Saving
    <3>2. Saving(call)'
      BY <1>1, <1>7, <2>2, <3>1 DEF Saving
    <3> QED BY <1>9, <2>1, <3>2 DEF CallOK
  <2>3. CASE Cancelling(old)
    <3>1. CreatedHere(old.about)'
      BY <1>6, <2>3, CreatedStays DEF Cancelling
    <3>2. Cancelling(call)'
      BY <1>7, <2>3, <3>1 DEF Cancelling
    <3> QED BY <1>9, <2>1, <3>2 DEF CallOK
  <2>4. CASE Responding(old)
    <3>1. HeardBy(old.on)'
      BY <1>1, <1>6, <2>4, HeardStays DEF Responding
    <3>2. Responding(call)'
      BY <1>7, <2>4, <3>1 DEF Responding
    <3> QED BY <1>9, <2>1, <3>2 DEF CallOK
  <2> QED BY <1>1, <2>2, <2>3, <2>4
<1>11. CallsInv'
  BY <1>6, <1>9, <1>10, CallStays DEF IInv, CallsInv
<1>12. TypeOK'
  BY <1>5, <1>6, <1>9 DEF IInv, TypeOK, RowRecord, CallRecord, life, screen
<1> QED BY <1>6, <1>11, <1>12 DEF IInv

LEMMA ArrivingFacts ==
  ASSUME NEW p \in Arriving
  PROVE  p \in PacketRecord /\ p.source # Phone /\ (p.about = Other => p.type = "SOS_CREATE")
<1>1. {"SOS_CREATE", "RESOLVED"} \subseteq MessageType
  BY DEF MessageType, EmergencyTypes, ResponderLifecycle
<1>2. CASE p = Packet("SOS_CREATE", "neighbour", Other, 1)
  BY <1>1, <1>2, PacketType, NamesAssumption DEF Incidents
<1>3. ASSUME NEW i \in Own, p = Packet("RESOLVED", "responder", i, 2)
      PROVE  p \in PacketRecord /\ p.source # Phone /\ (p.about = Other => p.type = "SOS_CREATE")
  BY <1>1, <1>3, PacketType, NamesAssumption DEF Incidents
<1> QED BY <1>2, <1>3 DEF Arriving

LEMMA ReceiveStep ==
  ASSUME IInv, NEW p \in Arriving, Receive(p)
  PROVE  IInv'
<1>1. p \in PacketRecord /\ p.source # Phone /\ (p.about = Other => p.type = "SOS_CREATE")
  BY ArrivingFacts
<1>2. Alive(runtime)
  BY DEF IInv, RuntimesInv, Receive
<1>3. log' = Append(log, Row(p, runtime)) /\ UNCHANGED <<life, relays, sequence, screen, calls, deaths>>
  BY DEF Receive
<1>4. log' \in Seq(RowRecord) /\ Kept /\ Lives /\ RuntimesInv' /\ RowsInv' /\ ShownIsStored'
  BY <1>1, <1>2, <1>3, OneRowMore
<1>5. CallsInv'
  BY <1>3, <1>4, CallStays DEF IInv, CallsInv
<1>6. TypeOK'
  BY <1>3, <1>4 DEF IInv, TypeOK, RowRecord, life, screen
<1> QED BY <1>4, <1>5, <1>6 DEF IInv

-----------------------------------------------------------------------------
(* Start-ups *)

CreateRecord == [at : {"unused", "read", "restored", "ready", "dead"}, base : Nat]

\* What a step may do to the start-ups: begin one that reads the log, and let
\* one go on.
CreatesMove ==
  /\ creates' \in [Runtimes -> CreateRecord] /\ Lives
  /\ \A n \in Runtimes : creates'[n].base <= Len(log)
  /\ \A n \in Runtimes : creates[n].at # "unused" => creates'[n].at # "unused"

LEMMA CreatedFacts ==
  ASSUME IInv, NEW n \in Runtimes, creates[n].at = "unused", creates' = Created(n)
  PROVE  CreatesMove /\ Alive(n)'
<1> PICK base \in Nat : base = Len(log)
  BY DEF IInv, TypeOK
<1>1. creates \in [Runtimes -> CreateRecord] /\ \A m \in Runtimes : creates[m].base <= base
  BY DEF IInv, TypeOK, CreateRecord, RuntimesInv
<1>2. creates' = [creates EXCEPT ![n] = [at |-> "read", base |-> base]]
  BY DEF Created
<1>3. /\ creates' \in [Runtimes -> CreateRecord]
      /\ \A m \in Runtimes : creates'[m] = IF m = n THEN [at |-> "read", base |-> base] ELSE creates[m]
  BY <1>1, <1>2 DEF CreateRecord
<1>4. Lives /\ Alive(n)'
  BY <1>3 DEF Lives, Alive
<1> QED BY <1>1, <1>3, <1>4 DEF CreatesMove

LEMMA MovedFacts ==
  ASSUME IInv, NEW n \in Runtimes, creates[n].at \in {"read", "restored"}, NEW at \in {"restored", "ready"},
         creates' = [creates EXCEPT ![n].at = at]
  PROVE  CreatesMove /\ Alive(n)'
<1> PICK base \in Nat : base = Len(log)
  BY DEF IInv, TypeOK
<1>1. creates \in [Runtimes -> CreateRecord] /\ \A m \in Runtimes : creates[m].base <= base
  BY DEF IInv, TypeOK, CreateRecord, RuntimesInv
<1> PICK new : new = [creates[n] EXCEPT !.at = at]
  OBVIOUS
<1>2. new \in CreateRecord /\ new.at = at /\ new.base = creates[n].base
  BY <1>1 DEF CreateRecord
<1>3. creates' = [creates EXCEPT ![n] = new]
  OBVIOUS
<1>4. creates' \in [Runtimes -> CreateRecord] /\ \A m \in Runtimes : creates'[m] = IF m = n THEN new ELSE creates[m]
  BY <1>1, <1>2, <1>3
<1>5. Lives /\ Alive(n)'
  BY <1>2, <1>4 DEF Lives, Alive
<1> QED BY <1>1, <1>2, <1>4, <1>5 DEF CreatesMove

LEMMA ViaFacts ==
  ASSUME IInv
  PROVE  \A k \in DOMAIN log : log[k].via \in Runtimes
<1>1. log \in Seq(RowRecord)
  BY DEF IInv, TypeOK, RowRecord
<1>2. \A k \in DOMAIN log : log[k] \in RowRecord
  BY <1>1
<1> QED BY <1>2 DEF RowRecord

\* A step of the start-ups or of the session: log and calls stay.
LEMMA StartUpMoves ==
  ASSUME IInv, UNCHANGED <<log, calls, deaths>>, CreatesMove,
         session' \in {"out", "in"}, role' \in Roles,
         runtime' = 0 \/ Alive(runtime)', initializing' = 0 \/ Alive(initializing)',
         reconfiguring' \in [on : Runtimes \cup {0}, resume : BOOLEAN], relays' \subseteq Runtimes,
         sequence' \in Nat, shown' \in Own \cup {None}, hasActive' \in BOOLEAN,
         shown' = shown \/ shown' = None \/ CreatedHere(shown')
  PROVE  IInv'
<1>1. RowsInv' /\ (shown' = shown => ShownIsStored') /\ \A c \in Calls : CallOK(c)'
  BY LogStays DEF CreatesMove
<1>2. CallsInv'
  BY <1>1 DEF CallsInv
<1>3. ShownIsStored'
  <2>1. CASE shown' = shown
    BY <1>1, <2>1
  <2>2. CASE shown' = None
    BY <2>2 DEF ShownIsStored
  <2>3. CASE CreatedHere(shown')
    BY <2>3 DEF CreatedHere, ShownIsStored, Mine
  <2> QED BY <2>1, <2>2, <2>3
<1>4. RuntimesInv'
  <2>1. \A k \in DOMAIN log : creates'[log[k].via].at # "unused"
    <3>1. \A k \in DOMAIN log : creates[log[k].via].at # "unused"
      BY DEF IInv, RuntimesInv
    <3> QED BY <3>1, ViaFacts DEF CreatesMove
  <2> QED BY <2>1 DEF RuntimesInv, CreatesMove
<1>5. TypeOK'
  <2>1. (runtime \in Runtimes \cup {0} /\ initializing \in Runtimes \cup {0})'
    BY DEF Alive
  <2> QED BY <2>1 DEF IInv, TypeOK, CreatesMove, CreateRecord
<1> QED BY <1>1, <1>2, <1>3, <1>4, <1>5 DEF IInv

\* The bounds and shapes that the steps of the start-ups start from.
LEMMA Shapes ==
  ASSUME IInv
  PROVE  /\ session \in {"out", "in"} /\ role \in Roles
         /\ runtime = 0 \/ Alive(runtime)
         /\ initializing = 0 \/ Alive(initializing)
         /\ creates \in [Runtimes -> CreateRecord]
         /\ reconfiguring \in [on : Runtimes \cup {0}, resume : BOOLEAN]
         /\ relays \subseteq Runtimes /\ sequence \in Nat
         /\ shown \in Own \cup {None} /\ hasActive \in BOOLEAN
         /\ 0 \notin Runtimes
BY RuntimesAssumption DEF IInv, TypeOK, RuntimesInv, CreateRecord

LEMMA SameCreates ==
  ASSUME IInv, creates' = creates
  PROVE  CreatesMove
BY NothingCreated DEF CreatesMove, IInv, TypeOK, RuntimesInv, CreateRecord

LEMMA RestoreStep ==
  ASSUME IInv, NEW n \in Runtimes, Restore(n)
  PROVE  IInv'
<1> PICK open : open = OpenIn(Held(n))
  OBVIOUS
<1>1. /\ creates[n].at = "read" /\ creates' = [creates EXCEPT ![n].at = "restored"]
      /\ sequence' = Max({1, MaxSourceSequence(SubSeq(log, 1, creates[n].base))})
      /\ shown' \in (IF open = {} THEN {None} ELSE open) /\ hasActive' = (open # {})
      /\ UNCHANGED <<log, session, role, runtime, initializing, reconfiguring, relays, calls, deaths>>
  BY DEF Restore
<1>2. CreatesMove /\ Alive(n)
  BY <1>1, MovedFacts DEF Alive
<1>3. sequence' \in Nat
  <2>1. log \in Seq(RowRecord) /\ creates[n].base \in Nat /\ creates[n].base <= Len(log)
    BY DEF IInv, TypeOK, RuntimesInv, RowRecord
  <2>2. MaxSourceSequence(SubSeq(log, 1, creates[n].base)) \in Nat
    BY <2>1, MaxSourceType
  <2> QED BY <1>1, <2>2, MaxOfTwo
<1>4. \A i \in open : i \in Own /\ CreatedHere(i)
  BY <1>2, OpenIsCreated
<1>5. shown' \in Own \cup {None} /\ (shown' = None \/ CreatedHere(shown'))
  BY <1>1, <1>4
<1>6. hasActive' \in BOOLEAN
  <2>1. (open # {}) \in BOOLEAN
    OBVIOUS
  <2> QED BY <1>1, <2>1, Zenon
<1>7. (runtime' = 0 \/ Alive(runtime)') /\ (initializing' = 0 \/ Alive(initializing)')
  BY <1>1, <1>2, Shapes DEF CreatesMove, Lives
<1> QED BY <1>1, <1>2, <1>3, <1>5, <1>6, <1>7, Shapes, StartUpMoves

LEMMA ReadyStep ==
  ASSUME IInv, NEW n \in Runtimes, Ready(n)
  PROVE  IInv'
<1>1. /\ creates[n].at = "restored" /\ runtime' = n /\ initializing' = 0
      /\ UNCHANGED <<log, session, role, reconfiguring, relays, sequence, screen, calls, deaths>>
  BY DEF Ready
<1>2. CreatesMove /\ Alive(n)'
  <2>1. CASE creates' = [creates EXCEPT ![n].at = "ready"]
    BY <1>1, <2>1, MovedFacts
  <2>2. ASSUME NEW m \in Runtimes, FirstUnused(m), creates' = [Created(m) EXCEPT ![n].at = "ready"]
        PROVE  CreatesMove /\ Alive(n)'
    <3> PICK base \in Nat : base = Len(log)
      BY DEF IInv, TypeOK
    <3>1. /\ creates \in [Runtimes -> CreateRecord] /\ \A i \in Runtimes : creates[i].base <= base
          /\ creates[m].at = "unused" /\ m # n
      BY <1>1, <2>2 DEF IInv, TypeOK, CreateRecord, RuntimesInv, FirstUnused
    <3> PICK new : new = [creates[n] EXCEPT !.at = "ready"]
      OBVIOUS
    <3>2. new \in CreateRecord /\ new.at = "ready" /\ new.base = creates[n].base
      BY <3>1 DEF CreateRecord
    <3> PICK read : read = [at |-> "read", base |-> base]
      OBVIOUS
    <3>3. read \in CreateRecord /\ read.at = "read" /\ read.base = base
      BY DEF CreateRecord
    <3> PICK created : created = [creates EXCEPT ![m] = read]
      OBVIOUS
    <3>4. created \in [Runtimes -> CreateRecord] /\ created[n] = creates[n]
          /\ \A i \in Runtimes : created[i] = IF i = m THEN read ELSE creates[i]
      BY <3>1, <3>3
    <3>5. Created(m) = created
      BY DEF Created
    <3>6. creates' = [created EXCEPT ![n] = new]
      BY <2>2, <3>4, <3>5
    <3>7. /\ creates' \in [Runtimes -> CreateRecord]
          /\ \A i \in Runtimes : creates'[i] = IF i = n THEN new ELSE IF i = m THEN read ELSE creates[i]
      BY <3>2, <3>4, <3>6
    <3>8. Lives /\ Alive(n)'
      BY <1>1, <3>1, <3>2, <3>3, <3>7 DEF Lives, Alive
    <3>9. \A i \in Runtimes : creates'[i].base <= Len(log)
      <4>1. ASSUME NEW i \in Runtimes PROVE creates'[i].base <= base
        <5>1. CASE i = n
          BY <3>1, <3>2, <3>7, <5>1
        <5>2. CASE i # n /\ i = m
          BY <3>3, <3>7, <5>2
        <5>3. CASE i # n /\ i # m
          BY <3>1, <3>7, <5>3
        <5> QED BY <5>1, <5>2, <5>3
      <4> QED BY <4>1
    <3>10. \A i \in Runtimes : creates[i].at # "unused" => creates'[i].at # "unused"
      BY <3>2, <3>3, <3>7
    <3> QED BY <3>7, <3>8, <3>9, <3>10 DEF CreatesMove
  <2> QED BY <2>1, <2>2 DEF Ready
<1>3. Alive(runtime)'
  BY <1>1, <1>2 DEF Alive
<1> QED BY <1>1, <1>2, <1>3, Shapes, StartUpMoves DEF screen

LEMMA LoginStep ==
  ASSUME IInv, NEW n \in Runtimes, Login(n)
  PROVE  IInv'
<1>1. session' = "in" /\ UNCHANGED <<log, role, runtime, reconfiguring, relays, sequence, screen, calls, deaths>>
  BY DEF Login
<1>2. CASE initializing' = initializing /\ creates' = creates
  <2>1. CreatesMove
    BY <1>2, SameCreates
  <2>2. (runtime' = 0 \/ Alive(runtime)') /\ (initializing' = 0 \/ Alive(initializing)')
    BY <1>1, <1>2, <2>1, Shapes DEF CreatesMove, Lives
  <2> QED BY <1>1, <2>1, <2>2, Shapes, StartUpMoves DEF screen
<1>3. CASE FirstUnused(n) /\ initializing' = n /\ creates' = Created(n)
  <2>1. CreatesMove /\ Alive(n)'
    BY <1>3, CreatedFacts DEF FirstUnused
  <2>2. (runtime' = 0 \/ Alive(runtime)') /\ Alive(initializing)'
    BY <1>1, <1>3, <2>1, Shapes DEF CreatesMove, Lives, Alive
  <2> QED BY <1>1, <2>1, <2>2, Shapes, StartUpMoves DEF screen
<1> QED BY <1>2, <1>3 DEF Login

LEMMA ReconfigureStep ==
  ASSUME IInv, NEW r \in Roles, NEW n \in Runtimes, Reconfigure(r, n)
  PROVE  IInv'
<1>1. /\ role' = r /\ runtime' = 0 /\ relays' = relays \ {runtime}
      /\ reconfiguring' = [on |-> n, resume |-> runtime \in relays]
      /\ UNCHANGED <<log, session, sequence, screen, calls, deaths>>
  BY DEF Reconfigure
<1>2. reconfiguring' \in [on : Runtimes \cup {0}, resume : BOOLEAN]
  <2>1. (runtime \in relays) \in BOOLEAN
    OBVIOUS
  <2> QED BY <1>1, <2>1
<1>3. CASE initializing' = initializing /\ creates' = creates
  <2>1. CreatesMove
    BY <1>3, SameCreates
  <2>2. initializing' = 0 \/ Alive(initializing)'
    BY <1>3, <2>1, Shapes DEF CreatesMove, Lives
  <2> QED BY <1>1, <1>2, <2>1, <2>2, Shapes, StartUpMoves DEF screen
<1>4. CASE FirstUnused(n) /\ initializing' = n /\ creates' = Created(n)
  <2>1. CreatesMove /\ Alive(n)'
    BY <1>4, CreatedFacts DEF FirstUnused
  <2>2. Alive(initializing)'
    BY <1>4, <2>1 DEF Alive
  <2> QED BY <1>1, <1>2, <2>1, <2>2, Shapes, StartUpMoves DEF screen
<1> QED BY <1>3, <1>4 DEF Reconfigure

LEMMA StopStep ==
  ASSUME IInv, ResumeRelay \/ Logout
  PROVE  IInv'
<1>1. UNCHANGED <<log, role, creates, sequence, screen, calls, deaths>>
  BY DEF ResumeRelay, Logout
<1>2. CreatesMove
  BY <1>1, SameCreates
<1>3. CASE ResumeRelay
  <2>1. reconfiguring.on \in Runtimes
    BY <1>3, Shapes DEF ResumeRelay
  <2>2. relays' \subseteq Runtimes /\ reconfiguring' \in [on : Runtimes \cup {0}, resume : BOOLEAN]
    BY <1>3, <2>1, Shapes DEF ResumeRelay, NoReconfiguration
  <2>3. session' = session /\ runtime' = runtime /\ initializing' = initializing
    BY <1>3 DEF ResumeRelay
  <2>4. (runtime' = 0 \/ Alive(runtime)') /\ (initializing' = 0 \/ Alive(initializing)')
    BY <1>2, <2>3, Shapes DEF CreatesMove, Lives
  <2> QED BY <1>1, <1>2, <2>2, <2>3, <2>4, Shapes, StartUpMoves DEF screen
<1>4. CASE Logout
  BY <1>1, <1>2, <1>4, Shapes, StartUpMoves DEF Logout, screen
<1> QED BY <1>3, <1>4

LEMMA DieStep ==
  ASSUME IInv, Die
  PROVE  IInv'
<1>1. /\ deaths < MaxDeaths /\ deaths' = deaths + 1 /\ session' = "out"
      /\ runtime' = 0 /\ initializing' = 0 /\ reconfiguring' = NoReconfiguration
      /\ creates' = [n \in Runtimes |-> IF creates[n].at = "unused" THEN Unused ELSE [at |-> "dead", base |-> 0]]
      /\ relays' = {} /\ sequence' = 1 /\ calls' = [c \in Calls |-> IdleCall]
      /\ UNCHANGED <<log, role, screen>>
  BY DEF Die
<1>2. log \in Seq(RowRecord)
  BY DEF IInv, TypeOK, RowRecord
<1>3. creates' \in [Runtimes -> CreateRecord]
  BY <1>1 DEF CreateRecord, Unused
<1>4. TypeOK'
  <2>1. IdleCall \in CallRecord
    BY DEF IdleCall, CallRecord
  <2>2. calls' \in [Calls -> CallRecord]
    BY <1>1, <2>1
  <2>3. deaths' \in 0..MaxDeaths
    BY <1>1, BoundsAssumption DEF IInv, TypeOK
  <2>4. reconfiguring' \in [on : Runtimes \cup {0}, resume : BOOLEAN]
    BY <1>1 DEF NoReconfiguration
  <2> QED BY <1>1, <1>3, <2>2, <2>3, <2>4 DEF IInv, TypeOK, CallRecord, CreateRecord, screen
<1>5. RuntimesInv'
  <2>1. \A n \in Runtimes : creates'[n].base = 0
    BY <1>1 DEF Unused
  <2>2. \A k \in DOMAIN log : creates[log[k].via].at # "unused"
    BY DEF IInv, RuntimesInv
  <2>3. \A k \in DOMAIN log : creates'[log[k].via].at # "unused"
    BY <1>1, <2>2, ViaFacts
  <2>4. Len(log) \in Nat
    BY <1>2
  <2> QED BY <1>1, <2>1, <2>3, <2>4 DEF RuntimesInv
<1>6. RowsInv'
  <2>1. \A n : ~Alive(n)'
    BY <1>1 DEF Alive, Unused
  <2>2. ASSUME NEW k \in DOMAIN log PROVE RowOK(k)'
    BY <1>1, <2>1 DEF IInv, RowsInv, RowOK, Heard, Mine, CreatedHere
  <2> QED BY <1>1, <2>2 DEF RowsInv
<1>7. CallsInv'
  BY <1>1 DEF CallsInv, CallOK
<1>8. ShownIsStored'
  BY <1>1 DEF IInv, ShownIsStored, Mine, screen
<1> QED BY <1>4, <1>5, <1>6, <1>7, <1>8 DEF IInv

LEMMA StepKeepsIInv == IInv /\ [Next]_vars => IInv'
<1> SUFFICES ASSUME IInv, [Next]_vars PROVE IInv'
  OBVIOUS
<1>1. CASE StartUp
  BY <1>1, RestoreStep, ReadyStep DEF StartUp
<1>2. CASE Session
  BY <1>2, LoginStep, ReconfigureStep, StopStep, DieStep DEF Session
<1>3. ASSUME NEW c \in Calls, Serve(c) PROVE IInv'
  BY <1>3, BeginStep, LocatedStep, InsertStep, FinishStep DEF Serve
<1>4. ASSUME NEW p \in Arriving, Receive(p) PROVE IInv'
  BY <1>4, ReceiveStep
<1>5. CASE UNCHANGED vars
  <2>1. UNCHANGED <<log, session, role, runtime, initializing, creates, reconfiguring, relays, sequence,
                    shown, hasActive, calls, deaths>>
    BY <1>5 DEF vars, life, screen
  <2>2. CreatesMove
    BY <2>1, SameCreates
  <2>3. (runtime' = 0 \/ Alive(runtime)') /\ (initializing' = 0 \/ Alive(initializing)')
    BY <2>1, <2>2, Shapes DEF CreatesMove, Lives
  <2> QED BY <2>1, <2>2, <2>3, Shapes, StartUpMoves
<1> QED BY <1>1, <1>2, <1>3, <1>4, <1>5 DEF Next

\* The inductive invariant: where the rows, the calls and the screens' word come
\* from, whatever start-ups, logouts and deaths came between.
THEOREM OriginsInvariant == Spec => []IInv
BY InitIInv, StepKeepsIInv, PTL DEF Spec

\* Every variable keeps the shape of the state it models.
THEOREM TypeCorrect == Spec => []TypeOK
<1>1. IInv => TypeOK
  BY DEF IInv
<1> QED BY <1>1, OriginsInvariant, PTL

\* What a phone shows as its user's SOS (activeIncidentId) it created and stored,
\* whatever calls overlapped, and wherever the process died.
THEOREM OnlyStoredIsShown == Spec => []ShownIsStored
<1>1. IInv => ShownIsStored
  BY DEF IInv
<1> QED BY <1>1, OriginsInvariant, PTL

-----------------------------------------------------------------------------
(* Numbers grow as long as no logout cuts a start-up: then start-ups come one  *)
(* after another, and each counts on from at least where the last one began.   *)

\* One start-up at a time, and it has read as much as any before it.
OneStartUp ==
  /\ \A n \in Runtimes : creates[n].at \in {"read", "restored"} => initializing = n
  /\ \A n \in Runtimes : creates[n].at = "read" => \A m \in Runtimes : creates[m].base <= creates[n].base
  /\ runtime # 0 => creates[runtime].at = "ready"

\* The counter is not behind what the restored runtimes read.
Counted ==
  \A n \in Runtimes : creates[n].at \in {"restored", "ready"} =>
    \A j \in 1..creates[n].base : Mine(j) => log[j].p.seq <= sequence

\* What a runtime read of an incident has numbers below this one.
Beyond(n, about, seq) ==
  \A j \in 1..creates[n].base : Mine(j) /\ log[j].p.about = about => log[j].p.seq < seq

HasNumber(call) == call.at = "storing" \/ (call.at = "locating" /\ call.kind = "transition")

CallNumbered(c) ==
  calls[c] # IdleCall =>
    /\ creates[calls[c].on].at = "ready"
    /\ HasNumber(calls[c]) => Beyond(calls[c].on, calls[c].about, calls[c].seq)

CallsNumbered == \A c \in Calls : CallNumbered(c)

NumbersInv == OneStartUp /\ Counted /\ CallsNumbered /\ NumbersGrowPastTheLog

LEMMA NumberShapes ==
  ASSUME IInv
  PROVE  /\ log \in Seq(RowRecord) /\ Len(log) \in Nat /\ DOMAIN log = 1..Len(log)
         /\ \A k \in DOMAIN log : log[k] \in RowRecord /\ log[k].via \in Runtimes /\ log[k].p.seq \in Nat
         /\ sequence \in Nat /\ creates \in [Runtimes -> CreateRecord] /\ 0 \notin Runtimes
         /\ \A n \in Runtimes : /\ creates[n].base \in Nat /\ creates[n].base <= Len(log)
                                /\ 1..creates[n].base \subseteq DOMAIN log
<1>1. log \in Seq(RowRecord)
  BY DEF IInv, TypeOK, RowRecord
<1>2. Len(log) \in Nat /\ DOMAIN log = 1..Len(log) /\ \A k \in DOMAIN log : log[k] \in RowRecord
  BY <1>1
<1>3. creates \in [Runtimes -> CreateRecord] /\ \A n \in Runtimes : creates[n].base <= Len(log)
  BY DEF IInv, TypeOK, CreateRecord, RuntimesInv
<1>4. \A n \in Runtimes : creates[n].base \in Nat
  BY <1>3 DEF CreateRecord
<1>5. ASSUME NEW n \in Runtimes PROVE 1..creates[n].base \subseteq DOMAIN log
  <2> PICK b \in Nat, m \in Nat : b = creates[n].base /\ m = Len(log)
    BY <1>2, <1>4
  <2>1. b <= m
    BY <1>3
  <2>2. 1..b \subseteq 1..m
    BY <2>1
  <2> QED BY <1>2, <2>2
<1>6. \A k \in DOMAIN log : log[k].via \in Runtimes /\ log[k].p.seq \in Nat
  BY <1>2 DEF RowRecord, PacketRecord
<1> QED BY <1>1, <1>2, <1>3, <1>4, <1>5, <1>6, RuntimesAssumption DEF IInv, TypeOK

\* The counter's next number is beyond what a ready runtime read.
LEMMA NextNumber ==
  ASSUME IInv, Counted, NEW n \in Runtimes, creates[n].at = "ready", NEW about
  PROVE  Beyond(n, about, sequence + 1)
<1> SUFFICES ASSUME NEW j \in 1..creates[n].base, Mine(j), log[j].p.about = about
             PROVE  log[j].p.seq < sequence + 1
  BY DEF Beyond
<1>1. log[j].p.seq <= sequence
  BY DEF Counted
<1>2. log[j].p.seq \in Nat /\ sequence \in Nat
  BY NumberShapes
<1> QED BY <1>1, <1>2

\* A call takes a step; log and start-ups stay.
LEMMA NumbersOfCall ==
  ASSUME IInv, NumbersInv, UNCHANGED <<log, life>>, NEW c \in Calls,
         \A d \in Calls : d # c => calls'[d] = calls[d],
         sequence' \in {sequence, sequence + 1}, CallNumbered(c)'
  PROVE  NumbersInv'
<1>1. OneStartUp'
  BY DEF NumbersInv, OneStartUp, life
<1>2. Counted'
  <2> SUFFICES ASSUME NEW n \in Runtimes, creates[n].at \in {"restored", "ready"},
                      NEW j \in 1..creates[n].base, Mine(j)
               PROVE  log[j].p.seq <= sequence'
    BY DEF Counted, life, Mine
  <2>1. log[j].p.seq <= sequence
    BY DEF NumbersInv, Counted
  <2>2. log[j].p.seq \in Nat /\ sequence \in Nat
    BY NumberShapes
  <2> QED BY <2>1, <2>2
<1>3. CallsNumbered'
  <2>1. ASSUME NEW d \in Calls, d # c PROVE CallNumbered(d)'
    <3>1. calls'[d] = calls[d] /\ CallNumbered(d)
      BY <2>1 DEF NumbersInv, CallsNumbered
    <3> QED BY <3>1 DEF CallNumbered, Beyond, Mine, life
  <2> QED BY <2>1 DEF CallsNumbered
<1>4. NumbersGrowPastTheLog'
  BY DEF NumbersInv, NumbersGrowPastTheLog, Mine, life
<1> QED BY <1>1, <1>2, <1>3, <1>4 DEF NumbersInv

LEMMA NumbersOfBegin ==
  ASSUME IInv, NumbersInv, NEW c \in Calls,
         BeginSave(c) \/ BeginCancel(c) \/ \E type \in Updates : BeginTransition(c, type)
  PROVE  NumbersInv'
<1>1. UNCHANGED <<log, life>>
  BY DEF BeginSave, BeginCancel, BeginTransition, Begin
<1>2. runtime \in Runtimes /\ creates[runtime].at = "ready"
  BY DEF BeginSave, BeginCancel, BeginTransition, Begin, IInv, TypeOK, NumbersInv, OneStartUp
<1> PICK call : calls' = [calls EXCEPT ![c] = call] /\ call.on = runtime
                /\ \/ call.kind = "save" /\ call.at = "locating" /\ sequence' = sequence
                   \/ call.seq = sequence + 1 /\ sequence' = sequence + 1
  <2>1. CASE BeginSave(c)
    <3> PICK call : call = Call("save", "locating", shown, None, 0)
      OBVIOUS
    <3>1. call.on = runtime /\ call.kind = "save" /\ call.at = "locating"
      BY DEF Call
    <3> QED BY <2>1, <3>1 DEF BeginSave, Begin
  <2>2. CASE BeginCancel(c)
    <3> PICK call : call = Call("cancel", "storing", shown, "SOS_CANCEL", sequence + 1)
      OBVIOUS
    <3>1. call.on = runtime /\ call.seq = sequence + 1
      BY DEF Call
    <3> QED BY <2>2, <3>1 DEF BeginCancel, Begin
  <2>3. ASSUME NEW type \in Updates, BeginTransition(c, type)
        PROVE  \E call : calls' = [calls EXCEPT ![c] = call] /\ call.on = runtime
                         /\ call.seq = sequence + 1 /\ sequence' = sequence + 1
    <3>1. PICK call : /\ calls' = [calls EXCEPT ![c] = call]
                      /\ \/ call = Call(type, "storing", Other, "RESPONDER_ASSIGNED", sequence + 1)
                         \/ \E at \in {"locating", "storing"} :
                              call = Call("transition", at, Other, type, sequence + 1)
      BY <2>3 DEF BeginTransition, Begin
    <3>2. call.on = runtime /\ call.seq = sequence + 1
      BY <3>1 DEF Call
    <3> QED BY <2>3, <3>1, <3>2 DEF BeginTransition
  <2> QED BY <2>1, <2>2, <2>3
<1>3. calls'[c] = call /\ \A d \in Calls : d # c => calls'[d] = calls[d]
  BY DEF IInv, TypeOK
<1>4. HasNumber(call) => Beyond(runtime, call.about, call.seq)
  BY <1>2, NextNumber DEF HasNumber, NumbersInv
<1>5. CallNumbered(c)'
  BY <1>1, <1>2, <1>3, <1>4 DEF CallNumbered, Beyond, Mine, life
<1> QED BY <1>1, <1>3, <1>5, NumbersOfCall

LEMMA NumbersOfRest ==
  ASSUME IInv, NumbersInv, NEW c \in Calls,
         Located(c) \/ FinishSave(c) \/ FinishCancel(c) \/ FinishAssignment(c) \/ FinishTransition(c)
  PROVE  NumbersInv'
<1>1. UNCHANGED <<log, life>>
  BY DEF Located, FinishSave, FinishCancel, FinishAssignment, FinishTransition
<1> PICK old : old = calls[c]
  OBVIOUS
<1>2. old # IdleCall /\ old \in CallRecord /\ Alive(old.on)
  BY CallTaken DEF Located, FinishSave, FinishCancel, FinishAssignment, FinishTransition, IdleCall
<1>3. old.on \in Runtimes /\ creates[old.on].at = "ready" /\ CallNumbered(c)
  BY <1>2 DEF Alive, NumbersInv, CallsNumbered, CallNumbered
<1>4. calls \in [Calls -> CallRecord]
  BY DEF IInv, TypeOK, CallRecord
<1>5. \A d \in Calls : d # c => calls'[d] = calls[d]
  BY <1>4 DEF Located, FinishSave, FinishCancel, FinishAssignment, FinishTransition
<1>6. CASE calls'[c] = IdleCall /\ sequence' = sequence
  BY <1>1, <1>5, <1>6, NumbersOfCall DEF CallNumbered
<1>7. CASE /\ calls'[c].on = old.on /\ calls'[c].seq = sequence + 1 /\ sequence' = sequence + 1
  <2>1. Beyond(old.on, calls'[c].about, calls'[c].seq)
    BY <1>3, <1>7, NextNumber DEF NumbersInv
  <2>2. CallNumbered(c)'
    BY <1>1, <1>3, <1>7, <2>1 DEF CallNumbered, Beyond, Mine, life
  <2> QED BY <1>1, <1>5, <1>7, <2>2, NumbersOfCall
<1>8. CASE calls'[c].on = old.on /\ calls'[c].about \in NewIds /\ sequence' = sequence
  <2>1. Beyond(old.on, calls'[c].about, calls'[c].seq)
    BY <1>3, <1>8, NumberShapes DEF Beyond, NewIds
  <2>2. CallNumbered(c)'
    BY <1>1, <1>3, <1>8, <2>1 DEF CallNumbered, Beyond, Mine, life
  <2> QED BY <1>1, <1>5, <1>8, <2>2, NumbersOfCall
<1>9. CASE /\ old.kind = "transition" /\ old.at = "locating" /\ calls'[c].on = old.on
           /\ calls'[c].about = old.about /\ calls'[c].seq = old.seq /\ sequence' = sequence
  <2>1. Beyond(old.on, old.about, old.seq)
    BY <1>2, <1>3, <1>9 DEF CallNumbered, HasNumber
  <2>2. CallNumbered(c)'
    BY <1>1, <1>3, <1>9, <2>1 DEF CallNumbered, Beyond, Mine, life
  <2> QED BY <1>1, <1>5, <1>9, <2>2, NumbersOfCall
<1>10. CASE FinishSave(c) \/ FinishCancel(c) \/ FinishTransition(c)
  <2>1. calls'[c] = IdleCall /\ sequence' = sequence
    BY <1>4, <1>10 DEF FinishSave, FinishCancel, FinishTransition
  <2> QED BY <1>6, <2>1
<1>11. CASE FinishAssignment(c)
  <2>1. calls'[c].on = old.on /\ calls'[c].seq = sequence + 1 /\ sequence' = sequence + 1
    BY <1>2, <1>4, <1>11 DEF FinishAssignment, CallRecord
  <2> QED BY <1>7, <2>1
<1>12. CASE Located(c)
  <2>1. CASE /\ sequence' = sequence + 1
             /\ calls' = [calls EXCEPT ![c].at = "storing", ![c].type = "SOS_UPDATE", ![c].seq = sequence + 1]
    <3>1. calls'[c].on = old.on /\ calls'[c].seq = sequence + 1
      BY <1>2, <1>4, <2>1 DEF CallRecord
    <3> QED BY <1>7, <2>1, <3>1
  <2>2. ASSUME NEW i \in NewIds, sequence' = sequence,
               calls' = [calls EXCEPT ![c].at = "storing", ![c].type = "SOS_CREATE", ![c].seq = 1, ![c].about = i]
        PROVE  NumbersInv'
    <3>1. calls'[c].on = old.on /\ calls'[c].about = i
      BY <1>2, <1>4, <2>2 DEF CallRecord
    <3> QED BY <1>8, <2>2, <3>1
  <2>3. CASE /\ old.kind = "transition" /\ sequence' = sequence /\ calls' = [calls EXCEPT ![c].at = "storing"]
    <3>1. calls'[c].on = old.on /\ calls'[c].about = old.about /\ calls'[c].seq = old.seq
      BY <1>2, <1>4, <2>3 DEF CallRecord
    <3>2. old.at = "locating"
      BY <1>12 DEF Located
    <3> QED BY <1>9, <2>3, <3>1, <3>2
  <2> QED BY <1>12, <2>1, <2>2, <2>3 DEF Located
<1> QED BY <1>10, <1>11, <1>12

\* A row more.  What was read before it stays as it was.
LEMMA NumbersOfRow ==
  ASSUME IInv, NumbersInv, UNCHANGED life, sequence' = sequence,
         NEW p \in PacketRecord, NEW n \in Runtimes, log' = Append(log, Row(p, n)),
         p.source = Phone => Beyond(n, p.about, p.seq),
         \A c \in Calls : calls'[c] = calls[c] \/ (~HasNumber(calls'[c]) /\ calls'[c].on = calls[c].on /\ calls[c] # IdleCall)
  PROVE  NumbersInv'
<1> PICK m \in Nat : m = Len(log)
  BY NumberShapes
<1> PICK l \in Nat : l = m + 1
  OBVIOUS
<1>1. /\ DOMAIN log = 1..m /\ DOMAIN log' = 1..l /\ log'[l] = Row(p, n)
      /\ \A k \in DOMAIN log : log'[k] = log[k]
  BY NumberShapes
<1>2. Row(p, n).p = p /\ Row(p, n).via = n
  BY DEF Row
<1>3. creates' = creates
  BY DEF life
<1>4. \A i \in Runtimes : \A j \in 1..creates[i].base : j \in DOMAIN log /\ log'[j] = log[j] /\ (Mine(j)' <=> Mine(j))
  BY <1>1, NumberShapes DEF Mine
<1>5. ASSUME NEW i \in Runtimes, NEW about, NEW seq PROVE Beyond(i, about, seq) <=> Beyond(i, about, seq)'
  BY <1>3, <1>4 DEF Beyond
<1>6. OneStartUp'
  BY DEF NumbersInv, OneStartUp, life
<1>7. Counted'
  BY <1>3, <1>4 DEF NumbersInv, Counted
<1>8. CallsNumbered'
  <2>1. ASSUME NEW c \in Calls PROVE CallNumbered(c)'
    <3> PICK call : call = calls[c]
      OBVIOUS
    <3>1. CASE calls[c] = IdleCall
      BY <3>1 DEF CallNumbered
    <3>2. CASE calls[c] # IdleCall
      <4>1. CallNumbered(c) /\ call.on \in Runtimes
        BY <3>2, CallTaken DEF NumbersInv, CallsNumbered, Alive
      <4>2. CASE calls'[c] = call
        BY <1>3, <1>5, <3>2, <4>1, <4>2 DEF CallNumbered
      <4>3. CASE calls'[c] # call
        BY <1>3, <3>2, <4>1, <4>3 DEF CallNumbered
      <4> QED BY <4>2, <4>3
    <3> QED BY <3>1, <3>2
  <2> QED BY <2>1 DEF CallsNumbered
<1>9. NumbersGrowPastTheLog'
  <2> SUFFICES ASSUME NEW j \in 1..l, NEW k \in 1..l, Mine(j)', Mine(k)', log'[j].p.about = log'[k].p.about,
                      j <= creates[log'[k].via].base
               PROVE  log'[j].p.seq < log'[k].p.seq
    BY <1>1, <1>3 DEF NumbersGrowPastTheLog
  <2>1. CASE k \in DOMAIN log
    <3>1. log[k].via \in Runtimes /\ log'[k] = log[k]
      BY <1>1, <2>1, NumberShapes
    <3>2. j \in 1..creates[log[k].via].base
      BY <3>1, NumberShapes
    <3> QED BY <1>4, <2>1, <3>1, <3>2 DEF NumbersInv, NumbersGrowPastTheLog, Mine
  <2>2. CASE k = l
    <3>1. p.source = Phone /\ log'[k].via = n
      BY <1>1, <1>2, <2>2 DEF Mine
    <3>2. j \in 1..creates[n].base
      BY <3>1, NumberShapes
    <3> QED BY <1>1, <1>2, <1>4, <2>2, <3>1, <3>2 DEF Beyond
  <2>3. k = l \/ k \in DOMAIN log
    BY <1>1
  <2> QED BY <2>1, <2>2, <2>3
<1> QED BY <1>6, <1>7, <1>8, <1>9 DEF NumbersInv

LEMMA NumbersOfLog ==
  ASSUME IInv, NumbersInv, (\E c \in Calls : Insert(c)) \/ (\E p \in Arriving : Receive(p))
  PROVE  NumbersInv'
<1>1. ASSUME NEW c \in Calls, Insert(c) PROVE NumbersInv'
  <2> PICK old : old = calls[c]
    OBVIOUS
  <2>1. /\ old # IdleCall /\ old \in CallRecord /\ Alive(old.on) /\ old.at = "storing"
        /\ Saving(old) \/ Cancelling(old) \/ Responding(old)
    BY <1>1, CallTaken DEF Insert, IdleCall
  <2>2. old.on \in Runtimes /\ Beyond(old.on, old.about, old.seq)
    BY <2>1 DEF Alive, NumbersInv, CallsNumbered, CallNumbered, HasNumber
  <2>3. old.type \in MessageType /\ old.about \in Incidents /\ old.seq \in Nat
    BY <2>1, StoringFacts
  <2> PICK p : p = Packet(old.type, Phone, old.about, old.seq)
    OBVIOUS
  <2>4. p \in PacketRecord /\ p.about = old.about
    BY <2>3, PacketType
  <2>5. p.seq = old.seq
    BY DEF Packet, Build
  <2>6. calls \in [Calls -> CallRecord]
    BY DEF IInv, TypeOK, CallRecord
  <2>7. calls' = [calls EXCEPT ![c].at = "stored"]
    BY <1>1 DEF Insert
  <2>8. calls'[c].at = "stored" /\ calls'[c].on = old.on
    BY <2>1, <2>6, <2>7 DEF CallRecord
  <2>9. \A d \in Calls : d # c => calls'[d] = calls[d]
    BY <2>6, <2>7
  <2>10. ~HasNumber(calls'[c])
    BY <2>8 DEF HasNumber
  <2>11. log' = Append(log, Row(p, old.on)) /\ UNCHANGED <<life, sequence>>
    BY <1>1 DEF Insert
  <2>12. \A d \in Calls :
           calls'[d] = calls[d] \/ (~HasNumber(calls'[d]) /\ calls'[d].on = calls[d].on /\ calls[d] # IdleCall)
    BY <2>1, <2>8, <2>9, <2>10
  <2> QED BY <2>2, <2>4, <2>5, <2>11, <2>12, NumbersOfRow
<1>2. ASSUME NEW p \in Arriving, Receive(p) PROVE NumbersInv'
  <2>1. p \in PacketRecord /\ p.source # Phone
    BY ArrivingFacts
  <2>2. runtime \in Runtimes
    BY <1>2 DEF Receive, IInv, TypeOK
  <2>3. log' = Append(log, Row(p, runtime)) /\ UNCHANGED <<life, sequence, calls>>
    BY <1>2 DEF Receive
  <2> QED BY <2>1, <2>2, <2>3, NumbersOfRow
<1> QED BY <1>1, <1>2

\* A step of the start-ups or the session that begins none: the calls stay.
LEMMA NumbersStay ==
  ASSUME IInv, NumbersInv, UNCHANGED <<log, calls>>, OneStartUp', Counted',
         \A n \in Runtimes : creates[n].at = "ready" =>
           creates'[n].at = "ready" /\ creates'[n].base = creates[n].base,
         \A n \in Runtimes : creates[n].at # "unused" => creates'[n].base = creates[n].base
  PROVE  NumbersInv'
<1>1. CallsNumbered'
  <2>1. ASSUME NEW c \in Calls, calls[c] # IdleCall PROVE CallNumbered(c)'
    <3>1. calls[c].on \in Runtimes /\ CallNumbered(c)
      BY <2>1, CallTaken DEF Alive, NumbersInv, CallsNumbered
    <3> QED BY <2>1, <3>1 DEF CallNumbered, Beyond, Mine
  <2> QED BY <2>1 DEF CallsNumbered, CallNumbered
<1>2. NumbersGrowPastTheLog'
  <2>1. \A k \in DOMAIN log : creates'[log[k].via].base = creates[log[k].via].base
    BY ViaFacts DEF IInv, RuntimesInv
  <2> QED BY <2>1 DEF NumbersInv, NumbersGrowPastTheLog, Mine
<1> QED BY <1>1, <1>2 DEF NumbersInv

\* A start-up begins when none is under way.
LEMMA NumbersOfCreate ==
  ASSUME IInv, NumbersInv, UNCHANGED <<log, calls, sequence>>, initializing = 0,
         NEW n \in Runtimes, FirstUnused(n), creates' = Created(n), initializing' = n,
         runtime' = 0 \/ runtime' = runtime
  PROVE  NumbersInv'
<1> PICK m \in Nat : m = Len(log)
  BY NumberShapes
<1>1. /\ creates[n].at = "unused"
      /\ creates' = [creates EXCEPT ![n] = [at |-> "read", base |-> m]]
  BY DEF FirstUnused, Created
<1>2. creates'[n] = [at |-> "read", base |-> m] /\ \A i \in Runtimes : i # n => creates'[i] = creates[i]
  BY <1>1, NumberShapes
<1>3. creates'[n].at = "read" /\ creates'[n].base = m
  BY <1>2
<1>4. \A i \in Runtimes : creates[i].at \notin {"read", "restored"}
  BY NumberShapes DEF NumbersInv, OneStartUp
<1>5. OneStartUp'
  <2>1. \A i \in Runtimes : creates'[i].at \in {"read", "restored"} => i = n
    BY <1>2, <1>4
  <2>2. \A i \in Runtimes : creates'[i].base <= m
    <3>1. \A i \in Runtimes : creates[i].base <= m
      BY NumberShapes
    <3> QED BY <1>2, <1>3, <3>1
  <2>3. runtime' # 0 => creates'[runtime'].at = "ready"
    <3>1. runtime # 0 => runtime \in Runtimes /\ creates[runtime].at = "ready"
      BY DEF IInv, TypeOK, NumbersInv, OneStartUp
    <3> QED BY <1>1, <1>2, <3>1
  <2> QED BY <1>3, <2>1, <2>2, <2>3 DEF OneStartUp
<1>6. Counted'
  BY <1>2, <1>3 DEF NumbersInv, Counted, Mine
<1> QED BY <1>1, <1>2, <1>3, <1>5, <1>6, NumbersStay

LEMMA NumbersOfRestore ==
  ASSUME IInv, NumbersInv, NEW n \in Runtimes, Restore(n)
  PROVE  NumbersInv'
<1> PICK b \in Nat : b = creates[n].base
  BY NumberShapes
<1>1. /\ creates[n].at = "read" /\ creates' = [creates EXCEPT ![n].at = "restored"]
      /\ sequence' = Max({1, MaxSourceSequence(SubSeq(log, 1, b))})
      /\ UNCHANGED <<log, runtime, initializing, calls>>
  BY DEF Restore
<1> PICK new : new = [creates[n] EXCEPT !.at = "restored"]
  OBVIOUS
<1>2. new.at = "restored" /\ new.base = b
  BY NumberShapes DEF CreateRecord
<1>3. \A i \in Runtimes : creates'[i] = IF i = n THEN new ELSE creates[i]
  BY <1>1, NumberShapes
<1>4. ASSUME NEW j \in 1..b, Mine(j) PROVE log[j].p.seq <= sequence'
  <2> PICK x : x = MaxSourceSequence(SubSeq(log, 1, b))
    OBVIOUS
  <2>1. x \in Nat /\ log[j].p.seq <= x
    <3>1. log \in Seq(RowRecord) /\ b <= Len(log)
      BY NumberShapes
    <3> QED BY <1>4, <3>1, MaxSourceType DEF Mine
  <2>2. sequence' \in Nat /\ x <= sequence'
    BY <1>1, <2>1, MaxOfTwo
  <2>3. log[j].p.seq \in Nat
    BY NumberShapes
  <2> QED BY <2>1, <2>2, <2>3
<1>5. OneStartUp'
  <2>1. \A i \in Runtimes : creates'[i].base = creates[i].base
    BY <1>2, <1>3
  <2>2. runtime # 0 => runtime \in Runtimes /\ runtime # n
    BY <1>1 DEF IInv, TypeOK, NumbersInv, OneStartUp
  <2> QED BY <1>1, <1>2, <1>3, <2>1, <2>2 DEF NumbersInv, OneStartUp
<1>6. Counted'
  <2> SUFFICES ASSUME NEW i \in Runtimes, NEW j \in 1..creates'[i].base, Mine(j)
               PROVE  log[j].p.seq <= sequence'
    BY <1>1 DEF Counted, Mine
  <2>1. creates'[i].base = creates[i].base /\ creates[i].base <= b /\ creates[i].base \in Nat
    BY <1>1, <1>2, <1>3, NumberShapes DEF NumbersInv, OneStartUp
  <2>2. j \in 1..b
    BY <2>1
  <2> QED BY <1>4, <2>2
<1>7. \A i \in Runtimes : creates[i].at = "ready" => creates'[i].at = "ready"
  BY <1>1, <1>3
<1> QED BY <1>1, <1>2, <1>3, <1>5, <1>6, <1>7, NumbersStay

LEMMA NumbersOfReady ==
  ASSUME IInv, NumbersInv, NEW n \in Runtimes, Ready(n)
  PROVE  NumbersInv'
<1>1. /\ creates[n].at = "restored" /\ runtime' = n /\ initializing' = 0
      /\ UNCHANGED <<log, sequence, calls>>
  BY DEF Ready
<1>2. initializing = n /\ n # 0
  BY <1>1, NumberShapes DEF NumbersInv, OneStartUp
<1>3. creates' = [creates EXCEPT ![n].at = "ready"]
  BY <1>2 DEF Ready
<1> PICK new : new = [creates[n] EXCEPT !.at = "ready"]
  OBVIOUS
<1>4. new.at = "ready" /\ new.base = creates[n].base
  BY NumberShapes DEF CreateRecord
<1>5. \A i \in Runtimes : creates'[i] = IF i = n THEN new ELSE creates[i]
  BY <1>3, NumberShapes
<1>6. OneStartUp'
  <2>1. \A i \in Runtimes : creates'[i].at \notin {"read", "restored"}
    BY <1>2, <1>4, <1>5 DEF NumbersInv, OneStartUp
  <2> QED BY <1>1, <1>4, <1>5, <2>1 DEF OneStartUp
<1>7. Counted'
  BY <1>1, <1>4, <1>5 DEF NumbersInv, Counted, Mine
<1> QED BY <1>1, <1>4, <1>5, <1>6, <1>7, NumbersStay

LEMMA NumbersOfSession ==
  ASSUME ~CutsStart, IInv, NumbersInv, Session
  PROVE  NumbersInv'
<1>1. ASSUME NEW n \in Runtimes, Login(n) \/ \E r \in Roles : Reconfigure(r, n) PROVE NumbersInv'
  <2>1. UNCHANGED <<log, calls, sequence>> /\ (runtime' = 0 \/ runtime' = runtime)
    BY <1>1 DEF Login, Reconfigure
  <2>2. CASE initializing = 0 /\ FirstUnused(n) /\ initializing' = n /\ creates' = Created(n)
    BY <2>1, <2>2, NumbersOfCreate
  <2>3. CASE initializing' = initializing /\ creates' = creates
    <3>1. OneStartUp' /\ Counted'
      BY <2>1, <2>3 DEF NumbersInv, OneStartUp, Counted, Mine
    <3> QED BY <2>1, <2>3, <3>1, NumbersStay
  <2> QED BY <1>1, <2>2, <2>3 DEF Login, Reconfigure
<1>2. CASE ResumeRelay
  <2>1. UNCHANGED <<log, calls, creates, initializing, runtime, sequence>>
    BY <1>2 DEF ResumeRelay
  <2>2. OneStartUp' /\ Counted'
    BY <2>1 DEF NumbersInv, OneStartUp, Counted, Mine
  <2> QED BY <2>1, <2>2, NumbersStay
<1>3. CASE Logout
  <2>1. UNCHANGED <<log, calls, creates, sequence>> /\ initializing = 0 /\ initializing' = 0 /\ runtime' = 0
    BY <1>3 DEF Logout
  <2>2. OneStartUp' /\ Counted'
    BY <2>1 DEF NumbersInv, OneStartUp, Counted, Mine
  <2> QED BY <2>1, <2>2, NumbersStay
<1>4. CASE Die
  <2>1. /\ log' = log /\ runtime' = 0 /\ calls' = [c \in Calls |-> IdleCall]
        /\ creates' = [n \in Runtimes |-> IF creates[n].at = "unused" THEN Unused ELSE [at |-> "dead", base |-> 0]]
    BY <1>4 DEF Die
  <2>2. \A n \in Runtimes : creates'[n].at \in {"unused", "dead"} /\ creates'[n].base = 0
    BY <2>1 DEF Unused
  <2>3. OneStartUp' /\ Counted'
    BY <2>1, <2>2 DEF OneStartUp, Counted
  <2>4. CallsNumbered'
    BY <2>1 DEF CallsNumbered, CallNumbered
  <2>5. NumbersGrowPastTheLog'
    <3>1. \A k \in DOMAIN log : creates'[log[k].via].base = 0
      BY <2>2, ViaFacts
    <3>2. \A j \in DOMAIN log : ~(j <= 0)
      BY NumberShapes
    <3> QED BY <2>1, <3>1, <3>2 DEF NumbersGrowPastTheLog
  <2> QED BY <2>3, <2>4, <2>5 DEF NumbersInv
<1> QED BY <1>1, <1>2, <1>3, <1>4 DEF Session

LEMMA InitNumbersInv == Init => NumbersInv
BY DEF Init, NumbersInv, OneStartUp, Counted, CallsNumbered, CallNumbered, NumbersGrowPastTheLog, Unused

LEMMA StepKeepsNumbersInv ==
  ASSUME ~CutsStart
  PROVE  IInv /\ NumbersInv /\ [Next]_vars => NumbersInv'
<1> SUFFICES ASSUME IInv, NumbersInv, [Next]_vars PROVE NumbersInv'
  OBVIOUS
<1>1. CASE StartUp
  BY <1>1, NumbersOfRestore, NumbersOfReady DEF StartUp
<1>2. CASE Session
  BY <1>2, NumbersOfSession
<1>3. ASSUME NEW c \in Calls, Serve(c) PROVE NumbersInv'
  BY <1>3, NumbersOfBegin, NumbersOfRest, NumbersOfLog DEF Serve
<1>4. ASSUME NEW p \in Arriving, Receive(p) PROVE NumbersInv'
  BY <1>4, NumbersOfLog
<1>5. CASE UNCHANGED vars
  <2>1. UNCHANGED <<log, calls, creates, initializing, runtime, sequence>>
    BY <1>5 DEF vars, life
  <2>2. OneStartUp' /\ Counted'
    BY <2>1 DEF NumbersInv, OneStartUp, Counted, Mine
  <2> QED BY <2>1, <2>2, NumbersStay
<1> QED BY <1>1, <1>2, <1>3, <1>4, <1>5 DEF Next

\* As long as no logout cuts a start-up, what a runtime sends about an incident is
\* numbered past all that this phone had sent about it before the runtime started
\* (maxSourceSequence, updateSos): with any number of restarts and replacements.
THEOREM NumbersGrow ==
  ASSUME ~CutsStart
  PROVE  Spec => []NumbersGrowPastTheLog
<1>1. IInv /\ NumbersInv /\ [Next]_vars => NumbersInv'
  BY StepKeepsNumbersInv
<1>2. NumbersInv => NumbersGrowPastTheLog
  BY DEF NumbersInv
<1> QED BY <1>1, <1>2, InitNumbersInv, OriginsInvariant, PTL DEF Spec

-----------------------------------------------------------------------------
(* An open SOS is shown as long as no logout cuts a start-up: what the reducer *)
(* of the current runtime has open was shown when it was restored, or a call   *)
(* that is under way or has returned shows it.                                 *)

Cancelled(i) == \E k \in DOMAIN log : log[k].p.type = "SOS_CANCEL" /\ log[k].p.about = i

\* The phone has no other incident of its own.
Alone(i) == \A k \in DOMAIN log : log[k].p.about \in Own => log[k].p.about = i

\* The runtime in use, or the one about to be.
Current(n) ==
  n \in Runtimes /\ creates[n].at \in {"restored", "ready"} /\ n \in {runtime, initializing}

\* A save that stored this incident has not returned.
Pending(i) ==
  \E c \in Calls : /\ calls[c].kind = "save" /\ calls[c].at = "stored"
                   /\ calls[c].type = "SOS_CREATE" /\ calls[c].about = i

OpenShown ==
  \A n \in Runtimes : Current(n) =>
    \A i \in OpenIn(Held(n)) : Alone(i) => shown = i \/ Pending(i) \/ Cancelled(i)

\* An update began with what was shown.
Updating(call) ==
  /\ call.kind = "save" /\ call.on = runtime /\ call.about # None
  /\ \/ call.at = "locating"
     \/ call.at = "storing" /\ call.type = "SOS_UPDATE"

CallShown(c) ==
  /\ Updating(calls[c]) /\ Alone(calls[c].about) => shown = calls[c].about \/ Cancelled(calls[c].about)
  /\ calls[c].kind = "cancel" /\ calls[c].at = "stored" => Cancelled(calls[c].about)

ScreensInv ==
  /\ shown # None => hasActive
  /\ initializing # 0 => runtime = 0 /\ creates[initializing].at \in {"read", "restored"}
  /\ OpenShown
  /\ \A c \in Calls : CallShown(c)

\* A closed incident stays closed.
LEMMA ClosedStays ==
  ASSUME NEW inc \in IncidentRecord, NEW p \in PacketRecord, inc.state \in ClosedStates
  PROVE  Reduce(inc, p).state \in ClosedStates
<1> PICK q : q = Reported(inc, p)
  OBVIOUS
<1>1. q \in IncidentRecord
  BY ReportedType
<1>2. q.state = inc.state
  <2>1. \/ q = [inc EXCEPT !.report = p, !.latest = p.seq, !.state = inc.state]
        \/ q = inc
    BY DEF Reported, ClosedStates
  <2> QED BY <2>1 DEF IncidentRecord
<1>3. q.state \in {"resolved", "cancelled", "expired"} /\ q.state \in IncidentState
  BY <1>2 DEF ClosedStates, IncidentState
<1>4. Move(q.state, p) = q.state
  <2>1. StateOf(p.type) # "reopened"
    BY DEF StateOf
  <2>2. ALLOWED_NEXT[q.state] \subseteq {"reopened"}
    BY <1>3 DEF ALLOWED_NEXT
  <2> QED BY <2>1, <2>2 DEF Move
<1> PICK who, facts, time : Reduce(inc, p) =
      [q EXCEPT !.state = Move(q.state, p), !.responder = who, !.facts = facts, !.updated = time]
  BY DEF Reduce
<1>5. Reduce(inc, p).state = Move(q.state, p)
  BY <1>1 DEF IncidentRecord
<1> QED BY <1>2, <1>4, <1>5

\* Only the phone's own packet about an incident opens it.
LEMMA GivenOpens ==
  ASSUME NEW incs \in [Incidents -> IncidentRecord \cup {None}], NEW p \in PacketRecord,
         NEW i \in OpenIn(ApplyToIncidents(incs, p))
  PROVE  i \in OpenIn(incs) \/ (p.about = i /\ p.source = Phone)
<1> PICK after : after = ApplyToIncidents(incs, p)
  OBVIOUS
<1>1. i \in Incidents /\ after[i] # None /\ after[i].own /\ after[i].state \notin ClosedStates
  BY DEF OpenIn
<1>2. CASE ~UpdatesIncident(p) \/ p.about # i
  <2>1. after[i] = incs[i]
    BY <1>1, <1>2 DEF ApplyToIncidents
  <2> QED BY <1>1, <2>1 DEF OpenIn
<1>3. CASE UpdatesIncident(p) /\ p.about = i
  <2> PICK inc : inc = IF incs[i] = None THEN Fresh(p) ELSE incs[i]
    OBVIOUS
  <2>1. inc \in IncidentRecord
    BY <1>1, FreshType
  <2>2. after[i] = Reduce(inc, p)
    BY <1>1, <1>3 DEF ApplyToIncidents
  <2>3. inc.own /\ inc.state \notin ClosedStates
    BY <1>1, <2>1, <2>2, ReduceFacts, ClosedStays
  <2> QED BY <1>1, <1>3, <2>3, FreshType DEF OpenIn
<1> QED BY <1>2, <1>3

\* What one more row opens, the phone's own packet about it opened.
LEMMA OpenAfterRow ==
  ASSUME IInv, UNCHANGED life, NEW p \in PacketRecord, NEW v \in Runtimes, log' = Append(log, Row(p, v)),
         NEW n \in Runtimes, NEW i, i \in OpenIn(Held(n))'
  PROVE  i \in OpenIn(Held(n)) \/ (p.about = i /\ p.source = Phone /\ v = n)
<1> PICK m \in Nat : m = Len(log)
  BY NumberShapes
<1> PICK l \in Nat : l = m + 1
  OBVIOUS
<1> PICK base \in Nat : base = creates[n].base
  BY NumberShapes
<1> PICK held : held = Held(n)
  OBVIOUS
<1>1. /\ log \in Seq(RowRecord) /\ Row(p, v) \in RowRecord /\ base <= m
      /\ Row(p, v).p = p /\ Row(p, v).via = v
  BY NumberShapes DEF Row, RowRecord
<1>2. /\ log' \in Seq(RowRecord) /\ Len(log') = l /\ log'[l] = Row(p, v)
      /\ \A k \in 1..m : log'[k] = log[k]
  BY <1>1
<1>3. creates' = creates
  BY DEF life
<1>4. \A k \in 1..Len(log) : log'[k] = log[k] /\ (Takes(n, k)' <=> Takes(n, k))
  BY <1>2, <1>3 DEF Takes
<1>5. Held(n)' = Given(n, held, l)'
  <2>1. l \in {Len(log), Len(log) + 1} /\ l # Len(log) /\ l = Len(log')
    BY <1>2
  <2> QED BY <1>1, <1>2, <1>4, <2>1, HeldGrows
<1>6. Takes(n, l)' <=> v = n
  BY <1>1, <1>2, <1>3 DEF Takes
<1>7. held \in [Incidents -> IncidentRecord \cup {None}]
  BY <1>1, HeldFacts DEF FoldOK
<1>8. CASE v = n
  <2>1. Held(n)' = ApplyToIncidents(held, p)
    BY <1>1, <1>2, <1>5, <1>6, <1>8 DEF Given
  <2>2. i \in OpenIn(ApplyToIncidents(held, p))
    BY <2>1 DEF OpenIn
  <2> QED BY <1>7, <1>8, <2>2, GivenOpens
<1>9. CASE v # n
  <2>1. Held(n)' = held
    BY <1>5, <1>6, <1>9 DEF Given
  <2> QED BY <2>1 DEF OpenIn
<1> QED BY <1>8, <1>9

\* The same rows and the same share of them: the same incidents.
LEMMA HeldStays ==
  ASSUME IInv, log' = log, NEW n \in Runtimes, creates'[n].base = creates[n].base
  PROVE  Held(n)' = Held(n)
<1> PICK m \in Nat : m = Len(log)
  BY NumberShapes
<1> PICK held : held = Held(n)
  OBVIOUS
<1>1. log \in Seq(RowRecord) /\ m = Len(log')
  BY NumberShapes
<1>2. \A k \in 1..Len(log) : log'[k] = log[k] /\ (Takes(n, k)' <=> Takes(n, k))
  BY DEF Takes
<1>3. Held(n)' = held
  BY <1>1, <1>2, HeldGrows
<1> QED BY <1>3

\* A call takes a step; log and start-ups stay.
LEMMA ScreensOfCall ==
  ASSUME IInv, ScreensInv, UNCHANGED <<log, life>>, NEW c \in Calls,
         \A d \in Calls : d # c => calls'[d] = calls[d],
         \A i : Alone(i) /\ shown = i => shown' = i \/ Cancelled(i),
         \A i : Alone(i) /\ Pending(i) => shown' = i \/ Pending(i)' \/ Cancelled(i),
         shown' # None => hasActive', CallShown(c)'
  PROVE  ScreensInv'
<1>1. \A i : (Alone(i)' <=> Alone(i)) /\ (Cancelled(i)' <=> Cancelled(i))
  BY DEF Alone, Cancelled
<1>2. OpenShown'
  <2> SUFFICES ASSUME NEW n \in Runtimes, Current(n)', NEW i, i \in OpenIn(Held(n))', Alone(i)'
               PROVE  shown' = i \/ Pending(i)' \/ Cancelled(i)'
    BY DEF OpenShown
  <2>1. Current(n)
    BY DEF Current, life
  <2>2. i \in OpenIn(Held(n))
    <3>1. Held(n)' = Held(n)
      BY HeldStays DEF life
    <3> QED BY <3>1 DEF OpenIn
  <2> QED BY <1>1, <2>1, <2>2 DEF ScreensInv, OpenShown
<1>3. ASSUME NEW d \in Calls, d # c PROVE CallShown(d)'
  <2> PICK call : call = calls[d] /\ call = calls'[d]
    BY <1>3
  <2>1. CallShown(d)
    BY DEF ScreensInv
  <2>2. Updating(call)' <=> Updating(call)
    BY DEF Updating, life
  <2> QED BY <1>1, <2>1, <2>2 DEF CallShown
<1>4. initializing' # 0 => runtime' = 0 /\ creates'[initializing'].at \in {"read", "restored"}
  BY DEF ScreensInv, life
<1> QED BY <1>2, <1>3, <1>4 DEF ScreensInv

LEMMA ScreensOfBegin ==
  ASSUME IInv, ScreensInv, NEW c \in Calls,
         BeginSave(c) \/ BeginCancel(c) \/ \E type \in Updates : BeginTransition(c, type)
  PROVE  ScreensInv'
<1>1. UNCHANGED <<log, life, screen>> /\ calls[c] = IdleCall
  BY DEF BeginSave, BeginCancel, BeginTransition, Begin
<1> PICK call : calls' = [calls EXCEPT ![c] = call]
                /\ \/ call.kind = "save" /\ call.at = "locating" /\ call.about = shown
                   \/ call.kind = "cancel" /\ call.at = "storing"
                   \/ call.kind \in Updates \cup {"transition"}
  <2>1. CASE BeginSave(c)
    <3> PICK call : call = Call("save", "locating", shown, None, 0)
      OBVIOUS
    <3>1. call.about = shown /\ call.kind = "save" /\ call.at = "locating"
      BY DEF Call
    <3> QED BY <2>1, <3>1 DEF BeginSave, Begin
  <2>2. CASE BeginCancel(c)
    <3> PICK call : call = Call("cancel", "storing", shown, "SOS_CANCEL", sequence + 1)
      OBVIOUS
    <3>1. call.kind = "cancel" /\ call.at = "storing"
      BY DEF Call
    <3> QED BY <2>2, <3>1 DEF BeginCancel, Begin
  <2>3. ASSUME NEW type \in Updates, BeginTransition(c, type)
        PROVE  \E call : calls' = [calls EXCEPT ![c] = call] /\ call.kind \in Updates \cup {"transition"}
    <3>1. PICK call : /\ calls' = [calls EXCEPT ![c] = call]
                      /\ \/ call = Call(type, "storing", Other, "RESPONDER_ASSIGNED", sequence + 1)
                         \/ \E at \in {"locating", "storing"} :
                              call = Call("transition", at, Other, type, sequence + 1)
      BY <2>3 DEF BeginTransition, Begin
    <3>2. call.kind \in Updates \cup {"transition"}
      BY <3>1 DEF Call
    <3> QED BY <3>1, <3>2
  <2> QED BY <2>1, <2>2, <2>3
<1>2. calls'[c] = call /\ \A d \in Calls : d # c => calls'[d] = calls[d]
  BY DEF IInv, TypeOK
<1>3. CallShown(c)'
  <2>1. Updating(call)' => call.about = shown'
    BY <1>1, UpdatesAssumption DEF Updating, screen
  <2>2. ~(call.kind = "cancel" /\ call.at = "stored")
    BY UpdatesAssumption
  <2> QED BY <1>2, <2>1, <2>2 DEF CallShown
<1>4. \A i : Pending(i) => Pending(i)'
  BY <1>1, <1>2 DEF Pending, IdleCall
<1> QED BY <1>1, <1>2, <1>3, <1>4, ScreensOfCall DEF screen, ScreensInv

LEMMA ScreensOfLocated ==
  ASSUME IInv, ScreensInv, NEW c \in Calls, Located(c)
  PROVE  ScreensInv'
<1> PICK old : old = calls[c]
  OBVIOUS
<1>1. /\ UNCHANGED <<log, life, screen>> /\ old \in CallRecord /\ old.at = "locating"
      /\ Saving(old) \/ Cancelling(old) \/ Responding(old)
  BY CallTaken DEF Located, IdleCall
<1>2. calls \in [Calls -> CallRecord]
  BY DEF IInv, TypeOK, CallRecord
<1>3. \A d \in Calls : d # c => calls'[d] = calls[d]
  BY <1>2 DEF Located
<1>4. \A i : Pending(i) => Pending(i)'
  BY <1>1, <1>3 DEF Pending
<1>5. CASE /\ old.kind = "save" /\ old.about # None
           /\ calls' = [calls EXCEPT ![c].at = "storing", ![c].type = "SOS_UPDATE", ![c].seq = sequence + 1]
  <2> PICK call : call = calls'[c]
    OBVIOUS
  <2>1. call.on = old.on /\ call.kind = "save" /\ call.about = old.about
    BY <1>1, <1>2, <1>5 DEF CallRecord
  <2>2. Updating(call)' => Updating(old)
    BY <1>1, <1>5, <2>1 DEF Updating, life
  <2>3. CallShown(c)'
    BY <1>1, <2>1, <2>2 DEF CallShown, ScreensInv, Alone, Cancelled, screen
  <2> QED BY <1>1, <1>3, <1>4, <2>3, ScreensOfCall DEF screen, ScreensInv
<1>6. ASSUME NEW i \in NewIds, old.kind = "save",
             calls' = [calls EXCEPT ![c].at = "storing", ![c].type = "SOS_CREATE", ![c].seq = 1, ![c].about = i]
      PROVE  ScreensInv'
  <2>1. calls'[c].at = "storing" /\ calls'[c].kind = "save" /\ calls'[c].type = "SOS_CREATE"
    BY <1>1, <1>2, <1>6 DEF CallRecord
  <2>2. CallShown(c)'
    BY <2>1 DEF CallShown, Updating
  <2> QED BY <1>1, <1>3, <1>4, <2>2, ScreensOfCall DEF screen, ScreensInv
<1>7. CASE old.kind = "transition" /\ calls' = [calls EXCEPT ![c].at = "storing"]
  <2>1. calls'[c].kind = "transition"
    BY <1>1, <1>2, <1>7 DEF CallRecord
  <2>2. CallShown(c)'
    BY <2>1 DEF CallShown, Updating
  <2> QED BY <1>1, <1>3, <1>4, <2>2, ScreensOfCall DEF screen, ScreensInv
<1> QED BY <1>5, <1>6, <1>7 DEF Located

LEMMA ScreensOfFinish ==
  ASSUME IInv, ScreensInv, NEW c \in Calls,
         FinishSave(c) \/ FinishCancel(c) \/ FinishAssignment(c) \/ FinishTransition(c)
  PROVE  ScreensInv'
<1> PICK old : old = calls[c]
  OBVIOUS
<1>1. /\ UNCHANGED <<log, life>> /\ old \in CallRecord /\ old.at = "stored"
      /\ Saving(old) \/ Cancelling(old) \/ Responding(old)
  BY CallTaken DEF FinishSave, FinishCancel, FinishAssignment, FinishTransition, IdleCall
<1>2. calls \in [Calls -> CallRecord]
  BY DEF IInv, TypeOK, CallRecord
<1>3. \A d \in Calls : d # c => calls'[d] = calls[d]
  BY <1>2 DEF FinishSave, FinishCancel, FinishAssignment, FinishTransition
<1>4. ASSUME calls'[c] = IdleCall \/ calls'[c].kind = "transition" PROVE CallShown(c)'
  BY <1>4 DEF CallShown, Updating, IdleCall
<1>5. CASE FinishSave(c)
  <2>1. calls'[c] = IdleCall /\ old.kind = "save" /\ hasActive'
    BY <1>2, <1>5 DEF FinishSave
  <2>2. old.about \in Own /\ CreatedHere(old.about)
    BY <1>1, <2>1, UpdatesAssumption DEF Saving, Cancelling, Responding
  <2>3. \A i : Alone(i) => old.about = i
    BY <2>2 DEF Alone, CreatedHere
  <2>4. shown' = shown \/ shown' = old.about
    BY <1>5 DEF FinishSave
  <2>5. ASSUME NEW i, Alone(i), Pending(i) PROVE shown' = i \/ Pending(i)'
    <3>1. PICK d \in Calls : /\ calls[d].kind = "save" /\ calls[d].at = "stored"
                             /\ calls[d].type = "SOS_CREATE" /\ calls[d].about = i
      BY <2>5 DEF Pending
    <3>2. CASE d = c
      BY <1>5, <3>1, <3>2 DEF FinishSave
    <3>3. CASE d # c
      BY <1>3, <3>1, <3>3 DEF Pending
    <3> QED BY <3>2, <3>3
  <2>6. CallShown(c)'
    BY <1>4, <2>1
  <2> QED BY <1>1, <1>3, <2>1, <2>3, <2>4, <2>5, <2>6, ScreensOfCall
<1>6. CASE FinishCancel(c)
  <2>1. calls'[c] = IdleCall /\ old.kind = "cancel" /\ shown' = None
    BY <1>2, <1>6 DEF FinishCancel
  <2>2. old.about \in Own /\ Cancelled(old.about)
    BY <1>1, <2>1, UpdatesAssumption DEF Saving, Cancelling, Responding, ScreensInv, CallShown
  <2>3. \A i : Alone(i) => Cancelled(i)
    BY <2>2 DEF Alone, Cancelled
  <2>4. CallShown(c)'
    BY <1>4, <2>1
  <2> QED BY <1>1, <1>3, <2>1, <2>3, <2>4, ScreensOfCall
<1>7. CASE FinishAssignment(c) \/ FinishTransition(c)
  <2>1. old.kind # "save" /\ UNCHANGED screen
    BY <1>7, UpdatesAssumption DEF FinishAssignment, FinishTransition
  <2>2. calls'[c] = IdleCall \/ calls'[c].kind = "transition"
    <3>1. CASE FinishAssignment(c)
      BY <1>1, <1>2, <3>1 DEF FinishAssignment, CallRecord
    <3>2. CASE FinishTransition(c)
      BY <1>2, <3>2 DEF FinishTransition
    <3> QED BY <1>7, <3>1, <3>2
  <2>3. CallShown(c)'
    BY <1>4, <2>2
  <2>4. \A i : Pending(i) => Pending(i)'
    BY <1>3, <2>1 DEF Pending
  <2> QED BY <1>1, <1>3, <2>1, <2>3, <2>4, ScreensOfCall DEF screen, ScreensInv
<1> QED BY <1>5, <1>6, <1>7

\* A row more that the phone stored for a call, or that came from the mesh.
LEMMA ScreensOfLog ==
  ASSUME IInv, NumbersInv, ScreensInv, (\E c \in Calls : Insert(c)) \/ (\E p \in Arriving : Receive(p))
  PROVE  ScreensInv'
<1>1. ASSUME NEW c \in Calls, Insert(c) PROVE ScreensInv'
  <2> PICK old : old = calls[c]
    OBVIOUS
  <2>1. /\ old # IdleCall /\ old \in CallRecord /\ Alive(old.on) /\ old.at = "storing"
        /\ Saving(old) \/ Cancelling(old) \/ Responding(old)
    BY <1>1, CallTaken DEF Insert, IdleCall
  <2>2. old.on \in Runtimes /\ old.type \in MessageType /\ old.about \in Incidents /\ old.seq \in Nat
    BY <2>1, StoringFacts DEF Alive
  <2> PICK p : p = Packet(old.type, Phone, old.about, old.seq)
    OBVIOUS
  <2>3. p \in PacketRecord /\ p.type = old.type /\ p.about = old.about
    BY <2>2, PacketType
  <2>4. calls \in [Calls -> CallRecord]
    BY DEF IInv, TypeOK, CallRecord
  <2>5. log' = Append(log, Row(p, old.on)) /\ UNCHANGED <<life, screen>> /\ calls' = [calls EXCEPT ![c].at = "stored"]
    BY <1>1 DEF Insert
  <2>6. /\ calls'[c].at = "stored" /\ calls'[c].kind = old.kind /\ calls'[c].type = old.type
        /\ calls'[c].about = old.about /\ \A d \in Calls : d # c => calls'[d] = calls[d]
    BY <2>1, <2>4, <2>5 DEF CallRecord
  <2>7. log \in Seq(RowRecord) /\ Row(p, old.on) \in RowRecord /\ Row(p, old.on).p = p
    BY <2>2, <2>3, NumberShapes DEF Row, RowRecord
  <2>8. /\ \A k \in DOMAIN log : k \in DOMAIN log' /\ log'[k] = log[k]
        /\ \E k \in DOMAIN log' : log'[k].p = p
    BY <2>5, <2>7
  <2>9. /\ \A i : Alone(i)' => Alone(i) /\ (p.about \in Own => p.about = i)
        /\ \A i : Cancelled(i) => Cancelled(i)'
        /\ p.type = "SOS_CANCEL" => Cancelled(p.about)'
    BY <2>8 DEF Alone, Cancelled
  <2>10. \A i : Pending(i) => Pending(i)'
    BY <2>1, <2>6 DEF Pending
  <2>11. OpenShown'
    <3> SUFFICES ASSUME NEW n \in Runtimes, Current(n)', NEW i, i \in OpenIn(Held(n))', Alone(i)'
                 PROVE  shown' = i \/ Pending(i)' \/ Cancelled(i)'
      BY DEF OpenShown
    <3>1. Current(n)
      BY <2>5 DEF Current, life
    <3>2. CASE i \in OpenIn(Held(n))
      BY <2>5, <2>9, <2>10, <3>1, <3>2 DEF ScreensInv, OpenShown, screen
    <3>3. CASE p.about = i /\ old.on = n
      <4>1. i \in Own
        <5>1. IInv'
          BY <1>1, InsertStep
        <5>2. Alive(n)'
          BY <2>1, <2>5, <3>3 DEF Alive, life
        <5> QED BY <5>1, <5>2, OpenIsOwnNext
      <4>2. Saving(old) \/ Cancelling(old)
        BY <2>1, <2>3, <3>3, <4>1, NamesAssumption DEF Responding
      <4>3. CASE Cancelling(old)
        BY <2>3, <2>9, <3>3, <4>3 DEF Cancelling
      <4>4. CASE Saving(old) /\ old.type = "SOS_CREATE"
        BY <2>3, <2>6, <3>3, <4>4 DEF Pending, Saving
      <4>5. CASE Saving(old) /\ old.type # "SOS_CREATE"
        <5>1. old.kind = "save" /\ old.type = "SOS_UPDATE"
          BY <2>1, <4>5 DEF Saving
        <5>2. n = runtime
          <6>1. creates[n].at = "ready"
            BY <2>1, <3>3 DEF NumbersInv, CallsNumbered, CallNumbered
          <6>2. n = runtime \/ n = initializing
            BY <3>1 DEF Current
          <6> QED BY <6>1, <6>2, NumberShapes DEF ScreensInv
        <5>3. Updating(old)
          BY <2>1, <2>3, <3>3, <4>1, <5>1, <5>2, NoneAssumption DEF Updating
        <5>4. shown = i \/ Cancelled(i)
          BY <2>3, <2>9, <3>3, <5>3 DEF ScreensInv, CallShown
        <5> QED BY <2>5, <2>9, <5>4 DEF screen
      <4> QED BY <4>2, <4>3, <4>4, <4>5
    <3> QED BY <2>2, <2>3, <2>5, <3>2, <3>3, OpenAfterRow
  <2>12. ASSUME NEW d \in Calls PROVE CallShown(d)'
    <3> PICK call : call = calls'[d]
      OBVIOUS
    <3>1. CASE d = c
      <4>1. ~Updating(call)'
        BY <2>6, <3>1 DEF Updating
      <4>2. call.kind = "cancel" => Cancelled(call.about)'
        BY <2>1, <2>3, <2>6, <2>9, <3>1, UpdatesAssumption DEF Saving, Cancelling, Responding
      <4> QED BY <4>1, <4>2 DEF CallShown
    <3>2. CASE d # c
      <4>1. call = calls[d] /\ CallShown(d)
        BY <2>6, <3>2 DEF ScreensInv
      <4>2. Updating(call)' => Updating(call)
        BY <2>5 DEF Updating, life
      <4> QED BY <2>5, <2>9, <4>1, <4>2 DEF CallShown, screen
    <3> QED BY <3>1, <3>2
  <2> QED BY <2>5, <2>11, <2>12 DEF ScreensInv, life, screen
<1>2. ASSUME NEW p \in Arriving, Receive(p) PROVE ScreensInv'
  <2>1. p \in PacketRecord /\ p.source # Phone
    BY ArrivingFacts
  <2>2. runtime \in Runtimes
    BY <1>2 DEF Receive, IInv, TypeOK
  <2>3. log' = Append(log, Row(p, runtime)) /\ UNCHANGED <<life, calls, screen>>
    BY <1>2 DEF Receive
  <2>4. log \in Seq(RowRecord) /\ Row(p, runtime) \in RowRecord
    BY <2>1, <2>2, NumberShapes DEF Row, RowRecord
  <2>5. \A k \in DOMAIN log : k \in DOMAIN log' /\ log'[k] = log[k]
    BY <2>3, <2>4
  <2>6. \A i : (Alone(i)' => Alone(i)) /\ (Cancelled(i) => Cancelled(i)')
    BY <2>5 DEF Alone, Cancelled
  <2>7. OpenShown'
    <3> SUFFICES ASSUME NEW n \in Runtimes, Current(n)', NEW i, i \in OpenIn(Held(n))', Alone(i)'
                 PROVE  shown' = i \/ Pending(i)' \/ Cancelled(i)'
      BY DEF OpenShown
    <3>1. Current(n)
      BY <2>3 DEF Current, life
    <3>2. i \in OpenIn(Held(n))
      BY <2>1, <2>2, <2>3, OpenAfterRow
    <3>3. Pending(i) => Pending(i)'
      BY <2>3 DEF Pending
    <3> QED BY <2>3, <2>6, <3>1, <3>2, <3>3 DEF ScreensInv, OpenShown, screen
  <2>8. ASSUME NEW d \in Calls PROVE CallShown(d)'
    <3> PICK call : call = calls[d]
      OBVIOUS
    <3>1. CallShown(d) /\ calls'[d] = call
      BY <2>3 DEF ScreensInv
    <3>2. Updating(call)' => Updating(call)
      BY <2>3 DEF Updating, life
    <3> QED BY <2>3, <2>6, <3>1, <3>2 DEF CallShown, screen
  <2> QED BY <2>3, <2>7, <2>8 DEF ScreensInv, life, screen
<1> QED BY <1>1, <1>2

LEMMA ScreensOfStartUp ==
  ASSUME ~CutsStart, IInv, NumbersInv, ScreensInv, NEW n \in Runtimes, Restore(n) \/ Ready(n)
  PROVE  ScreensInv'
<1>1. UNCHANGED <<log, calls>> /\ creates[n].at \in {"read", "restored"} /\ initializing = n /\ runtime = 0
  BY NumberShapes DEF Restore, Ready, NumbersInv, OneStartUp, ScreensInv
<1>2. \A c \in Calls : calls[c] # IdleCall => creates[calls[c].on].at = "ready"
  BY DEF NumbersInv, CallsNumbered, CallNumbered
<1>3. \A i : (Alone(i)' <=> Alone(i)) /\ (Cancelled(i)' <=> Cancelled(i)) /\ (Pending(i)' <=> Pending(i))
  BY <1>1 DEF Alone, Cancelled, Pending
<1>4. \A c \in Calls : calls[c].kind = "save" => calls[c].on \in Runtimes /\ calls[c].on # n
  BY <1>1, <1>2, CallTaken DEF Alive, IdleCall
<1>5. (runtime' = 0 \/ runtime' = n) /\ (initializing' = 0 \/ (initializing' = n /\ runtime' = 0))
  BY <1>1 DEF Restore, Ready
<1>6. \A c \in Calls : CallShown(c)'
  <2>1. \A c \in Calls : ~Updating(calls[c])'
    BY <1>1, <1>4, <1>5, NumberShapes DEF Updating
  <2> QED BY <1>1, <1>3, <2>1 DEF CallShown, ScreensInv
<1>7. \A m \in Runtimes : Current(m)' => m = n
  BY <1>5, NumberShapes DEF Current
<1> PICK new : new = [creates[n] EXCEPT !.at = IF creates[n].at = "read" THEN "restored" ELSE "ready"]
  OBVIOUS
<1>8. creates' = [creates EXCEPT ![n] = new] /\ new.base = creates[n].base
  <2>1. CASE Restore(n)
    BY <2>1, NumberShapes DEF Restore, CreateRecord
  <2>2. CASE Ready(n)
    <3>1. initializing # 0
      BY <1>1, NumberShapes
    <3> QED BY <2>2, <3>1, NumberShapes DEF Ready, CreateRecord
  <2> QED BY <2>1, <2>2
<1>9. creates'[n] = new /\ creates'[n].base = creates[n].base
  BY <1>8, NumberShapes
<1>10. OpenIn(Held(n))' = OpenIn(Held(n))
  <2>1. Held(n)' = Held(n)
    BY <1>1, <1>9, HeldStays
  <2> QED BY <2>1 DEF OpenIn
<1>11. CASE Restore(n)
  <2> PICK open : open = OpenIn(Held(n))
    OBVIOUS
  <2>1. shown' \in (IF open = {} THEN {None} ELSE open) /\ hasActive' = (open # {}) /\ initializing' = n /\ runtime' = 0
    BY <1>1, <1>11 DEF Restore
  <2>2. \A i \in open : i \in Own /\ CreatedHere(i)
    BY <1>1, OpenIsCreated DEF Alive
  <2>3. \A i, j \in open : Alone(i) => i = j
    BY <2>2 DEF Alone, CreatedHere
  <2>4. OpenShown'
    BY <1>3, <1>7, <1>10, <2>1, <2>3 DEF OpenShown
  <2>5. shown' # None => hasActive'
    BY <2>1
  <2>6. creates[n].at = "read" /\ creates'[n].at = "restored"
    BY <1>9, <1>11, NumberShapes DEF Restore, CreateRecord
  <2> QED BY <1>6, <2>1, <2>4, <2>5, <2>6 DEF ScreensInv
<1>12. CASE Ready(n)
  <2>1. Current(n) /\ UNCHANGED screen /\ initializing' = 0
    BY <1>1, <1>12 DEF Current, Ready
  <2>2. OpenShown'
    BY <1>3, <1>7, <1>10, <2>1 DEF ScreensInv, OpenShown, screen
  <2> QED BY <1>6, <2>1, <2>2 DEF ScreensInv, screen
<1> QED BY <1>11, <1>12

\* A start-up begins, or the runtime goes: what is current stays or goes.
LEMMA ScreensOfStop ==
  ASSUME IInv, ScreensInv, UNCHANGED <<log, calls, screen>>,
         runtime' \in {runtime, 0}, initializing' \in {initializing, 0}, creates' = creates
  PROVE  ScreensInv'
<1>1. \A i : (Alone(i)' <=> Alone(i)) /\ (Cancelled(i)' <=> Cancelled(i)) /\ (Pending(i)' <=> Pending(i))
  BY DEF Alone, Cancelled, Pending
<1>2. \A n \in Runtimes : Current(n)' => Current(n)
  BY NumberShapes DEF Current
<1>3. \A n \in Runtimes : OpenIn(Held(n))' = OpenIn(Held(n))
  <2>1. \A n \in Runtimes : Held(n)' = Held(n)
    BY HeldStays
  <2> QED BY <2>1 DEF OpenIn
<1>4. OpenShown'
  BY <1>1, <1>2, <1>3 DEF ScreensInv, OpenShown, screen
<1>5. ASSUME NEW c \in Calls PROVE CallShown(c)'
  <2> PICK call : call = calls[c]
    OBVIOUS
  <2>1. calls[c] # IdleCall => call.on \in Runtimes
    BY CallTaken DEF Alive
  <2>2. Updating(call)' => Updating(call)
    BY <2>1, NumberShapes DEF Updating, IdleCall
  <2> QED BY <1>1, <2>2 DEF ScreensInv, CallShown, screen
<1> QED BY <1>4, <1>5 DEF ScreensInv, screen

LEMMA ScreensOfCreate ==
  ASSUME IInv, ScreensInv, UNCHANGED <<log, calls, screen>>, initializing = 0, runtime' = 0,
         NEW n \in Runtimes, FirstUnused(n), creates' = Created(n), initializing' = n
  PROVE  ScreensInv'
<1>1. creates'[n].at = "read"
  BY NumberShapes DEF Created
<1>2. \A m \in Runtimes : ~Current(m)'
  BY <1>1, NumberShapes DEF Current
<1>3. OpenShown'
  BY <1>2 DEF OpenShown
<1>4. \A c \in Calls : CallShown(c)'
  <2>1. \A c \in Calls : calls[c].kind = "save" => calls[c].on \in Runtimes
    BY CallTaken DEF Alive, IdleCall
  <2>2. \A c \in Calls : ~Updating(calls[c])'
    BY <2>1, NumberShapes DEF Updating
  <2> QED BY <2>2 DEF ScreensInv, CallShown, Cancelled
<1> QED BY <1>1, <1>3, <1>4 DEF ScreensInv, screen

LEMMA ScreensOfSession ==
  ASSUME ~CutsStart, IInv, NumbersInv, ScreensInv, Session
  PROVE  ScreensInv'
<1>1. ASSUME NEW n \in Runtimes, Login(n) PROVE ScreensInv'
  <2>1. UNCHANGED <<log, calls, screen, runtime>>
    BY <1>1 DEF Login
  <2>2. CASE runtime # 0 \/ initializing # 0
    BY <1>1, <2>1, <2>2, ScreensOfStop DEF Login
  <2>3. CASE runtime = 0 /\ initializing = 0
    BY <1>1, <2>1, <2>3, ScreensOfCreate DEF Login
  <2> QED BY <2>2, <2>3
<1>2. ASSUME NEW n \in Runtimes, NEW r \in Roles, Reconfigure(r, n) PROVE ScreensInv'
  <2>1. UNCHANGED <<log, calls, screen>> /\ runtime' = 0
    BY <1>2 DEF Reconfigure
  <2>2. CASE initializing # 0
    BY <1>2, <2>1, <2>2, ScreensOfStop DEF Reconfigure
  <2>3. CASE initializing = 0
    BY <1>2, <2>1, <2>3, ScreensOfCreate DEF Reconfigure
  <2> QED BY <2>2, <2>3
<1>3. CASE ResumeRelay
  BY <1>3, ScreensOfStop DEF ResumeRelay
<1>4. CASE Logout
  BY <1>4, ScreensOfStop DEF Logout
<1>5. CASE Die
  <2>1. /\ runtime' = 0 /\ initializing' = 0 /\ calls' = [c \in Calls |-> IdleCall] /\ UNCHANGED screen
    BY <1>5 DEF Die
  <2>2. OpenShown'
    BY <2>1, NumberShapes DEF OpenShown, Current
  <2>3. \A c \in Calls : CallShown(c)'
    BY <2>1 DEF CallShown, Updating, IdleCall
  <2> QED BY <2>1, <2>2, <2>3 DEF ScreensInv, screen
<1> QED BY <1>1, <1>2, <1>3, <1>4, <1>5 DEF Session

LEMMA InitScreensInv == Init => ScreensInv
BY RuntimesAssumption DEF Init, ScreensInv, OpenShown, Current, CallShown, Updating, IdleCall

LEMMA StepKeepsScreensInv ==
  ASSUME ~CutsStart
  PROVE  IInv /\ NumbersInv /\ ScreensInv /\ [Next]_vars => ScreensInv'
<1> SUFFICES ASSUME IInv, NumbersInv, ScreensInv, [Next]_vars PROVE ScreensInv'
  OBVIOUS
<1>1. CASE StartUp
  BY <1>1, ScreensOfStartUp DEF StartUp
<1>2. CASE Session
  BY <1>2, ScreensOfSession
<1>3. ASSUME NEW c \in Calls, Serve(c) PROVE ScreensInv'
  BY <1>3, ScreensOfBegin, ScreensOfLocated, ScreensOfFinish, ScreensOfLog DEF Serve
<1>4. ASSUME NEW p \in Arriving, Receive(p) PROVE ScreensInv'
  BY <1>4, ScreensOfLog
<1>5. CASE UNCHANGED vars
  BY <1>5, ScreensOfStop DEF vars, life
<1> QED BY <1>1, <1>2, <1>3, <1>4, <1>5 DEF Next

LEMMA QuietShows ==
  ASSUME IInv, NumbersInv, ScreensInv
  PROVE  OpenSosIsShown
<1> SUFFICES ASSUME Quiet, Cardinality(OwnIncidents) = 1, NEW i \in Own, StillOpen(i)
             PROVE  (shown = i /\ hasActive) \/ Cancelled(i)
  BY DEF OpenSosIsShown, Cancelled
<1>1. runtime \in Runtimes /\ Current(runtime) /\ Alive(runtime)
  BY NumberShapes DEF Quiet, IInv, TypeOK, NumbersInv, OneStartUp, Current, Alive
<1>2. i \in OpenIn(Held(runtime))
  BY DEF StillOpen, OpenIn, Incidents
<1>3. Alone(i)
  <2>1. IsFiniteSet(OwnIncidents)
    <3> PICK m \in Nat : m = Len(log)
      BY NumberShapes
    <3>1. IsFiniteSet(1..m)
      BY FS_Interval
    <3>2. OwnIncidents \subseteq {log[k].p.about : k \in 1..m}
      BY NumberShapes DEF OwnIncidents
    <3> DEFINE subjects == [k \in 1..m |-> log[k].p.about]
    <3>3. subjects \in Surjection(1..m, {log[k].p.about : k \in 1..m})
      BY DEF Surjection
    <3>4. IsFiniteSet({log[k].p.about : k \in 1..m})
      <4> HIDE DEF subjects
      <4> QED BY <3>1, <3>3, FS_Surjection
    <3> QED BY <3>2, <3>4, FS_Subset
  <2>2. PICK x : OwnIncidents = {x}
    BY <2>1, FS_Singleton
  <2>3. i \in OwnIncidents
    BY <1>1, <1>2, OpenIsCreated DEF OwnIncidents, CreatedHere
  <2> QED BY <2>2, <2>3 DEF Alone, OwnIncidents
<1>4. ~Pending(i)
  BY DEF Quiet, Pending, IdleCall
<1>5. shown = i \/ Cancelled(i)
  BY <1>1, <1>2, <1>3, <1>4 DEF ScreensInv, OpenShown
<1>6. i # None
  BY NoneAssumption
<1> QED BY <1>5, <1>6 DEF ScreensInv

\* As long as no logout cuts a start-up: a phone with one incident shows it while
\* it is open (activeIncidentId, hasActiveSos), once the calls have returned,
\* through any number of deaths and replaced runtimes.
THEOREM OpenSosStaysShown ==
  ASSUME ~CutsStart
  PROVE  Spec => []OpenSosIsShown
<1>1. IInv /\ NumbersInv /\ [Next]_vars => NumbersInv'
  BY StepKeepsNumbersInv
<1>2. IInv /\ NumbersInv /\ ScreensInv /\ [Next]_vars => ScreensInv'
  BY StepKeepsScreensInv
<1>3. IInv /\ NumbersInv /\ ScreensInv => OpenSosIsShown
  BY QuietShows
<1> QED BY <1>1, <1>2, <1>3, InitNumbersInv, InitScreensInv, OriginsInvariant, PTL DEF Spec
=============================================================================
