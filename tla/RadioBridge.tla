----------------------------- MODULE RadioBridge -----------------------------
(***************************************************************************)
(* The native Bluetooth bridge of an Android phone: the sessions it opens, *)
(* those its neighbours open, and the records written on them.             *)
(*                                                                         *)
(* Its tables are concurrent maps that several threads use without a       *)
(* common lock: the module thread serves the calls of the relay loop one   *)
(* by one, Android's callbacks of a connection come one by one on a thread *)
(* of their own, timeouts and the Stop of the notification run on the main *)
(* thread.  A step below is one access to one table, or several that no    *)
(* other thread can tell apart.  What a thread has left to do is its       *)
(* sequence of steps in "todo".  The table sessionPeers, which names the   *)
(* peer in what is reported, is left out.                                  *)
(*                                                                         *)
(* When advertising fails the bridge goes over to Bluetooth Classic, where *)
(* a record is written by the call itself.                                 *)
(***************************************************************************)
EXTENDS Naturals, FiniteSets, Sequences, Functions

CONSTANTS
  Sessions,    \* sessions, of this phone's or of a neighbour's opening
  Records,     \* records to send
  SessionOf,   \* the session a record is for
  None,
  MaxWaiting,  \* bound: records of one session the relay loop awaits at once
  MaxStops     \* bound: stops of the relay considered

Threads  == {"module", "main"} \cup Sessions

ASSUME SessionsAssumption == {"module", "main"} \cap Sessions = {}
ASSUME RecordsAssumption == SessionOf \in [Records -> Sessions] /\ None \notin Records
ASSUME BoundsAssumption == MaxWaiting \in Nat /\ MaxStops \in Nat

VARIABLES
  selectedMode,
  link,            \* Android's side of a connection
  air,             \* the operation under way on a connection
  clientGatts, serverDevices, classicSockets, pendingSessions, sessionTimeouts,
  negotiatedMtu,   \* the tables' sessions; negotiatedMtu those with room for a record
  writeQueues,     \* the queue in the table, 0 for none
  queues,          \* the queues made for a session
  activeWrites,
  opened,          \* what became of the call openSession(); "no" if a neighbour's
  overtaken,       \* history: sessions put on the tables while the main thread stopped the relay
  outcome,         \* what became of the call sendRecord()
  written,         \* history: records the link confirmed
  stops,           \* stops of the relay begun
  todo

radio  == <<selectedMode, link, air, stops>>
gatts  == <<clientGatts, serverDevices, classicSockets>>
setup  == <<pendingSessions, sessionTimeouts, negotiatedMtu>>
writes == <<writeQueues, queues, activeWrites, outcome, written>>
opens  == <<opened, overtaken>>
vars   == <<radio, gatts, setup, writes, opens, todo>>

-----------------------------------------------------------------------------
(* Threads *)

Step(op, s) == [op |-> op, s |-> s, w |-> None, q |-> 0]
Steps(ops, s) == [k \in DOMAIN ops |-> Step(ops[k], s)]

Idle(t) == todo[t] = <<>>
Stopping(t) == ~Idle(t) /\ todo[t][Len(todo[t])].op = "clearRest"
Runs(t, op) == ~Idle(t) /\ Head(todo[t]).op = op
Start(t, steps) == Idle(t) /\ todo' = [todo EXCEPT ![t] = steps]

\* The step at the head is done; "steps" come before what the thread was at.
Go(t, steps) == todo' = [todo EXCEPT ![t] = steps \o Tail(@)]
With(t, op, w, q) == <<[op |-> op, s |-> Head(todo[t]).s, w |-> w, q |-> q]>>

\* A promise is settled once.  To settle it again throws, which ends what the
\* thread was at and leaves those that would have come later as they are.
SettleOpens(t, S, how) ==
  LET waiting == {s \in S : opened[s] = "waiting"}
      Settled(D) == [s \in Sessions |-> IF s \in D THEN how ELSE opened[s]]
  IN  \/ waiting = S /\ opened' = Settled(S) /\ Go(t, <<>>)
      \/ /\ waiting # S /\ \E D \in SUBSET waiting : opened' = Settled(D)
         /\ todo' = [todo EXCEPT ![t] = <<>>]

SettleWrites(t, W, how, steps) ==
  LET waiting == {w \in W : outcome[w] = "waiting"}
      Settled(D) == [w \in Records |-> IF w \in D THEN how ELSE outcome[w]]
  IN  \/ waiting = W /\ outcome' = Settled(W) /\ Go(t, steps)
      \/ /\ waiting # W /\ \E D \in SUBSET waiting : outcome' = Settled(D)
         /\ todo' = [todo EXCEPT ![t] = <<>>]

CloseSteps(s) ==
  Steps(<<"cancelTimeout", "rejectPending", "failActive", "failQueue", "drop">>, s)
FailSteps(s) == Steps(<<"cancelTimeout", "rejectPending", "drop">>, s)
StopSteps ==
  Steps(<<"stopGatts", "rejectOpens", "clearOpens", "rejectActive", "clearActive",
          "rejectQueues", "clearQueues", "clearRest">>, None)

-----------------------------------------------------------------------------
(* Calls of the relay loop, on the module thread *)

\* A session the relay loop has heard of; that it was closed may be news yet.
Known(s) == opened[s] = "resolved" \/ (opened[s] = "no" /\ link[s] # "none")

\* openSession(): the peer may be out of sight by now.
OpenSession(s) ==
  /\ opened[s] = "no" /\ link[s] = "none"
  /\ \/ Idle("module") /\ opened' = [opened EXCEPT ![s] = "rejected"] /\ UNCHANGED <<link, todo>>
     \/ /\ selectedMode = "classic" /\ Idle("module")
        /\ opened' = [opened EXCEPT ![s] = "waiting"]
        /\ link' = [link EXCEPT ![s] = "calling"]
        /\ UNCHANGED todo
     \/ /\ selectedMode = "ble"
        /\ opened' = [opened EXCEPT ![s] = "waiting"]
        /\ Start("module", Steps(<<"put", "schedule", "connect", "putGatt">>, s))
        /\ UNCHANGED link
  /\ UNCHANGED <<stops, selectedMode, air, gatts, setup, writes, overtaken>>

CloseSession(s) ==
  /\ Known(s) /\ Start("module", CloseSteps(s))
  /\ UNCHANGED <<radio, gatts, setup, writes, opens>>

Waiting(s) == {w \in Records : SessionOf[w] = s /\ outcome[w] = "waiting"}

SendRecord(w) ==
  LET s == SessionOf[w]
  IN  /\ Known(s) /\ outcome[w] = "unsent" /\ Cardinality(Waiting(s)) < MaxWaiting
      /\ outcome' = [outcome EXCEPT ![w] = "waiting"]
      /\ Start("module", <<[op |-> "admit", s |-> s, w |-> w, q |-> 0]>>)
      /\ UNCHANGED <<radio, gatts, setup, writeQueues, queues, activeWrites, written, opens>>

\* stopRelay(), begun by the relay loop or by the Stop of the notification.
StopRelayOn(t) ==
  /\ stops < MaxStops /\ Start(t, StopSteps)
  /\ stops' = stops + 1
  /\ UNCHANGED <<selectedMode, link, air, gatts, setup, writes, opens>>

StopRelay == StopRelayOn("module")

-----------------------------------------------------------------------------
(* Steps of opening a session *)

Put(t, s) ==
  /\ Runs(t, "put")
  /\ pendingSessions' = pendingSessions \cup {s}
  /\ overtaken' = IF Stopping("main") THEN overtaken \cup {s} ELSE overtaken
  /\ Go(t, <<>>)
  /\ UNCHANGED <<radio, gatts, sessionTimeouts, negotiatedMtu, writes, opened>>

Schedule(t, s) ==
  /\ Runs(t, "schedule")
  /\ sessionTimeouts' = sessionTimeouts \cup {s}
  /\ Go(t, <<>>)
  /\ UNCHANGED <<radio, gatts, pendingSessions, negotiatedMtu, writes, opens>>

\* connectGatt() returns; a callback may come before its result is in the table.
Connect(t, s) ==
  /\ Runs(t, "connect")
  /\ link' = [link EXCEPT ![s] = "connecting"]
  /\ Go(t, <<>>)
  /\ UNCHANGED <<stops, selectedMode, air, gatts, setup, writes, opens>>

PutGatt(t, s) ==
  /\ Runs(t, "putGatt")
  /\ clientGatts' = clientGatts \cup {s}
  /\ Go(t, <<>>)
  /\ UNCHANGED <<radio, serverDevices, classicSockets, setup, writes, opens>>

-----------------------------------------------------------------------------
(* Steps of sending a record *)

\* sendRecord(): on a Classic socket at once; a closed session, or one with no
\* room for a record, is refused; otherwise the record is queued.
Admit(t, s) ==
  LET w == Head(todo[t]).w
  IN  /\ Runs(t, "admit")
      /\ \/ /\ s \in classicSockets
            /\ \/ written' = written \cup {w} /\ SettleWrites(t, {w}, "resolved", <<>>)
               \/ SettleWrites(t, {w}, "rejected", <<>>) /\ UNCHANGED written
         \/ /\ s \notin classicSockets \cup ((clientGatts \cup serverDevices) \cap negotiatedMtu)
            /\ SettleWrites(t, {w}, "rejected", <<>>) /\ UNCHANGED written
         \/ /\ s \notin classicSockets /\ s \in (clientGatts \cup serverDevices) \cap negotiatedMtu
            /\ Go(t, With(t, "getOrPut", w, 0)) /\ UNCHANGED <<outcome, written>>
      /\ UNCHANGED <<radio, gatts, setup, writeQueues, queues, activeWrites, opens>>

GetOrPut(t, s) ==
  LET q == IF writeQueues[s] = 0 THEN Len(queues[s]) + 1 ELSE writeQueues[s]
  IN  /\ Runs(t, "getOrPut")
      /\ queues' = IF writeQueues[s] = 0 THEN [queues EXCEPT ![s] = Append(@, <<>>)] ELSE queues
      /\ writeQueues' = [writeQueues EXCEPT ![s] = q]
      /\ Go(t, With(t, "add", Head(todo[t]).w, q))
      /\ UNCHANGED <<radio, gatts, setup, activeWrites, outcome, written, opens>>

Add(t, s) ==
  /\ Runs(t, "add")
  /\ queues' = [queues EXCEPT ![s][Head(todo[t]).q] = Append(@, Head(todo[t]).w)]
  /\ Go(t, Steps(<<"checkActive">>, s))
  /\ UNCHANGED <<radio, gatts, setup, writeQueues, activeWrites, outcome, written, opens>>

\* startNextWrite() and its four accesses.
CheckActive(t, s) ==
  /\ Runs(t, "checkActive")
  /\ Go(t, IF activeWrites[s] # None THEN <<>> ELSE Steps(<<"getQueue">>, s))
  /\ UNCHANGED <<radio, gatts, setup, writes, opens>>

GetQueue(t, s) ==
  /\ Runs(t, "getQueue")
  /\ Go(t, IF writeQueues[s] = 0 THEN <<>> ELSE With(t, "poll", None, writeQueues[s]))
  /\ UNCHANGED <<radio, gatts, setup, writes, opens>>

Poll(t, s) ==
  LET q == Head(todo[t]).q
  IN  /\ Runs(t, "poll")
      /\ IF queues[s][q] = <<>>
         THEN Go(t, Steps(<<"removeQueue">>, s)) /\ UNCHANGED queues
         ELSE /\ queues' = [queues EXCEPT ![s][q] = Tail(@)]
              /\ Go(t, With(t, "setActive", Head(queues[s][q]), 0))
      /\ UNCHANGED <<radio, gatts, setup, writeQueues, activeWrites, outcome, written, opens>>

RemoveQueue(t, s) ==
  /\ Runs(t, "removeQueue")
  /\ writeQueues' = [writeQueues EXCEPT ![s] = 0]
  /\ Go(t, <<>>)
  /\ UNCHANGED <<radio, gatts, setup, queues, activeWrites, outcome, written, opens>>

SetActive(t, s) ==
  /\ Runs(t, "setActive")
  /\ activeWrites' = [activeWrites EXCEPT ![s] = Head(todo[t]).w]
  /\ Go(t, With(t, "write", Head(todo[t]).w, 0))
  /\ UNCHANGED <<radio, gatts, setup, writeQueues, queues, outcome, written, opens>>

\* Android takes one operation at a time, and may refuse any.  Without the
\* session in a table, or with the server closed, the call throws.
Write(t, s) ==
  LET w == Head(todo[t]).w
  IN  /\ Runs(t, "write")
      /\ \/ /\ s \in clientGatts \cup serverDevices /\ link[s] = "up" /\ air[s] = None
            /\ air' = [air EXCEPT ![s] = w]
            /\ Go(t, <<>>) /\ UNCHANGED <<activeWrites, outcome>>
         \/ /\ s \in clientGatts \cup serverDevices
            /\ Go(t, Steps(<<"failed">>, s)) /\ UNCHANGED <<air, activeWrites, outcome>>
         \/ /\ s \notin clientGatts /\ (s \in serverDevices => link[s] = "closed")
            /\ activeWrites' = [activeWrites EXCEPT ![s] = None]
            /\ SettleWrites(t, {w}, "rejected", Steps(<<"checkActive">>, s))
            /\ UNCHANGED air
      /\ UNCHANGED <<stops, selectedMode, link, gatts, setup, writeQueues, queues, written, opens>>

\* completeWrite(): whatever is active was written, or was not.
CompleteWrite(t, s) ==
  /\ Runs(t, "completed") \/ Runs(t, "failed")
  /\ IF activeWrites[s] = None
     THEN Go(t, <<>>) /\ UNCHANGED <<activeWrites, outcome>>
     ELSE /\ activeWrites' = [activeWrites EXCEPT ![s] = None]
          /\ SettleWrites(t, {activeWrites[s]}, IF Runs(t, "completed") THEN "resolved" ELSE "rejected",
                          Steps(<<"checkActive">>, s))
  /\ UNCHANGED <<radio, gatts, setup, writeQueues, queues, written, opens>>

-----------------------------------------------------------------------------
(* Steps of closing a session *)

CancelTimeout(t, s) ==
  /\ Runs(t, "cancelTimeout")
  /\ sessionTimeouts' = sessionTimeouts \ {s}
  /\ Go(t, <<>>)
  /\ UNCHANGED <<radio, gatts, pendingSessions, negotiatedMtu, writes, opens>>

SettlePending(t, s) ==
  /\ Runs(t, "resolvePending") \/ Runs(t, "rejectPending")
  /\ pendingSessions' = pendingSessions \ {s}
  /\ SettleOpens(t, {s} \cap pendingSessions, IF Runs(t, "resolvePending") THEN "resolved" ELSE "rejected")
  /\ UNCHANGED <<radio, gatts, sessionTimeouts, negotiatedMtu, writes, overtaken>>

FailActive(t, s) ==
  /\ Runs(t, "failActive")
  /\ activeWrites' = [activeWrites EXCEPT ![s] = None]
  /\ SettleWrites(t, {activeWrites[s]} \ {None}, "rejected", <<>>)
  /\ UNCHANGED <<radio, gatts, setup, writeQueues, queues, written, opens>>

FailQueue(t, s) ==
  /\ Runs(t, "failQueue")
  /\ writeQueues' = [writeQueues EXCEPT ![s] = 0]
  /\ Go(t, IF writeQueues[s] = 0 THEN <<>> ELSE With(t, "drain", None, writeQueues[s]))
  /\ UNCHANGED <<radio, gatts, setup, queues, activeWrites, outcome, written, opens>>

Drain(t, s) ==
  LET q == Head(todo[t]).q
  IN  /\ Runs(t, "drain")
      /\ queues' = [queues EXCEPT ![s][q] = <<>>]
      /\ SettleWrites(t, Range(queues[s][q]), "rejected", <<>>)
      /\ UNCHANGED <<radio, gatts, setup, writeQueues, activeWrites, written, opens>>

Closed(S) == /\ link' = [s \in Sessions |-> IF s \in S THEN "closed" ELSE link[s]]
             /\ air'  = [s \in Sessions |-> IF s \in S THEN None ELSE air[s]]

\* The connection is closed, so that Android reports nothing of it any more, and
\* the relay loop is told; no thread can tell the one from the other.
Drop(t, s) ==
  /\ Runs(t, "drop")
  /\ clientGatts' = clientGatts \ {s} /\ serverDevices' = serverDevices \ {s}
  /\ classicSockets' = classicSockets \ {s}
  /\ Closed({s} \cap (clientGatts \cup serverDevices \cup classicSockets))
  /\ sessionTimeouts' = sessionTimeouts \ {s} /\ negotiatedMtu' = negotiatedMtu \ {s}
  /\ Go(t, <<>>)
  /\ UNCHANGED <<stops, selectedMode, pendingSessions, writes, opens>>

DropServer(t, s) ==
  /\ Runs(t, "dropServer")
  /\ serverDevices' = serverDevices \ {s}
  /\ Go(t, <<>>)
  /\ UNCHANGED <<radio, clientGatts, classicSockets, setup, writes, opens>>

\* closeFromNative()
Report(t, s) ==
  /\ Runs(t, "report")
  /\ sessionTimeouts' = sessionTimeouts \ {s}
  /\ negotiatedMtu' = negotiatedMtu \ {s}
  /\ Go(t, <<>>)
  /\ UNCHANGED <<radio, gatts, pendingSessions, writes, opens>>

-----------------------------------------------------------------------------
(* Steps of stopRelay() *)

StopGatts(t) ==
  /\ Runs(t, "stopGatts")
  /\ clientGatts' = {} /\ classicSockets' = {} /\ UNCHANGED serverDevices
  /\ Closed(clientGatts \cup serverDevices \cup classicSockets)
  /\ Go(t, <<>>)
  /\ UNCHANGED <<stops, selectedMode, setup, writes, opens>>

StopOpens(t) ==
  /\ \/ /\ Runs(t, "rejectOpens")
        /\ SettleOpens(t, pendingSessions, "rejected") /\ UNCHANGED pendingSessions
     \/ /\ Runs(t, "clearOpens")
        /\ pendingSessions' = {} /\ Go(t, <<>>) /\ UNCHANGED opened
  /\ UNCHANGED <<radio, gatts, sessionTimeouts, negotiatedMtu, writes, overtaken>>

StopActive(t) ==
  /\ \/ /\ Runs(t, "rejectActive")
        /\ SettleWrites(t, {activeWrites[s] : s \in Sessions} \ {None}, "rejected", <<>>)
        /\ UNCHANGED activeWrites
     \/ /\ Runs(t, "clearActive")
        /\ activeWrites' = [s \in Sessions |-> None] /\ Go(t, <<>>) /\ UNCHANGED outcome
  /\ UNCHANGED <<radio, gatts, setup, writeQueues, queues, written, opens>>

StopQueues(t) ==
  /\ \/ /\ Runs(t, "rejectQueues")
        /\ queues' = [s \in Sessions |-> [q \in DOMAIN queues[s] |->
                        IF q = writeQueues[s] THEN <<>> ELSE queues[s][q]]]
        /\ SettleWrites(t, UNION {Range(queues[s][writeQueues[s]]) : s \in {r \in Sessions : writeQueues[r] # 0}},
                        "rejected", <<>>)
        /\ UNCHANGED writeQueues
     \/ /\ Runs(t, "clearQueues")
        /\ writeQueues' = [s \in Sessions |-> 0] /\ Go(t, <<>>) /\ UNCHANGED <<queues, outcome>>
  /\ UNCHANGED <<radio, gatts, setup, activeWrites, written, opens>>

ClearRest(t) ==
  /\ Runs(t, "clearRest")
  /\ sessionTimeouts' = {} /\ negotiatedMtu' = {} /\ serverDevices' = {}
  /\ Go(t, <<>>)
  /\ UNCHANGED <<radio, clientGatts, classicSockets, pendingSessions, writes, opens>>

-----------------------------------------------------------------------------
(* The main thread *)

\* The set-up timeout; openSession() itself takes no fifteen seconds.
Timeout(s) ==
  /\ s \in sessionTimeouts
  /\ \A k \in DOMAIN todo["module"] : todo["module"][k].op \notin {"connect", "putGatt"}
  /\ sessionTimeouts' = sessionTimeouts \ {s}
  /\ Start("main", Steps(<<"rejectPending">>, s) \o CloseSteps(s))
  /\ UNCHANGED <<radio, gatts, pendingSessions, negotiatedMtu, writes, opens>>

NotificationStop == StopRelayOn("main")

\* Advertising was refused: the connections are closed, calls and tables stay,
\* and the next session is a Classic one.
AdvertisingUnavailable ==
  /\ selectedMode = "ble" /\ Idle("main")
  /\ selectedMode' = "classic"
  /\ clientGatts' = {}
  /\ Closed(clientGatts \cup serverDevices)
  /\ UNCHANGED <<stops, serverDevices, classicSockets, setup, writes, opens, todo>>

-----------------------------------------------------------------------------
(* Android's callbacks of a connection *)

\* A callback that comes before the table knows the connection does nothing.
OnConnected(s) ==
  /\ link[s] = "connecting"
  /\ \/ /\ s \notin clientGatts /\ Idle(s)
        /\ link' = [link EXCEPT ![s] = "connected"] /\ UNCHANGED todo
     \/ /\ s \in clientGatts /\ Idle(s)
        /\ link' = [link EXCEPT ![s] = "negotiating"] /\ UNCHANGED todo
     \/ /\ s \in clientGatts /\ Start(s, FailSteps(s))
        /\ link' = [link EXCEPT ![s] = "connected"]
  /\ UNCHANGED <<stops, selectedMode, air, gatts, setup, writes, opens>>

\* Mutant: with the MTU negotiated the session counts as set up.
OnMtuChangedEarly(s) ==
  /\ link[s] = "negotiating"
  /\ \/ /\ Start(s, Steps(<<"cancelTimeout">>, s))
        /\ negotiatedMtu' = negotiatedMtu \cup {s}
        /\ link' = [link EXCEPT ![s] = "discovering"]
     \/ /\ Start(s, FailSteps(s))
        /\ link' = [link EXCEPT ![s] = "connected"] /\ UNCHANGED negotiatedMtu
  /\ UNCHANGED <<stops, selectedMode, air, gatts, pendingSessions, sessionTimeouts, writes, opens>>

\* A peer that grants less than a record needs is given up.
OnMtuChanged(s) ==
  /\ link[s] = "negotiating"
  /\ \/ /\ Idle(s)
        /\ negotiatedMtu' = negotiatedMtu \cup {s}
        /\ link' = [link EXCEPT ![s] = "discovering"] /\ UNCHANGED todo
     \/ /\ Start(s, FailSteps(s))
        /\ link' = [link EXCEPT ![s] = "connected"] /\ UNCHANGED negotiatedMtu
  /\ UNCHANGED <<stops, selectedMode, air, gatts, pendingSessions, sessionTimeouts, writes, opens>>

\* Without the service the session ends and its connection stays.
OnServicesDiscovered(s) ==
  /\ link[s] = "discovering"
  /\ \/ Idle(s) /\ link' = [link EXCEPT ![s] = "subscribing"] /\ UNCHANGED todo
     \/ /\ Start(s, Steps(<<"rejectPending", "report">>, s))
        /\ link' = [link EXCEPT ![s] = "connected"]
     \/ /\ Start(s, Steps(<<"rejectPending">>, s) \o CloseSteps(s))
        /\ link' = [link EXCEPT ![s] = "connected"]
  /\ UNCHANGED <<stops, selectedMode, air, gatts, setup, writes, opens>>

OnDescriptorWrite(s) ==
  /\ link[s] = "subscribing"
  /\ \/ /\ Start(s, Steps(<<"cancelTimeout", "resolvePending">>, s))
        /\ link' = [link EXCEPT ![s] = "up"]
     \/ /\ Start(s, Steps(<<"rejectPending">>, s) \o CloseSteps(s))
        /\ link' = [link EXCEPT ![s] = "connected"]
  /\ UNCHANGED <<stops, selectedMode, air, gatts, setup, writes, opens>>

\* Mutant: the status of a write is not looked at.
OnCharacteristicWriteAnyhow(s) ==
  /\ air[s] # None /\ Start(s, Steps(<<"completed">>, s))
  /\ air' = [air EXCEPT ![s] = None]
  /\ written' \in {written, written \cup {air[s]}}
  /\ UNCHANGED <<stops, selectedMode, link, gatts, setup, writeQueues, queues, activeWrites, outcome, opens>>

\* The write, or the notification, is done or has failed.
OnCharacteristicWrite(s) ==
  /\ air[s] # None
  /\ \/ Start(s, Steps(<<"completed">>, s)) /\ written' = written \cup {air[s]}
     \/ Start(s, Steps(<<"failed">>, s)) /\ UNCHANGED written
  /\ air' = [air EXCEPT ![s] = None]
  /\ UNCHANGED <<stops, selectedMode, link, gatts, setup, writeQueues, queues, activeWrites, outcome, opens>>

Alive == {"connecting", "connected", "negotiating", "discovering", "subscribing", "up"}

\* The neighbour is out of range.  A client's connection stays in its table.
OnDisconnected(s) ==
  /\ link[s] \in Alive /\ s \notin classicSockets
  /\ link' = [link EXCEPT ![s] = "gone"]
  /\ air' = [air EXCEPT ![s] = None]
  /\ \/ s \in clientGatts /\ Start(s, Steps(<<"rejectPending", "failActive", "failQueue", "report">>, s))
     \/ s \in serverDevices /\ Start(s, Steps(<<"failActive", "failQueue", "dropServer", "report">>, s))
     \/ s \notin clientGatts \cup serverDevices /\ Idle(s) /\ UNCHANGED todo
  /\ UNCHANGED <<stops, selectedMode, gatts, setup, writes, opens>>

\* Mutant: the neighbour's connection is taken for one of this phone's.
AcceptedAsClient(s) ==
  /\ link[s] = "none" /\ opened[s] = "no" /\ selectedMode = "ble"
  /\ link' = [link EXCEPT ![s] = "up"]
  /\ clientGatts' = clientGatts \cup {s}
  /\ UNCHANGED <<stops, selectedMode, air, serverDevices, classicSockets, pendingSessions, sessionTimeouts,
                 negotiatedMtu, writes, opens, todo>>

\* A neighbour connects; its MTU is the smallest until it negotiates.
Accepted(s) ==
  /\ link[s] = "none" /\ opened[s] = "no" /\ selectedMode = "ble"
  /\ link' = [link EXCEPT ![s] = "up"]
  /\ serverDevices' = serverDevices \cup {s}
  /\ UNCHANGED <<stops, selectedMode, air, clientGatts, classicSockets, pendingSessions, sessionTimeouts,
                 negotiatedMtu, writes, opens, todo>>

OnServerMtuChanged(s) ==
  /\ link[s] = "up" /\ s \in serverDevices \ negotiatedMtu /\ Idle(s)
  /\ negotiatedMtu' = negotiatedMtu \cup {s}
  /\ UNCHANGED <<radio, gatts, pendingSessions, sessionTimeouts, writes, opens, todo>>

-----------------------------------------------------------------------------
(* Bluetooth Classic: each session has a thread of its own *)

ClassicConnected(s) ==
  /\ selectedMode = "classic"
  /\ link[s] = "calling" \/ (link[s] = "none" /\ opened[s] = "no")
  /\ link' = [link EXCEPT ![s] = "up"]
  /\ classicSockets' = classicSockets \cup {s}
  /\ opened' = IF link[s] = "calling" THEN [opened EXCEPT ![s] = "resolved"] ELSE opened
  /\ UNCHANGED <<stops, selectedMode, air, clientGatts, serverDevices, pendingSessions, sessionTimeouts,
                 negotiatedMtu, writes, todo, overtaken>>

ClassicRefused(s) ==
  /\ link[s] = "calling"
  /\ link' = [link EXCEPT ![s] = "gone"]
  /\ opened' = [opened EXCEPT ![s] = "rejected"]
  /\ UNCHANGED <<stops, selectedMode, air, gatts, setup, writes, todo, overtaken>>

ClassicLost(s) ==
  /\ s \in classicSockets /\ Start(s, Steps(<<"report">>, s))
  /\ classicSockets' = classicSockets \ {s}
  /\ link' = [link EXCEPT ![s] = "gone"]
  /\ UNCHANGED <<stops, selectedMode, air, clientGatts, serverDevices, setup, writes, opens>>

-----------------------------------------------------------------------------
Init ==
  /\ selectedMode = "ble" /\ stops = 0
  /\ link = [s \in Sessions |-> "none"] /\ air = [s \in Sessions |-> None]
  /\ clientGatts = {} /\ serverDevices = {} /\ classicSockets = {}
  /\ pendingSessions = {} /\ sessionTimeouts = {} /\ negotiatedMtu = {}
  /\ writeQueues = [s \in Sessions |-> 0] /\ queues = [s \in Sessions |-> <<>>]
  /\ activeWrites = [s \in Sessions |-> None]
  /\ opened = [s \in Sessions |-> "no"] /\ overtaken = {} /\ outcome = [w \in Records |-> "unsent"]
  /\ written = {}
  /\ todo = [t \in Threads |-> <<>>]

SessionStep(t, s) ==
  \/ Put(t, s) \/ Schedule(t, s) \/ Connect(t, s) \/ PutGatt(t, s)
  \/ Admit(t, s) \/ GetOrPut(t, s) \/ Add(t, s)
  \/ CheckActive(t, s) \/ GetQueue(t, s) \/ Poll(t, s) \/ RemoveQueue(t, s) \/ SetActive(t, s)
  \/ Write(t, s) \/ CompleteWrite(t, s)
  \/ CancelTimeout(t, s) \/ SettlePending(t, s) \/ FailActive(t, s) \/ FailQueue(t, s) \/ Drain(t, s)
  \/ Drop(t, s) \/ DropServer(t, s) \/ Report(t, s)

Run(t) ==
  /\ ~Idle(t)
  /\ \/ StopGatts(t) \/ StopOpens(t) \/ StopActive(t) \/ StopQueues(t) \/ ClearRest(t)
     \/ SessionStep(t, Head(todo[t]).s)

Call ==
  \/ \E s \in Sessions : OpenSession(s) \/ CloseSession(s)
  \/ \E w \in Records : SendRecord(w)
  \/ StopRelay

Callback(s) ==
  \/ OnConnected(s) \/ OnMtuChanged(s) \/ OnServicesDiscovered(s) \/ OnDescriptorWrite(s)
  \/ Accepted(s) \/ OnServerMtuChanged(s)
  \/ OnCharacteristicWrite(s) \/ OnDisconnected(s) \/ ClassicLost(s)

ClassicCall(s) == ClassicConnected(s) \/ ClassicRefused(s)

Next ==
  \/ Call
  \/ \E t \in Threads : Run(t)
  \/ \E s \in Sessions : Callback(s) \/ ClassicCall(s) \/ Timeout(s)
  \/ NotificationStop \/ AdvertisingUnavailable

Spec == Init /\ [][Next]_vars

-----------------------------------------------------------------------------
(* Properties *)

\* The steps of opening a session, of sending a record (those with a record in
\* hand apart), of closing a session and of stopRelay().
OpeningOps == {"put", "schedule", "connect", "putGatt"}
CarryOps   == {"admit", "getOrPut", "add", "setActive", "write"}
SendingOps == CarryOps \cup {"checkActive", "getQueue", "poll", "removeQueue", "completed", "failed"}
SettleOps  == {"resolvePending", "rejectPending"}
ClosingOps == SettleOps \cup {"cancelTimeout", "failActive", "failQueue", "drain", "drop", "dropServer", "report"}
PastOps    == {"clearOpens", "rejectActive", "clearActive", "rejectQueues", "clearQueues", "clearRest"}
StopOps    == PastOps \cup {"stopGatts", "rejectOpens"}
Ops        == OpeningOps \cup SendingOps \cup ClosingOps \cup StopOps

StepRecord == [op : Ops, s : Sessions \cup {None}, w : Records \cup {None}, q : Nat]

\* Every variable has the shape of the state it models.
TypeOK ==
  /\ selectedMode \in {"ble", "classic"} /\ stops \in 0..MaxStops
  /\ link \in [Sessions -> Alive \cup {"none", "calling", "gone", "closed"}]
  /\ air \in [Sessions -> Records \cup {None}] /\ activeWrites \in [Sessions -> Records \cup {None}]
  /\ clientGatts \cup pendingSessions \cup sessionTimeouts \cup overtaken
       \subseteq {s \in Sessions : opened[s] # "no"}
  /\ serverDevices \subseteq {s \in Sessions : opened[s] = "no"}
  /\ classicSockets \subseteq Sessions
  /\ negotiatedMtu \subseteq Sessions
  /\ queues \in [Sessions -> Seq(Seq(Records))]
  /\ writeQueues \in [Sessions -> Nat]
  /\ \A s \in Sessions : writeQueues[s] \in 0..Len(queues[s])
  /\ opened \in [Sessions -> {"no", "waiting", "resolved", "rejected"}]
  /\ outcome \in [Records -> {"unsent", "waiting", "resolved", "rejected"}]
  /\ written \subseteq Records
  /\ todo \in [Threads -> Seq(StepRecord)]

\* The confirmations of a session's writes, each for one record.
Of(s, W) == {w \in W : SessionOf[w] = s}

\* "Resolving means the transport wrote it" (native-bridge.ts, sendRecord): no
\* more sends of a session resolve than the link confirmed writes of it, whatever
\* the threads that send, complete, time out, close and stop do to each other's
\* tables.  (Which of its records were written is another matter: a confirmation
\* goes to whatever write is active when it is taken.)
ResolutionsAreConfirmed ==
  \A s \in Sessions :
    Cardinality({w \in Of(s, Records) : outcome[w] = "resolved"}) <= Cardinality(Of(s, written))

\* A thread that is about to settle the open of a session.
Settling(s) ==
  \E t \in Threads : \E k \in DOMAIN todo[t] :
    todo[t][k].s = s /\ todo[t][k].op \in {"schedule", "resolvePending", "rejectPending"}

\* Each openSession() returns or fails in the end: one that waits has a thread
\* about to settle it, or it is on the table of pending sessions and its
\* timeout will come; also when the neighbour never answers, and whatever its
\* set-up, the timeout, a close, a stop of the relay and the change to Classic
\* do to each other's tables.  The exception is an open that the Stop of the
\* notification runs into: the stop may cancel its timeout unseen.
OpensAreTended ==
  \A s \in Sessions \ overtaken :
    opened[s] = "waiting" =>
      \/ link[s] = "calling" \/ Settling(s)
      \/ s \in pendingSessions \cap sessionTimeouts
=============================================================================
