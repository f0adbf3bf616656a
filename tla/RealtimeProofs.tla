--------------------------- MODULE RealtimeProofs ---------------------------
(***************************************************************************)
(* Proofs about Realtime: no task waits for ever for the loss of a         *)
(* websocket that is already lost, and no alert is recorded twice for      *)
(* nothing.                                                                *)
(***************************************************************************)
EXTENDS Realtime, TLAPS

\* The states the service starts in satisfy the invariant.
LEMMA InitEstablishes == Init => IInv
BY RealtimeAssumption DEF Init, IInv, TypeOK, Started

\* Every step keeps the types.
LEMMA TypesKept == ASSUME IInv, [Next]_vars PROVE TypeOK'
<1> USE RealtimeAssumption DEF IInv, TypeOK, printer, socket, task, watcher
<1>1. ASSUME NEW p \in Printers, NEW s \in Statuses, StatusChanges(p, s) PROVE TypeOK'
  BY <1>1 DEF StatusChanges
<1>2. ASSUME NEW p \in Printers, GoesDown(p) \/ ComesUp(p) PROVE TypeOK'
  <2>1. CASE GoesDown(p)
    BY <2>1 DEF GoesDown
  <2>2. CASE ComesUp(p)
    BY <2>2 DEF ComesUp
  <2> QED  BY <1>2, <2>1, <2>2
<1>3. ASSUME NEW p \in Printers, WebsocketLost(p) PROVE TypeOK'
  BY <1>3 DEF WebsocketLost
<1>4. ASSUME NEW p \in Printers, Notify(p) PROVE TypeOK'
  BY <1>4 DEF Notify, Put
<1>5. ASSUME NEW p \in Printers, Connect(p) \/ ConnectAgain(p) PROVE TypeOK'
  BY <1>5 DEF Connect, ConnectAgain
<1>6. ASSUME NEW p \in Printers, ConnectSucceeds(p) PROVE TypeOK'
  BY <1>6 DEF ConnectSucceeds
<1>7. ASSUME NEW p \in Printers, SubscribeReplied(p) PROVE TypeOK'
  BY <1>7 DEF SubscribeReplied
<1>8. ASSUME NEW p \in Printers, Resume(p) PROVE TypeOK'
  BY <1>8 DEF Resume, Put
<1>9. ASSUME NEW p \in Printers, ConnectFails(p) PROVE TypeOK'
  <2>1. /\ failures' \in [Printers -> 0 .. MaxExponent + 1]
        /\ reply' \in [Printers -> Statuses \cup {None}]
    BY <1>9 DEF ConnectFails
  <2>2. CASE UNCHANGED <<session, ws, connectedOnce, disconnected>>
             /\ pc' = [pc EXCEPT ![p] = "backoff"]
    BY <1>9, <2>1, <2>2 DEF ConnectFails
  <2>3. CASE pc' = [pc EXCEPT ![p] = "ended"]
    <3>1. /\ session' = [session EXCEPT ![p] = "none"]
          /\ ws' = [ws EXCEPT ![p] = FALSE]
          /\ connectedOnce' = [connectedOnce EXCEPT ![p] = FALSE]
          /\ disconnected' = [disconnected EXCEPT ![p] = @ \/ connectedOnce[p]]
      BY <1>9, <2>3 DEF ConnectFails
    <3> QED  BY <1>9, <2>1, <2>3, <3>1 DEF ConnectFails
  <2> QED  BY <1>9, <2>2, <2>3 DEF ConnectFails
<1>10. CASE AlertWatch
  <2>1. PICK stored \in SUBSET Alerting :
            events' = [p \in Printers |->
                        IF p \in stored THEN Append(events[p], store[p]) ELSE events[p]]
    BY <1>10 DEF AlertWatch
  <2>2. \A p \in stored : store[p] \in AlertStatuses
    BY DEF Alerting
  <2>3. events' \in [Printers -> Seq(AlertStatuses)]
    BY <2>1, <2>2
  <2>4. lastSeen' \in [Printers -> Statuses \cup {None}]
    BY <1>10 DEF AlertWatch, Seen
  <2>5. left' \in [Printers -> BOOLEAN] /\ lost' \in [Printers -> BOOLEAN]
    BY <1>10 DEF AlertWatch
  <2> QED  BY <1>10, <2>3, <2>4, <2>5 DEF AlertWatch
<1>11. CASE Restart
  BY <1>11 DEF Restart, Started
<1>12. CASE UNCHANGED vars
  BY <1>12 DEF vars
<1> QED
  BY <1>1, <1>2, <1>3, <1>4, <1>5, <1>6, <1>7, <1>8, <1>9, <1>10, <1>11, <1>12
  DEF Next, TaskStep

\* Every step keeps the invariant: the event is cleared before the websocket is
\* opened, and a websocket that was opened sets it when it is lost.
LEMMA StepPreserves == ASSUME IInv, [Next]_vars PROVE IInv'
<1>1. TypeOK'
  BY TypesKept
<1> USE DEF IInv, TypeOK, printer, socket, task, watcher
<1>2. ASSUME NEW p \in Printers, NEW s \in Statuses,
             StatusChanges(p, s) \/ GoesDown(p) \/ ComesUp(p) \/ Notify(p)
      PROVE  UNCHANGED <<pc, ws, connectedOnce, disconnected>>
  BY <1>2 DEF StatusChanges, GoesDown, ComesUp, Notify
<1>3. ASSUME UNCHANGED <<pc, ws, connectedOnce, disconnected>>
      PROVE  IInv'
  BY <1>1, <1>3
<1>4. ASSUME NEW p \in Printers, WebsocketLost(p) PROVE IInv'
  BY <1>1, <1>4 DEF WebsocketLost
<1>5. ASSUME NEW p \in Printers, Connect(p) PROVE IInv'
  BY <1>1, <1>5 DEF Connect
<1>6. ASSUME NEW p \in Printers, ConnectSucceeds(p) PROVE IInv'
  BY <1>1, <1>6 DEF ConnectSucceeds
<1>7. ASSUME NEW p \in Printers, SubscribeReplied(p) PROVE IInv'
  BY <1>1, <1>7 DEF SubscribeReplied
<1>8. ASSUME NEW p \in Printers, Resume(p) PROVE IInv'
  BY <1>1, <1>8 DEF Resume
<1>9. ASSUME NEW p \in Printers, ConnectFails(p) PROVE IInv'
  <2>1. \A q \in Printers : q # p =>
            /\ pc'[q] = pc[q] /\ ws'[q] = ws[q]
            /\ connectedOnce'[q] = connectedOnce[q] /\ disconnected'[q] = disconnected[q]
    BY <1>9 DEF ConnectFails
  <2>2. pc'[p] \in {"backoff", "ended"} /\ (ws'[p] => connectedOnce'[p])
    BY <1>9 DEF ConnectFails
  <2> QED  BY <1>1, <2>1, <2>2
<1>10. ASSUME NEW p \in Printers, ConnectAgain(p) PROVE IInv'
  BY <1>1, <1>10 DEF ConnectAgain
<1>11. CASE AlertWatch
  BY <1>3, <1>11 DEF AlertWatch
<1>12. CASE Restart
  BY <1>1, <1>12 DEF Restart, Started
<1>13. CASE UNCHANGED vars
  BY <1>3, <1>13 DEF vars
<1>14. ASSUME NEW p \in Printers, GoesDown(p) \/ ComesUp(p) \/ Notify(p)
       PROVE  UNCHANGED <<pc, ws, connectedOnce, disconnected>>
  BY <1>14 DEF GoesDown, ComesUp, Notify
<1> QED
  BY <1>2, <1>3, <1>4, <1>5, <1>6, <1>7, <1>8, <1>9, <1>10, <1>11, <1>12, <1>13, <1>14
  DEF Next, TaskStep

\* The inductive invariant of Realtime holds in every reachable state.
THEOREM RealtimeInvariant == Spec => []IInv
<1>1. Init => IInv
  BY InitEstablishes
<1>2. IInv /\ [Next]_vars => IInv'
  BY StepPreserves
<1> QED  BY <1>1, <1>2, PTL DEF Spec

\* A task of the websocket pool that waits for its websocket to be lost is woken
\* up when it is, whenever that happens.
THEOREM WakeupsKept == Spec => []NoLostWakeup
<1>1. IInv => NoLostWakeup
  BY DEF IInv, NoLostWakeup
<1> QED  BY <1>1, RealtimeInvariant, PTL

-----------------------------------------------------------------------------
(* Alerts *)

\* While the store has kept the status of a printer's last event, the watcher
\* remembers that status.
AlertsAreRemembered ==
    \A p \in Printers :
        events[p] # <<>> /\ ~left[p] =>
            /\ store[p] = events[p][Len(events[p])]
            /\ lastSeen[p] = store[p]

\* A step that puts a status into the store, if any, and leaves the watcher alone.
LEMMA PutKeeps ==
    ASSUME IInv, AlertsAreRemembered, UNCHANGED watcher,
           UNCHANGED <<store, left>> \/ \E p \in Printers : \E s : Put(p, s)
    PROVE  AlertsAreRemembered'
<1> USE DEF IInv, TypeOK, AlertsAreRemembered, watcher
<1>1. ASSUME NEW p \in Printers, NEW s, Put(p, s) PROVE AlertsAreRemembered'
  <2> SUFFICES ASSUME NEW q \in Printers, events[q] # <<>>, ~left'[q]
               PROVE  store'[q] = events[q][Len(events[q])] /\ lastSeen[q] = store'[q]
    OBVIOUS
  <2>1. CASE q = p
    <3>1. ~left[q] /\ s = events[q][Len(events[q])] /\ store'[q] = s
      BY <1>1, <2>1 DEF Put
    <3> QED  BY <3>1
  <2>2. CASE q # p
    <3>1. left'[q] = left[q] /\ store'[q] = store[q]
      BY <1>1, <2>2 DEF Put
    <3> QED  BY <3>1
  <2> QED  BY <2>1, <2>2
<1> QED  BY <1>1

\* What one watch cycle does about one printer.
LEMMA WatchedPrinter ==
    ASSUME IInv, AlertWatch, NEW p \in Printers
    PROVE  \/ /\ store[p] \in AlertStatuses /\ store[p] # lastSeen[p]
              /\ events'[p] = Append(events[p], store[p])
              /\ ~left'[p] /\ lastSeen'[p] = store[p]
           \/ /\ events'[p] = events[p] /\ left'[p] = left[p]
              /\ lastSeen'[p] = IF store[p] = None THEN lastSeen[p] ELSE store[p]
<1>1. PICK stored \in SUBSET Alerting :
        /\ events' = [q \in Printers |->
                        IF q \in stored THEN Append(events[q], store[q]) ELSE events[q]]
        /\ left' = [q \in Printers |-> left[q] /\ q \notin stored]
        /\ lastSeen' = Seen
  BY DEF AlertWatch
<1>2. lastSeen'[p] = IF store[p] = None THEN lastSeen[p] ELSE store[p]
  BY <1>1 DEF Seen
<1>3. CASE p \in stored
  <2>1. store[p] \in AlertStatuses /\ store[p] # lastSeen[p]
    BY <1>3 DEF Alerting
  <2>2. store[p] # None
    BY <2>1, RealtimeAssumption DEF AlertStatuses, PrinterStatuses
  <2> QED  BY <1>1, <1>2, <1>3, <2>1, <2>2
<1>4. CASE p \notin stored
  BY <1>1, <1>2, <1>4 DEF IInv, TypeOK
<1> QED  BY <1>3, <1>4

LEMMA RememberingKept == IInv /\ AlertsAreRemembered /\ [Next]_vars => AlertsAreRemembered'
<1> SUFFICES ASSUME IInv, AlertsAreRemembered, [Next]_vars PROVE AlertsAreRemembered'
  OBVIOUS
<1>1. CASE AlertWatch
  <2> SUFFICES ASSUME NEW p \in Printers, events'[p] # <<>>, ~left'[p]
               PROVE  /\ store'[p] = events'[p][Len(events'[p])]
                      /\ lastSeen'[p] = store'[p]
    BY DEF AlertsAreRemembered
  <2>1. store' = store /\ events[p] \in Seq(AlertStatuses)
    BY <1>1 DEF AlertWatch, IInv, TypeOK
  <2>2. CASE /\ store[p] \in AlertStatuses
             /\ events'[p] = Append(events[p], store[p])
             /\ lastSeen'[p] = store[p]
    <3>1. events'[p][Len(events'[p])] = store[p]
      BY <2>1, <2>2
    <3> QED  BY <2>1, <2>2, <3>1
  <2>3. CASE /\ events'[p] = events[p] /\ left'[p] = left[p]
             /\ lastSeen'[p] = IF store[p] = None THEN lastSeen[p] ELSE store[p]
    BY <2>1, <2>3 DEF AlertsAreRemembered
  <2> QED  BY <1>1, <2>2, <2>3, WatchedPrinter
<1>2. CASE Restart
  BY <1>2 DEF Restart, AlertsAreRemembered
<1>3. CASE ~AlertWatch /\ ~Restart
  <2>1. /\ UNCHANGED watcher
        /\ UNCHANGED <<store, left>> \/ \E p \in Printers : \E s : Put(p, s)
    BY <1>3 DEF Next, vars, watcher, TaskStep, StatusChanges, GoesDown, ComesUp, WebsocketLost,
       Notify, ConnectSucceeds, SubscribeReplied, Connect, Resume, ConnectFails, ConnectAgain
  <2> QED  BY <2>1, PutKeeps
<1> QED  BY <1>1, <1>2, <1>3

\* An alert that is recorded again has been left in between, or was forgotten by
\* a restart.
THEOREM AlertsAreNews == Spec => EachAlertIsNews
<1>1. Init => AlertsAreRemembered
  BY DEF Init, AlertsAreRemembered
<1>2. IInv /\ AlertsAreRemembered /\ [Next]_vars =>
        [\A p \in Printers :
            (/\ Len(events'[p]) = Len(events[p]) + 1 /\ events[p] # <<>>
             /\ events'[p][Len(events'[p])] = events[p][Len(events[p])])
            => left[p]]_vars
  <2> SUFFICES ASSUME IInv, AlertsAreRemembered, Next, NEW p \in Printers,
                      Len(events'[p]) = Len(events[p]) + 1, events[p] # <<>>,
                      events'[p][Len(events'[p])] = events[p][Len(events[p])]
               PROVE  left[p]
    BY DEF vars
  <2>0. events[p] \in Seq(AlertStatuses) /\ Len(events[p]) \in Nat
    BY DEF IInv, TypeOK
  <2>1. CASE AlertWatch
    <3>1. CASE /\ store[p] # lastSeen[p]
               /\ events'[p] = Append(events[p], store[p])
      <4>1. events'[p][Len(events'[p])] = store[p]
        BY <2>0, <3>1
      <4> QED  BY <3>1, <4>1 DEF AlertsAreRemembered
    <3>2. CASE events'[p] = events[p]
      BY <2>0, <3>2
    <3> QED  BY <2>1, <3>1, <3>2, WatchedPrinter
  <2>2. CASE ~AlertWatch
    <3>1. events' = events
      BY <2>2 DEF Next, watcher, TaskStep, StatusChanges, GoesDown, ComesUp, WebsocketLost,
         Notify, ConnectSucceeds, SubscribeReplied, Connect, Resume, ConnectFails,
         ConnectAgain, Restart
    <3> QED  BY <2>0, <3>1
  <2> QED  BY <2>1, <2>2
<1> QED
  BY <1>1, <1>2, RememberingKept, RealtimeInvariant, PTL DEF Spec, EachAlertIsNews
=============================================================================
