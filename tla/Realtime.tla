------------------------------ MODULE Realtime ------------------------------
(***************************************************************************)
(* The realtime side of the service, all on one event loop:                *)
(*                                                                         *)
(*   - a task per printer (_run_printer_connection) that opens a websocket *)
(*     to the printer's Moonraker, subscribes to its status, and waits     *)
(*     until the websocket is lost to begin again;                         *)
(*   - the listener of that websocket, which puts every status it hears of *)
(*     into the RealtimeStateStore;                                        *)
(*   - the alert watcher, which compares the store with what it saw five   *)
(*     seconds ago and writes rows of events.                              *)
(*                                                                         *)
(* The store's lock is never held across an await, so that a handler up to *)
(* its next await of the library is one step.  The websocket library is    *)
(* external; it calls state_changed when a websocket opens and when it is  *)
(* gone, and may run on_notification before the task that waits for the    *)
(* reply to its subscription is resumed.                                   *)
(***************************************************************************)
EXTENDS Integers, Sequences, PrintFarmTypes

CONSTANTS
    Printers,    \* the printers registered when the service started
    Statuses,    \* what they report, a subset of PrinterStatuses
    None,        \* no entry of the store, nothing seen
    MaxExponent, \* 2.0 ** n is finite up to here, 1023 in Python
    MaxChanges,  \* bound: changes of a printer's status
    MaxRestarts  \* bound: restarts of the service

ASSUME RealtimeAssumption ==
    /\ Statuses \subseteq PrinterStatuses
    /\ None \notin PrinterStatuses
    /\ MaxExponent \in Nat /\ MaxChanges \in Nat /\ MaxRestarts \in Nat

VARIABLES
    \* the printers: status, whether they can be reached, what they know of
    \* the service's websocket, and the status they last told it
    dev, up, session, told,
    \* PrinterWebsocketConnection: websocket open, the event, _connected_once
    ws, disconnected, connectedOnce,
    \* _run_printer_connection: control, the reply it is about to handle,
    \* consecutive_failures
    pc, reply, failures,
    \* RealtimeStateStore, last_seen_status, rows of table events
    store, lastSeen, events,
    \* counters of the bounds
    changes, restarts,
    \* for the properties: the store had another status since the last event;
    \* the last alert could not be stored; a notification overtook the reply
    left, lost, overtaken

printer == <<dev, up, changes>>
socket == <<session, told, ws, disconnected, connectedOnce>>
task == <<pc, reply, failures>>
watcher == <<lastSeen, events, lost>>
vars == <<printer, socket, task, store, watcher, restarts, left, overtaken>>

\* _ALERT_STATUSES; an event is written down as the status it stands for.
AlertStatuses == {"ERROR", "OFFLINE"}

TypeOK ==
    /\ dev \in [Printers -> Statuses] /\ up \in [Printers -> BOOLEAN]
    /\ session \in [Printers -> {"none", "open", "subscribed"}]
    /\ told \in [Printers -> Statuses \cup {None}]
    /\ ws \in [Printers -> BOOLEAN]
    /\ disconnected \in [Printers -> BOOLEAN]
    /\ connectedOnce \in [Printers -> BOOLEAN]
    /\ pc \in [Printers -> {"connect", "connecting", "subscribing", "replied",
                            "waiting", "backoff", "ended"}]
    /\ reply \in [Printers -> Statuses \cup {None}]
    /\ failures \in [Printers -> 0 .. MaxExponent + 1]
    /\ store \in [Printers -> Statuses \cup {None}]
    /\ lastSeen \in [Printers -> Statuses \cup {None}]
    /\ events \in [Printers -> Seq(AlertStatuses)]
    /\ changes \in 0 .. MaxChanges /\ restarts \in 0 .. MaxRestarts
    /\ left \in [Printers -> BOOLEAN] /\ lost \in [Printers -> BOOLEAN]
    /\ overtaken \in [Printers -> BOOLEAN]

\* What lives in the process, as it starts.
Started ==
    [session |-> [p \in Printers |-> "none"], nothing |-> [p \in Printers |-> None],
     no |-> [p \in Printers |-> FALSE], pc |-> [p \in Printers |-> "connect"],
     zero |-> [p \in Printers |-> 0]]

Init ==
    /\ dev \in [Printers -> Statuses] /\ up \in [Printers -> BOOLEAN]
    /\ session = Started.session /\ told = Started.nothing
    /\ ws = Started.no /\ disconnected = Started.no /\ connectedOnce = Started.no
    /\ pc = Started.pc /\ reply = Started.nothing /\ failures = Started.zero
    /\ store = Started.nothing /\ lastSeen = Started.nothing
    /\ events = [p \in Printers |-> <<>>]
    /\ changes = 0 /\ restarts = 0
    /\ left = Started.no /\ lost = Started.no /\ overtaken = Started.no

\* store.set
Put(p, s) ==
    /\ store' = [store EXCEPT ![p] = s]
    /\ left' = [left EXCEPT ![p] =
                    @ \/ (events[p] # <<>> /\ events[p][Len(events[p])] # s)]

-----------------------------------------------------------------------------
(* The printers and the network *)

StatusChanges(p, s) ==
    /\ changes < MaxChanges /\ s # dev[p]
    /\ dev' = [dev EXCEPT ![p] = s]
    /\ changes' = changes + 1
    /\ UNCHANGED <<up, socket, task, store, watcher, restarts, left, overtaken>>

\* The printer is off, or cannot be reached: what it knew of websockets is gone.
GoesDown(p) ==
    /\ up[p]
    /\ up' = [up EXCEPT ![p] = FALSE]
    /\ session' = [session EXCEPT ![p] = "none"]
    /\ UNCHANGED <<dev, changes, told, ws, disconnected, connectedOnce, task, store,
                   watcher, restarts, left, overtaken>>

ComesUp(p) ==
    /\ ~up[p]
    /\ up' = [up EXCEPT ![p] = TRUE]
    /\ UNCHANGED <<dev, changes, socket, task, store, watcher, restarts, left, overtaken>>

-----------------------------------------------------------------------------
(* The listener *)

\* The library finds that the websocket is gone and calls
\* state_changed(WEBSOCKET_STATE_STOPPED).
WebsocketLost(p) ==
    /\ ws[p] /\ session[p] = "none"
    /\ ws' = [ws EXCEPT ![p] = FALSE]
    /\ connectedOnce' = [connectedOnce EXCEPT ![p] = FALSE]
    /\ disconnected' = [disconnected EXCEPT ![p] = @ \/ connectedOnce[p]]
    /\ UNCHANGED <<printer, session, told, task, store, watcher, restarts, left, overtaken>>

\* on_notification: a subscribed printer tells what has changed since it last
\* told anything.
Notify(p) ==
    /\ ws[p] /\ session[p] = "subscribed" /\ told[p] # dev[p]
    /\ told' = [told EXCEPT ![p] = dev[p]]
    /\ Put(p, dev[p])
    /\ overtaken' = [overtaken EXCEPT ![p] = pc[p] = "replied"]
    /\ UNCHANGED <<printer, session, ws, disconnected, connectedOnce, task,
                   watcher, restarts>>

-----------------------------------------------------------------------------
(* _run_printer_connection *)

\* connect() begins by clearing the event.
Connect(p) ==
    /\ pc[p] = "connect"
    /\ disconnected' = [disconnected EXCEPT ![p] = FALSE]
    /\ pc' = [pc EXCEPT ![p] = "connecting"]
    /\ UNCHANGED <<printer, session, told, ws, connectedOnce, reply, failures,
                   store, watcher, restarts, left, overtaken>>

\* ... state_changed(WEBSOCKET_STATE_CONNECTED), and the subscription is sent ...
ConnectSucceeds(p) ==
    /\ pc[p] = "connecting" /\ up[p]
    /\ ws' = [ws EXCEPT ![p] = TRUE]
    /\ session' = [session EXCEPT ![p] = "open"]
    /\ connectedOnce' = [connectedOnce EXCEPT ![p] = TRUE]
    /\ pc' = [pc EXCEPT ![p] = "subscribing"]
    /\ UNCHANGED <<printer, told, disconnected, reply, failures, store, watcher,
                   restarts, left, overtaken>>

\* ... the reply arrives ...
SubscribeReplied(p) ==
    /\ pc[p] = "subscribing" /\ ws[p] /\ session[p] = "open"
    /\ session' = [session EXCEPT ![p] = "subscribed"]
    /\ reply' = [reply EXCEPT ![p] = dev[p]]
    /\ told' = [told EXCEPT ![p] = dev[p]]
    /\ overtaken' = [overtaken EXCEPT ![p] = FALSE]
    /\ pc' = [pc EXCEPT ![p] = "replied"]
    /\ UNCHANGED <<printer, ws, disconnected, connectedOnce, failures, store, watcher,
                   restarts, left>>

\* Mutant of Resume: the event is cleared when the connection is ready.
ResumeClears(p) ==
    /\ pc[p] = "replied"
    /\ Put(p, reply[p])
    /\ reply' = [reply EXCEPT ![p] = None]
    /\ failures' = [failures EXCEPT ![p] = 0]
    /\ pc' = [pc EXCEPT ![p] = "waiting"]
    /\ disconnected' = [disconnected EXCEPT ![p] = FALSE]
    /\ UNCHANGED <<printer, session, told, ws, connectedOnce, watcher, restarts, overtaken>>

\* Mutant of Resume: the status in the reply is not used.
ResumeWithoutSnapshot(p) ==
    /\ pc[p] = "replied"
    /\ reply' = [reply EXCEPT ![p] = None]
    /\ failures' = [failures EXCEPT ![p] = 0]
    /\ pc' = [pc EXCEPT ![p] = "waiting"]
    /\ UNCHANGED <<printer, socket, store, watcher, restarts, left, overtaken>>

\* ... and is stored; the task waits for the event.
Resume(p) ==
    /\ pc[p] = "replied"
    /\ Put(p, reply[p])
    /\ reply' = [reply EXCEPT ![p] = None]
    /\ failures' = [failures EXCEPT ![p] = 0]
    /\ pc' = [pc EXCEPT ![p] = "waiting"]
    /\ UNCHANGED <<printer, socket, watcher, restarts, overtaken>>

\* Mutant of ConnectFails: the time to wait never overflows.
ConnectFailsForEver(p) ==
    /\ pc[p] \in {"connecting", "subscribing", "replied"}
    /\ failures' = [failures EXCEPT ![p] = @ + 1]
    /\ reply' = [reply EXCEPT ![p] = None]
    /\ pc' = [pc EXCEPT ![p] = "backoff"]
    /\ UNCHANGED <<printer, socket, store, watcher, restarts, left, overtaken>>

\* connect() returns False or raises, before or after the websocket is open, or
\* when the reply is late: back off, while notifications may come in.  The time to
\* wait is 2.0 ** consecutive_failures, capped later; when it overflows the
\* exception ends the task, which closes its websocket.
ConnectFails(p) ==
    /\ pc[p] \in {"connecting", "subscribing", "replied"}
    /\ failures' = [failures EXCEPT ![p] = @ + 1]
    /\ reply' = [reply EXCEPT ![p] = None]
    /\ \/ /\ failures[p] < MaxExponent
          /\ pc' = [pc EXCEPT ![p] = "backoff"]
          /\ UNCHANGED <<session, ws, connectedOnce, disconnected>>
       \/ /\ failures[p] = MaxExponent
          /\ pc' = [pc EXCEPT ![p] = "ended"]
          /\ session' = [session EXCEPT ![p] = "none"]
          /\ ws' = [ws EXCEPT ![p] = FALSE]
          /\ connectedOnce' = [connectedOnce EXCEPT ![p] = FALSE]
          /\ disconnected' = [disconnected EXCEPT ![p] = @ \/ connectedOnce[p]]
    /\ UNCHANGED <<printer, told, store, watcher, restarts, left, overtaken>>

\* The back-off is over, or disconnected.wait() returns: connect again, in the
\* second case at once.
ConnectAgain(p) ==
    /\ pc[p] = "backoff" \/ (pc[p] = "waiting" /\ disconnected[p])
    /\ pc' = [pc EXCEPT ![p] = "connect"]
    /\ UNCHANGED <<printer, socket, reply, failures, store, watcher, restarts,
                   left, overtaken>>

TaskStep(p) == Connect(p) \/ Resume(p) \/ ConnectFails(p) \/ ConnectAgain(p)

-----------------------------------------------------------------------------
(* The alert watcher *)

\* Mutant of Alerting: from one alert status to the other is no change.
AlertingFromNormal ==
    {p \in Printers : store[p] \in AlertStatuses /\ lastSeen[p] \notin AlertStatuses}

Alerting == {p \in Printers : store[p] \in AlertStatuses /\ store[p] # lastSeen[p]}

\* Mutant of Seen: an alert status is not remembered.
SeenNormal ==
    [p \in Printers |->
        IF store[p] = None \/ store[p] \in AlertStatuses THEN lastSeen[p] ELSE store[p]]

Seen == [p \in Printers |-> IF store[p] = None THEN lastSeen[p] ELSE store[p]]

\* _run_alert_watch_cycle: there is nothing to wait for in it, so it is one step.
\* record_printer_alert_event may fail to store an event; the status counts as seen
\* all the same.
AlertWatch ==
    \E stored \in SUBSET Alerting :
        /\ events' = [p \in Printers |->
                        IF p \in stored THEN Append(events[p], store[p]) ELSE events[p]]
        /\ lost' = [p \in Printers |-> IF p \in Alerting THEN p \notin stored ELSE lost[p]]
        /\ left' = [p \in Printers |-> left[p] /\ p \notin stored]
        /\ lastSeen' = Seen
        /\ UNCHANGED <<printer, socket, task, store, restarts, overtaken>>

-----------------------------------------------------------------------------
\* The service starts again: only the rows of events are left.
Restart ==
    /\ restarts < MaxRestarts
    /\ restarts' = restarts + 1
    /\ session' = Started.session /\ told' = Started.nothing
    /\ ws' = Started.no /\ disconnected' = Started.no /\ connectedOnce' = Started.no
    /\ pc' = Started.pc /\ reply' = Started.nothing /\ failures' = Started.zero
    /\ store' = Started.nothing /\ lastSeen' = Started.nothing
    /\ left' = [p \in Printers |-> TRUE]
    /\ overtaken' = Started.no
    /\ UNCHANGED <<printer, events, lost>>

Next ==
    \/ \E p \in Printers :
        \/ \E s \in Statuses : StatusChanges(p, s)
        \/ GoesDown(p) \/ ComesUp(p)
        \/ WebsocketLost(p) \/ Notify(p)
        \/ ConnectSucceeds(p) \/ SubscribeReplied(p) \/ TaskStep(p)
    \/ AlertWatch
    \/ Restart

Spec == Init /\ [][Next]_vars

\* The event loop runs every task that can run, the watcher wakes up every five
\* seconds, a printer that is tried again and again can be connected to at some
\* time, what it sends arrives, and a dead websocket is noticed.
FairSpec ==
    /\ Spec
    /\ WF_vars(AlertWatch)
    /\ \A p \in Printers :
        /\ WF_vars(TaskStep(p)) /\ WF_vars(Notify(p)) /\ WF_vars(WebsocketLost(p))
        /\ SF_vars(ConnectSucceeds(p)) /\ SF_vars(SubscribeReplied(p))

-----------------------------------------------------------------------------
(* Properties *)

\* A task that waits for the loss of its websocket will hear of it: the
\* websocket is still open and its loss will set the event, or the event is set,
\* even if the websocket was lost while the subscription was on its way.
NoLostWakeup ==
    \A p \in Printers : pc[p] = "waiting" => ws[p] \/ disconnected[p]

\* The inductive strengthening: once a websocket is open, its loss counts
\* (_connected_once), and no step on the way to waiting clears the event.
IInv ==
    /\ TypeOK
    /\ \A p \in Printers : ws[p] => connectedOnce[p]
    /\ \A p \in Printers :
        pc[p] \in {"subscribing", "replied", "waiting"} => ws[p] \/ disconnected[p]

\* Two rows of events in a row for a printer are of different kinds, unless the
\* store had another status between them or the watcher had forgotten the first
\* (the service was restarted).
EachAlertIsNews ==
    [][\A p \in Printers :
        (/\ Len(events'[p]) = Len(events[p]) + 1 /\ events[p] # <<>>
         /\ events'[p][Len(events'[p])] = events[p][Len(events[p])])
        => left[p]]_vars

\* The store comes to show the status of a printer that stays reachable, after
\* any losses of its websocket, but for two cases: its task was ended by an
\* overflow, or the reply of its last subscription was overtaken by a
\* notification and has overwritten it.
ReachableIsShown ==
    \A p \in Printers :
        []<>(~up[p] \/ pc[p] = "ended" \/ overtaken[p] \/ store[p] = dev[p])

\* A status ERROR or OFFLINE that stays in the store gets to be the last of the
\* printer's events, unless the row could not be stored.
AlertIsRecorded ==
    \A p \in Printers :
        []<>(\/ store[p] \notin AlertStatuses \/ lost[p]
             \/ (events[p] # <<>> /\ events[p][Len(events[p])] = store[p]))
=============================================================================
