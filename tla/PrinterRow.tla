----------------------------- MODULE PrinterRow -----------------------------
(***************************************************************************)
(* The mutable part of the rows of table printers: status, is_held and the *)
(* heartbeat's failure counter, and the threads that write them:           *)
(*                                                                         *)
(*   - run_heartbeat_cycle reads the due rows, polls their printers one    *)
(*     after the other and writes each row back;                           *)
(*   - list_printers polls every printer and writes its status;            *)
(*   - the print and power commands act on a printer, poll it and write    *)
(*     its status;                                                         *)
(*   - confirm_printer releases the hold.                                  *)
(*                                                                         *)
(* One SELECT, one commit or one HTTP exchange is one step; nothing is     *)
(* locked between a read, the poll it leads to and the write that follows. *)
(***************************************************************************)
EXTENDS Integers, FiniteSets, PrintFarmTypes

CONSTANTS
    NumPrinters,   \* registered printers, ids 1 .. NumPrinters
    Clients,       \* threads that serve requests
    Requests,      \* the requests they serve, a subset of AllRequests
    Answers,       \* how a printer may answer, a subset of AllAnswers
    DeviceStatuses,   \* the statuses that printers take
    MaxRestarts,   \* bound: restarts of the service
    MaxExponent    \* largest n for which 2.0 ** n is finite: 1023 in the code

Printers == 1 .. NumPrinters

PrintCommands == {"start", "pause", "resume", "cancel", "emergency_stop"}
PowerCommands == {"power_on", "power_off"}
AllRequests == PrintCommands \cup PowerCommands \cup {"list", "confirm"}

\* "up": as expected; "down": no answer or an HTTP error, which the client
\* turns into MoonrakerClientError; "odd": a 200 whose body is not the
\* expected JSON, which it does not.
AllAnswers == {"up", "down", "odd"}

ASSUME ConstantsAssumption ==
    /\ NumPrinters \in Nat
    /\ Requests \subseteq AllRequests
    /\ Answers \subseteq AllAnswers /\ "up" \in Answers
    /\ DeviceStatuses \subseteq PrinterStatuses
    /\ MaxRestarts \in Nat /\ MaxExponent \in Nat

VARIABLES
    \* table printers
    status, held, failures,
    due,       \* printers whose next_heartbeat_at has passed
    \* the printers: what a poll finds, and how they answer
    dev, link,
    \* run_heartbeat_cycle: control, rows still to do, rows as read, last poll
    hbPc, hbTodo, hbRead, hbSeen,
    \* request handlers: control, printer, whether an unreachable printer is
    \* taken for OFFLINE, status to write
    client,
    \* printers that the last heartbeat found with a print in progress
    seenActive,
    \* restarts of the service so far
    restarts

rows      == <<status, held, failures, due>>
printer   == <<dev, link>>
heartbeat == <<hbPc, hbTodo, hbRead, hbSeen, seenActive>>
vars == <<rows, printer, heartbeat, client, restarts>>

Unreachable == "unreachable"    \* canonical_status = None
NothingSeen == [status |-> Unreachable, file |-> FALSE]
Row == [status : PrinterStatuses, held : BOOLEAN, failures : Nat]
NoRow == [status |-> "UNKNOWN", held |-> FALSE, failures |-> 0]
Handler == [pc : {"idle", "poll", "write", "confirm"}, printer : Printers \cup {0},
            tolerant : BOOLEAN, seen : PrinterStatuses]
Working(pc, p, tolerant, seen) ==
    [pc |-> pc, printer |-> p, tolerant |-> tolerant, seen |-> seen]
IdleClient == Working("idle", 0, FALSE, "UNKNOWN")

TypeOK ==
    /\ status \in [Printers -> PrinterStatuses]
    /\ held \in [Printers -> BOOLEAN]
    /\ failures \in [Printers -> 0 .. MaxExponent]
    /\ due \subseteq Printers
    /\ dev \in [Printers -> PrinterStatuses]
    /\ link \in [Printers -> Answers]
    /\ hbPc \in {"idle", "poll", "write"}
    /\ hbTodo \subseteq Printers
    /\ hbRead \in [Printers -> Row]
    /\ hbSeen \in [status : PrinterStatuses \cup {Unreachable}, file : BOOLEAN]
    /\ client \in [Clients -> Handler]
    /\ seenActive \subseteq Printers
    /\ restarts \in Nat

\* The row as the SELECT of the heartbeat returns it.
RowOf(p) == [status |-> status[p], held |-> held[p], failures |-> failures[p]]

Init ==
    /\ status = [p \in Printers |-> "UNKNOWN"]
    /\ held = [p \in Printers |-> FALSE]
    /\ failures = [p \in Printers |-> 0]
    /\ due = Printers
    /\ dev \in [Printers -> DeviceStatuses \cap {"IDLE", "OFFLINE"}]
    /\ link \in [Printers -> Answers]
    /\ hbPc = "idle" /\ hbTodo = {} /\ hbSeen = NothingSeen
    /\ hbRead = [p \in Printers |-> NoRow]
    /\ client = [c \in Clients |-> IdleClient]
    /\ seenActive = {}
    /\ restarts = 0

-----------------------------------------------------------------------------
(* The printers *)

\* How a printer's canonical status may change by itself: OFFLINE stands for
\* a Klipper that is not ready, and its print_stats start again at standby.
DeviceMoves ==
    (DeviceStatuses \X DeviceStatuses) \cap
    ({<<"IDLE", "PRINTING">>, <<"FINISHED", "PRINTING">>, <<"STOPPED", "PRINTING">>,
     <<"ERROR", "PRINTING">>, <<"PRINTING", "PAUSED">>, <<"PAUSED", "PRINTING">>,
     <<"PRINTING", "FINISHED">>, <<"PRINTING", "ERROR">>, <<"PAUSED", "ERROR">>,
     <<"PRINTING", "STOPPED">>, <<"PAUSED", "STOPPED">>, <<"FINISHED", "IDLE">>,
     <<"ERROR", "IDLE">>, <<"STOPPED", "IDLE">>, <<"OFFLINE", "IDLE">>}
    \cup {<<s, "OFFLINE">> : s \in PrinterStatuses \ {"OFFLINE", "UNKNOWN"}})

\* What a request changes on the printer when it is carried out.
CommandMoves(request) ==
    LET from == CASE request = "start" -> DeviceStatuses \ ActiveJobStatuses
                  [] request = "pause" -> {"PRINTING"}
                  [] request = "resume" -> {"PAUSED"}
                  [] request = "cancel" -> ActiveJobStatuses
                  [] request = "power_on" -> {"OFFLINE"}
                  [] OTHER -> DeviceStatuses
        to == CASE request \in {"start", "resume"} -> "PRINTING"
                [] request = "pause" -> "PAUSED"
                [] request = "cancel" -> "STOPPED"
                [] request = "power_on" -> "IDLE"
                [] OTHER -> "OFFLINE"
    IN {m \in DeviceMoves : m[1] \in from /\ m[2] = to}

DeviceChanges(p) ==
    /\ \E m \in DeviceMoves : m[1] = dev[p] /\ dev' = [dev EXCEPT ![p] = m[2]]
    /\ UNCHANGED <<rows, link, heartbeat, client, restarts>>

LinkChanges(p) ==
    /\ \E a \in Answers \ {link[p]} : link' = [link EXCEPT ![p] = a]
    /\ UNCHANGED <<rows, dev, heartbeat, client, restarts>>

\* next_heartbeat_at lies at most 300 s ahead, and passes.
TimePasses(p) ==
    /\ p \notin due
    /\ due' = due \cup {p}
    /\ UNCHANGED <<status, held, failures, printer, heartbeat, client, restarts>>

-----------------------------------------------------------------------------
(* run_heartbeat_cycle *)

\* Mutant of BeginHeartbeat: LIMIT 1.
BeginHeartbeatFirst ==
    /\ hbPc = "idle"
    /\ due # {}
    /\ hbPc' = "poll"
    /\ hbTodo' = {p \in due : \A q \in due : p <= q}
    /\ hbRead' = [p \in Printers |-> IF p \in hbTodo' THEN RowOf(p) ELSE NoRow]
    /\ UNCHANGED <<rows, printer, hbSeen, client, seenActive, restarts>>

\* Mutant of BeginHeartbeat: the hold is not read but taken to be unset.
BeginHeartbeatBlind ==
    /\ hbPc = "idle"
    /\ due # {}
    /\ hbPc' = "poll"
    /\ hbTodo' = due
    /\ hbRead' = [p \in Printers |->
                    IF p \in due THEN [RowOf(p) EXCEPT !.held = FALSE] ELSE NoRow]
    /\ UNCHANGED <<rows, printer, hbSeen, client, seenActive, restarts>>

\* SELECT the due rows.
BeginHeartbeat ==
    /\ hbPc = "idle"
    /\ due # {}
    /\ hbPc' = "poll"
    /\ hbTodo' = due
    /\ hbRead' = [p \in Printers |-> IF p \in due THEN RowOf(p) ELSE NoRow]
    /\ UNCHANGED <<rows, printer, hbSeen, client, seenActive, restarts>>

\* The row in hand: rows come in the order of their ids.
Current(p) == p \in hbTodo /\ \A q \in hbTodo : p <= q

\* driver.get_status().  The file name matters only of a PRINTING printer.
HeartbeatPoll(p) ==
    /\ hbPc = "poll" /\ Current(p)
    /\ \/ /\ link[p] = "up"
          /\ \E file \in (IF dev[p] = "PRINTING" THEN BOOLEAN ELSE {FALSE}) :
                hbSeen' = [status |-> dev[p], file |-> file]
       \/ link[p] = "down" /\ hbSeen' = NothingSeen
    /\ hbPc' = "write"
    /\ UNCHANGED <<rows, printer, hbTodo, hbRead, client, seenActive, restarts>>

\* An exception that is no MoonrakerClientError ends the whole cycle; the
\* scheduler logs it and the row stays as it was, due.
HeartbeatPollAborts(p) ==
    /\ hbPc = "poll" /\ Current(p)
    /\ link[p] = "odd"
    /\ hbPc' = "idle" /\ hbTodo' = {} /\ hbSeen' = NothingSeen
    /\ hbRead' = [q \in Printers |-> NoRow]
    /\ UNCHANGED <<rows, printer, client, seenActive, restarts>>

\* Mutant of HeldAfter: a hold is worked out anew at every heartbeat.
HeldAfterForgets(row, seen) ==
    /\ seen.status # row.status
    /\ seen.status \in HoldTriggerStatuses
    /\ row.status \in ActiveJobStatuses

\* compute_updated_is_held
HeldAfter(row, seen) ==
    IF row.held
    THEN ~(seen.status = "PRINTING" /\ seen.file)
    ELSE /\ seen.status # row.status
         /\ seen.status \in HoldTriggerStatuses
         /\ row.status \in ActiveJobStatuses

\* UPDATE the row from the row as it was read and the poll; COMMIT.
HeartbeatWrite(p) ==
    /\ hbPc = "write" /\ Current(p)
    /\ LET row == hbRead[p]
           new == IF hbSeen.status = Unreachable THEN "OFFLINE" ELSE hbSeen.status
       IN /\ status' = [status EXCEPT ![p] = new]
          /\ seenActive' = IF new \in ActiveJobStatuses THEN seenActive \cup {p}
                                                       ELSE seenActive \ {p}
          /\ IF hbSeen.status = Unreachable
             THEN /\ row.failures + 1 <= MaxExponent
                  /\ failures' = [failures EXCEPT ![p] = row.failures + 1]
                  /\ held' = [held EXCEPT ![p] = row.held]
             ELSE /\ failures' = [failures EXCEPT ![p] = 0]
                  /\ held' = [held EXCEPT ![p] = HeldAfter(row, hbSeen)]
    /\ due' = due \ {p}
    /\ hbTodo' = hbTodo \ {p}
    /\ hbPc' = IF hbTodo' = {} THEN "idle" ELSE "poll"
    /\ hbRead' = [hbRead EXCEPT ![p] = NoRow]
    /\ hbSeen' = NothingSeen
    /\ UNCHANGED <<printer, client, restarts>>

\* _compute_backoff_interval_seconds: 2.0 ** n raises OverflowError, which
\* ends the cycle before the row is written.
HeartbeatOverflow(p) ==
    /\ hbPc = "write" /\ Current(p)
    /\ hbSeen.status = Unreachable
    /\ hbRead[p].failures + 1 > MaxExponent
    /\ hbPc' = "idle" /\ hbTodo' = {} /\ hbSeen' = NothingSeen
    /\ hbRead' = [q \in Printers |-> NoRow]
    /\ UNCHANGED <<rows, printer, client, seenActive, restarts>>

HeartbeatStep ==
    \/ BeginHeartbeat
    \/ \E p \in Printers :
        \/ HeartbeatPoll(p) \/ HeartbeatPollAborts(p)
        \/ HeartbeatWrite(p) \/ HeartbeatOverflow(p)

-----------------------------------------------------------------------------
(* Request handlers *)

\* A command reaches its printer or not, and may have an effect; when the
\* handler gets its answer it goes on to poll, else it reports an error.
SendCommand(c, p, request) ==
    /\ client[c].pc = "idle"
    /\ request \in Requests \cap (PrintCommands \cup PowerCommands)
    /\ link[p] = "up"
    /\ \/ \E m \in CommandMoves(request) :
            m[1] = dev[p] /\ dev' = [dev EXCEPT ![p] = m[2]]
       \/ UNCHANGED dev
    /\ client' = [client EXCEPT ![c] =
                    Working("poll", p, request = "power_off", "UNKNOWN")]
    /\ UNCHANGED <<rows, link, heartbeat, restarts>>

\* GET /printers takes the printers one by one: a poll and a write each.
ListNext(c, p) ==
    /\ client[c].pc = "idle"
    /\ "list" \in Requests
    /\ client' = [client EXCEPT ![c] =
                    Working("poll", p, TRUE, "UNKNOWN")]
    /\ UNCHANGED <<rows, printer, heartbeat, restarts>>

\* The poll of the printer.  When it cannot be reached, list_printers and
\* "power off" take it for OFFLINE.
ClientPoll(c) ==
    /\ client[c].pc = "poll"
    /\ LET p == client[c].printer
       IN \E seen \in PrinterStatuses :
            /\ \/ link[p] = "up" /\ seen = dev[p]
               \/ link[p] = "down" /\ client[c].tolerant /\ seen = "OFFLINE"
            /\ client' = [client EXCEPT ![c] =
                            Working("write", p, client[c].tolerant, seen)]
    /\ UNCHANGED <<rows, printer, heartbeat, restarts>>

\* Every other failure of the poll is an error response, without a write.
ClientPollFails(c) ==
    /\ client[c].pc = "poll"
    /\ LET answer == link[client[c].printer]
       IN \/ answer = "odd"
          \/ answer = "down" /\ ~client[c].tolerant
    /\ client' = [client EXCEPT ![c] = IdleClient]
    /\ UNCHANGED <<rows, printer, heartbeat, restarts>>

\* UPDATE printers SET status; COMMIT.
ClientWrite(c) ==
    /\ client[c].pc = "write"
    /\ status' = [status EXCEPT ![client[c].printer] = client[c].seen]
    /\ client' = [client EXCEPT ![c] = IdleClient]
    /\ UNCHANGED <<held, failures, due, printer, heartbeat, restarts>>

\* confirm_printer reads the row, refuses one that is not held, ...
ConfirmRead(c, p) ==
    /\ client[c].pc = "idle"
    /\ "confirm" \in Requests
    /\ held[p]
    /\ client' = [client EXCEPT ![c] =
                    Working("confirm", p, FALSE, "UNKNOWN")]
    /\ UNCHANGED <<rows, printer, heartbeat, restarts>>

\* ... and sets is_held = 0.
ConfirmWrite(c) ==
    /\ client[c].pc = "confirm"
    /\ held' = [held EXCEPT ![client[c].printer] = FALSE]
    /\ client' = [client EXCEPT ![c] = IdleClient]
    /\ UNCHANGED <<status, failures, due, printer, heartbeat, restarts>>

ClientStep(c) ==
    \/ \E p \in Printers :
        \/ \E request \in Requests : SendCommand(c, p, request)
        \/ ListNext(c, p) \/ ConfirmRead(c, p)
    \/ ClientPoll(c) \/ ClientPollFails(c) \/ ClientWrite(c) \/ ConfirmWrite(c)

\* The service dies and systemd starts it again: its threads are gone, the
\* rows stay.
Restart ==
    /\ restarts < MaxRestarts
    /\ restarts' = restarts + 1
    /\ hbPc' = "idle" /\ hbTodo' = {} /\ hbSeen' = NothingSeen
    /\ hbRead' = [p \in Printers |-> NoRow]
    /\ client' = [c \in Clients |-> IdleClient]
    /\ UNCHANGED <<rows, printer, seenActive>>

-----------------------------------------------------------------------------
Next ==
    \/ HeartbeatStep
    \/ Restart
    \/ \E c \in Clients : ClientStep(c)
    \/ \E p \in Printers : DeviceChanges(p) \/ LinkChanges(p) \/ TimePasses(p)

Spec == Init /\ [][Next]_vars

\* The scheduler calls the heartbeat for ever, its polls end by answer or by
\* timeout, and time passes.  Nothing is assumed of printers and clients.
FairSpec ==
    /\ Spec
    /\ WF_vars(HeartbeatStep)
    /\ \A p \in Printers : WF_vars(TimePasses(p))

-----------------------------------------------------------------------------
(* Properties *)

\* Between the heartbeat's read of a row and its write of that row nobody
\* else locks the printer: a lock that is there was there when it was read.
\* So the write back never erases a lock it has not seen.
LockWasRead == \A p \in hbTodo : held[p] => hbRead[p].held

\* Nobody but the heartbeat counts failures, and it counts in finite steps.
FailuresAsRead == \A p \in hbTodo : hbRead[p].failures = failures[p]

IInv == TypeOK /\ LockWasRead /\ FailuresAsRead

\* A lock goes only by an operator's confirmation of that printer or when a
\* heartbeat finds it printing a file again - not because a poll fails, an
\* operator's request writes the row, or a later status is no end of a print.
HoldIsNeverLost ==
    [][\A p \in Printers :
        (held[p] /\ ~held'[p])
        => \/ \E c \in Clients :
                client[c].pc = "confirm" /\ client[c].printer = p
                    /\ client'[c].pc = "idle"
           \/ hbPc = "write" /\ hbSeen = [status |-> "PRINTING", file |-> TRUE]]_vars

\* The manual: after a print ends (FINISHED or ERROR) the printer is locked
\* until an operator confirms.  Here for every end the heartbeat observes,
\* that is, one whose printer it found printing or paused the time before.
ObservedEndIsLocked ==
    [][\A p \in Printers :
        (/\ hbPc = "write" /\ p \in hbTodo /\ p \notin hbTodo'
         /\ p \in seenActive
         /\ hbSeen.status \in HoldTriggerStatuses)
        => held'[p]]_vars

\* A printer that keeps a status and can be reached has that status in its
\* row in the end, if every printer can be reached in the end.
StatusConverges ==
    (\A q \in Printers : <>[](link[q] = "up"))
    => \A p \in Printers : \A s \in PrinterStatuses :
        <>[](dev[p] = s) => <>[](status[p] = s)
=============================================================================
