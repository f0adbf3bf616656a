--------------------------- MODULE PrinterRowProofs ---------------------------
(***************************************************************************)
(* Proofs about PrinterRow: its inductive invariant and the fate of locks, *)
(* for any number of printers and request handlers.                        *)
(***************************************************************************)
EXTENDS PrinterRow, TLAPS

\* Statuses that polls report are statuses of the schema.
LEMMA MovesAreStatuses ==
    \A m \in DeviceMoves : m[1] \in PrinterStatuses /\ m[2] \in PrinterStatuses
BY ConstantsAssumption DEF DeviceMoves

LEMMA RowOfType ==
    ASSUME TypeOK, NEW p \in Printers PROVE RowOf(p) \in Row
BY ConstantsAssumption DEF TypeOK, RowOf, Row

\* HeldAfter answers TRUE or FALSE.
LEMMA HeldAfterType ==
    ASSUME NEW row \in Row, NEW seen, NEW f \in BOOLEAN, seen.file = f
    PROVE  HeldAfter(row, seen) \in BOOLEAN
BY DEF HeldAfter

LEMMA InitIInv == Init => IInv
BY ConstantsAssumption
   DEF Init, IInv, TypeOK, LockWasRead, FailuresAsRead, RowOf, Row, NoRow,
       NothingSeen, IdleClient, Working, Handler, Unreachable, PrinterStatuses

-----------------------------------------------------------------------------
\* The heartbeat preserves the invariant: it drops a row from its list in the
\* step that writes it, and reads all others anew.
LEMMA HeartbeatKeepsIInv == IInv /\ HeartbeatStep => IInv'
<1> SUFFICES ASSUME IInv, HeartbeatStep PROVE IInv'
  OBVIOUS
<1> USE DEF IInv
<1>1. CASE BeginHeartbeat
  <2>1. TypeOK'
    <3>1. hbRead' \in [Printers -> Row]
      BY <1>1, RowOfType DEF BeginHeartbeat, NoRow, Row, PrinterStatuses
    <3> QED  BY <1>1, <3>1 DEF BeginHeartbeat, TypeOK, rows, printer
  <2>2. LockWasRead' /\ FailuresAsRead'
    BY <1>1 DEF BeginHeartbeat, TypeOK, LockWasRead, FailuresAsRead, RowOf, rows
  <2> QED  BY <2>1, <2>2
<1>2. ASSUME NEW p \in Printers, HeartbeatPoll(p) PROVE IInv'
  <2>1. hbSeen' \in [status : PrinterStatuses \cup {Unreachable}, file : BOOLEAN]
    <3>1. CASE hbSeen' = NothingSeen
      BY <3>1 DEF NothingSeen
    <3>2. ASSUME NEW file \in (IF dev[p] = "PRINTING" THEN BOOLEAN ELSE {FALSE}),
                 hbSeen' = [status |-> dev[p], file |-> file]
          PROVE  hbSeen' \in [status : PrinterStatuses \cup {Unreachable}, file : BOOLEAN]
      <4>1. file \in BOOLEAN
        BY <3>2
      <4>2. dev[p] \in PrinterStatuses
        BY DEF TypeOK
      <4> QED  BY <3>2, <4>1, <4>2
    <3> QED  BY <1>2, <3>1, <3>2 DEF HeartbeatPoll
  <2> QED  BY <1>2, <2>1 DEF HeartbeatPoll, TypeOK, LockWasRead, FailuresAsRead, rows,
                             printer
<1>3. ASSUME NEW p \in Printers, HeartbeatPollAborts(p) PROVE IInv'
  BY <1>3 DEF HeartbeatPollAborts, TypeOK, LockWasRead, FailuresAsRead, rows, printer,
              NothingSeen, Unreachable, NoRow, Row, PrinterStatuses
<1>4. ASSUME NEW p \in Printers, HeartbeatWrite(p) PROVE IInv'
  <2>1. p \in hbTodo /\ hbRead[p] \in Row
    BY <1>4 DEF HeartbeatWrite, Current, TypeOK
  <2>2. status' \in [Printers -> PrinterStatuses]
    BY <1>4 DEF HeartbeatWrite, TypeOK, PrinterStatuses
  <2>3. failures' \in [Printers -> 0 .. MaxExponent]
    BY <1>4, <2>1, ConstantsAssumption DEF HeartbeatWrite, TypeOK, Row
  <2>4. held' \in [Printers -> BOOLEAN]
    BY <1>4, <2>1, HeldAfterType DEF HeartbeatWrite, TypeOK, Row
  <2>5. hbRead' \in [Printers -> Row] /\ hbSeen' = NothingSeen
    BY <1>4 DEF HeartbeatWrite, TypeOK, NoRow, Row, PrinterStatuses
  <2>6. /\ due' \subseteq Printers /\ hbTodo' \subseteq Printers
        /\ seenActive' \subseteq Printers
        /\ hbPc' \in {"idle", "poll", "write"}
    BY <1>4 DEF HeartbeatWrite, TypeOK
  <2>7. TypeOK'
    BY <1>4, <2>2, <2>3, <2>4, <2>5, <2>6
    DEF HeartbeatWrite, TypeOK, printer, NothingSeen, Unreachable
  <2>8. \A q \in hbTodo' : /\ q # p /\ q \in hbTodo /\ held'[q] = held[q]
                           /\ failures'[q] = failures[q] /\ hbRead'[q] = hbRead[q]
    BY <1>4 DEF HeartbeatWrite, TypeOK
  <2>9. LockWasRead' /\ FailuresAsRead'
    BY <2>8 DEF LockWasRead, FailuresAsRead
  <2> QED  BY <2>7, <2>9
<1>5. ASSUME NEW p \in Printers, HeartbeatOverflow(p) PROVE IInv'
  BY <1>5 DEF HeartbeatOverflow, TypeOK, LockWasRead, FailuresAsRead, rows, printer,
              NothingSeen, Unreachable, NoRow, Row, PrinterStatuses
<1> QED  BY <1>1, <1>2, <1>3, <1>4, <1>5 DEF HeartbeatStep

\* Request handlers preserve it: they lock no printer and count no failures.
LEMMA ClientKeepsIInv ==
    ASSUME IInv, NEW c \in Clients, ClientStep(c) PROVE IInv'
<1> USE DEF IInv
<1>1. ASSUME NEW p \in Printers, NEW request \in Requests, SendCommand(c, p, request)
      PROVE  IInv'
  <2>1. dev' \in [Printers -> PrinterStatuses]
    <3>1. \A m \in CommandMoves(request) : m[2] \in PrinterStatuses
      BY MovesAreStatuses DEF CommandMoves
    <3> QED  BY <1>1, <3>1 DEF SendCommand, TypeOK
  <2>2. client' \in [Clients -> Handler]
    BY <1>1 DEF SendCommand, TypeOK, Handler, Working, PrinterStatuses
  <2> QED  BY <1>1, <2>1, <2>2 DEF SendCommand, TypeOK, LockWasRead, FailuresAsRead,
                                  rows, heartbeat
<1>2. ASSUME NEW p \in Printers, ListNext(c, p) PROVE IInv'
  <2>1. client' \in [Clients -> Handler]
    BY <1>2 DEF ListNext, TypeOK, Handler, Working, PrinterStatuses
  <2> QED  BY <1>2, <2>1 DEF ListNext, TypeOK, LockWasRead, FailuresAsRead, rows,
                             printer, heartbeat
<1>3. ASSUME NEW p \in Printers, ConfirmRead(c, p) PROVE IInv'
  <2>1. client' \in [Clients -> Handler]
    BY <1>3 DEF ConfirmRead, TypeOK, Handler, Working, PrinterStatuses
  <2> QED  BY <1>3, <2>1 DEF ConfirmRead, TypeOK, LockWasRead, FailuresAsRead, rows,
                             printer, heartbeat
<1>4. CASE ClientPoll(c)
  <2>1. PICK seen \in PrinterStatuses :
            client' = [client EXCEPT ![c] =
                        Working("write", client[c].printer, client[c].tolerant, seen)]
    BY <1>4 DEF ClientPoll
  <2>2. client' \in [Clients -> Handler]
    BY <2>1 DEF TypeOK, Handler, Working
  <2> QED  BY <1>4, <2>2 DEF ClientPoll, TypeOK, LockWasRead, FailuresAsRead, rows,
                             printer, heartbeat
<1>5. CASE ClientPollFails(c)
  BY <1>5 DEF ClientPollFails, IdleClient, Working, Handler, TypeOK, LockWasRead, FailuresAsRead, rows,
              printer, heartbeat, PrinterStatuses
<1>6. CASE ClientWrite(c)
  BY <1>6 DEF ClientWrite, IdleClient, Working, Handler, TypeOK, LockWasRead, FailuresAsRead,
              printer, heartbeat, PrinterStatuses
<1>7. CASE ConfirmWrite(c)
  BY <1>7 DEF ConfirmWrite, IdleClient, Working, Handler, TypeOK, LockWasRead, FailuresAsRead,
              printer, heartbeat, PrinterStatuses
<1> QED  BY <1>1, <1>2, <1>3, <1>4, <1>5, <1>6, <1>7 DEF ClientStep

LEMMA NextKeepsIInv == IInv /\ [Next]_vars => IInv'
<1> SUFFICES ASSUME IInv, [Next]_vars PROVE IInv'
  OBVIOUS
<1> USE DEF IInv
<1>1. ASSUME NEW p \in Printers, DeviceChanges(p) PROVE IInv'
  <2>1. dev' \in [Printers -> PrinterStatuses]
    BY <1>1, MovesAreStatuses DEF DeviceChanges, TypeOK
  <2> QED  BY <1>1, <2>1 DEF DeviceChanges, TypeOK, LockWasRead, FailuresAsRead, rows,
                             heartbeat
<1>2. ASSUME NEW p \in Printers, LinkChanges(p) PROVE IInv'
  BY <1>2 DEF LinkChanges, TypeOK, LockWasRead, FailuresAsRead, rows, heartbeat
<1>3. ASSUME NEW p \in Printers, TimePasses(p) PROVE IInv'
  BY <1>3 DEF TimePasses, TypeOK, LockWasRead, FailuresAsRead, printer, heartbeat
<1>4. CASE Restart
  BY <1>4 DEF Restart, TypeOK, LockWasRead, FailuresAsRead, rows, printer, NothingSeen,
              Unreachable, NoRow, Row, IdleClient, Working, Handler, PrinterStatuses
<1>5. CASE UNCHANGED vars
  BY <1>5 DEF vars, rows, printer, heartbeat, TypeOK, LockWasRead, FailuresAsRead
<1> QED  BY <1>1, <1>2, <1>3, <1>4, <1>5, HeartbeatKeepsIInv, ClientKeepsIInv DEF Next

\* What the heartbeat has read of a row - its lock and its failures - stays
\* true until it writes that row, for all schedules of all other threads.
THEOREM RowInvariant == Spec => []IInv
<1>1. Init => IInv
  BY InitIInv
<1>2. IInv /\ [Next]_vars => IInv'
  BY NextKeepsIInv
<1> QED  BY <1>1, <1>2, PTL DEF Spec

-----------------------------------------------------------------------------
\* The action of HoldIsNeverLost.
LEMMA StepKeepsHolds ==
    ASSUME IInv, [Next]_vars, NEW p \in Printers, held[p], ~held'[p]
    PROVE  \/ \E c \in Clients :
                client[c].pc = "confirm" /\ client[c].printer = p
                    /\ client'[c].pc = "idle"
           \/ hbPc = "write" /\ hbSeen = [status |-> "PRINTING", file |-> TRUE]
<1> USE DEF IInv
<1>1. held' # held
  OBVIOUS
<1>2. ASSUME NEW q \in Printers, HeartbeatWrite(q)
      PROVE  hbPc = "write" /\ hbSeen = [status |-> "PRINTING", file |-> TRUE]
  <2>1. p = q
    BY <1>2 DEF HeartbeatWrite, TypeOK
  <2>2. hbRead[p].held
    BY <1>2, <2>1 DEF HeartbeatWrite, Current, LockWasRead
  <2>3. hbSeen.status # Unreachable /\ ~HeldAfter(hbRead[p], hbSeen)
    BY <1>2, <2>1, <2>2 DEF HeartbeatWrite, TypeOK
  <2>4. hbSeen.status = "PRINTING" /\ hbSeen.file
    BY <2>2, <2>3 DEF HeldAfter
  <2>5. hbSeen = [status |-> "PRINTING", file |-> TRUE]
    BY <2>4 DEF TypeOK
  <2> QED  BY <1>2, <2>5 DEF HeartbeatWrite
<1>3. ASSUME NEW c \in Clients, ConfirmWrite(c)
      PROVE  /\ client[c].pc = "confirm" /\ client[c].printer = p
             /\ client'[c].pc = "idle"
  BY <1>3 DEF ConfirmWrite, TypeOK, Handler, IdleClient, Working
<1>4. \/ \E q \in Printers : HeartbeatWrite(q)
      \/ \E c \in Clients : ConfirmWrite(c)
  BY <1>1 DEF Next, HeartbeatStep, BeginHeartbeat, HeartbeatPoll, HeartbeatPollAborts,
     HeartbeatOverflow, Restart, ClientStep, SendCommand, ListNext, ConfirmRead,
     ClientPoll, ClientPollFails, ClientWrite, DeviceChanges, LinkChanges, TimePasses,
     vars, rows
<1> QED  BY <1>2, <1>3, <1>4

\* No outage, restart, command or stale write back unlocks a printer: only an
\* operator's confirmation or a heartbeat that finds it printing a file.
THEOREM HoldsAreKept == Spec => HoldIsNeverLost
<1>1. IInv /\ [Next]_vars =>
        [\A p \in Printers :
            (held[p] /\ ~held'[p])
            => \/ \E c \in Clients :
                    client[c].pc = "confirm" /\ client[c].printer = p
                        /\ client'[c].pc = "idle"
               \/ hbPc = "write" /\ hbSeen = [status |-> "PRINTING", file |-> TRUE]]_vars
  BY StepKeepsHolds
<1> QED  BY <1>1, RowInvariant, PTL DEF Spec, HoldIsNeverLost
=============================================================================
