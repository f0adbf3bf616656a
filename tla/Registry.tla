------------------------------- MODULE Registry -------------------------------
(***************************************************************************)
(* Which printers there are: rows of table printers come by                *)
(* register_printer and go by delete_printer, while                        *)
(*                                                                         *)
(*   - request handlers and the heartbeat work from rows they read before; *)
(*   - the upload routes, auto-assign among them, choose a printer and     *)
(*     insert a job for it;                                                *)
(*   - the alert watcher stores events for the printers whose websocket    *)
(*     tasks were started with the service.                                *)
(*                                                                         *)
(* What keeps this together is in the schema: printers.ip is UNIQUE, ids   *)
(* are AUTOINCREMENT, and jobs and events refer to printers by foreign     *)
(* keys, which SQLite checks on the connections that ask for it - all of   *)
(* those here but the alert watcher's.  How a status or a lock comes about *)
(* is the subject of PrinterRow.tla; here a poll may find any status.      *)
(***************************************************************************)
EXTENDS Integers, FiniteSets, PrintFarmTypes

CONSTANTS
    Hosts,         \* addresses of printers
    NoHost,        \* not an address
    Clients,       \* threads that serve requests on printers
    Statuses,      \* what polls may find, a subset of PrinterStatuses
    Outcomes,      \* how prints may end, a subset of HistoryStatuses
    TimesLeft,     \* remaining print times the realtime store may know
    MaxPrinters,   \* bound: printers ever registered
    MaxJobs,       \* bound: jobs ever uploaded
    MaxRestarts    \* bound: restarts of the service

ASSUME RegistryAssumption ==
    /\ NoHost \notin Hosts
    /\ Statuses \subseteq PrinterStatuses /\ Outcomes \subseteq HistoryStatuses
    /\ TimesLeft \subseteq Nat
    /\ MaxPrinters \in Nat /\ MaxJobs \in Nat /\ MaxRestarts \in Nat

Ids == 1 .. MaxPrinters     \* printers.id
NoId == 0
Jobs == 1 .. MaxJobs        \* jobs.id
Unknown == -1               \* time_remaining_seconds is None

VARIABLES
    \* table printers; host is NoHost where there is no row (any more)
    host, status, held,
    lastId,     \* the largest id ever given, sqlite_sequence
    \* table jobs
    jobPrinter, jobStatus,
    \* table events; the host tells (to the properties only) which printer it was
    events,
    pool,       \* the printers with a websocket task, as read at the start
    beat,       \* run_heartbeat_cycle: the rows still to do, as read
    client,     \* request handlers
    \* the upload routes: control, idle candidates, printer, job
    upPc, idleRead, chosen, upJob,
    restarts

printers == <<host, status, held, lastId>>
jobs     == <<jobPrinter, jobStatus>>
uploader == <<upPc, idleRead, chosen, upJob>>
vars == <<printers, jobs, events, pool, beat, client, uploader, restarts>>

Copy == [id : Ids, host : Hosts]     \* what a thread keeps of a row it read
Candidate == [id : Ids, queue : Nat]

\* A handler's control, the rows it has still to do, the row it writes or has
\* written, the address it registers.
Handler == [pc : {"idle", "insert", "delete", "poll", "answer"},
            todo : SUBSET Copy, id : Ids \cup {NoId}, host : Hosts \cup {NoHost}]
Doing(pc, todo, id, address) ==
    [pc |-> pc, todo |-> todo, id |-> id, host |-> address]
Idle == Doing("idle", {}, NoId, NoHost)

TypeOK ==
    /\ host \in [Ids -> Hosts \cup {NoHost}]
    /\ status \in [Ids -> PrinterStatuses]
    /\ held \in [Ids -> BOOLEAN]
    /\ lastId \in 0 .. MaxPrinters
    /\ jobPrinter \in [Jobs -> Ids \cup {NoId}]
    /\ jobStatus \in [Jobs -> JobStates]
    /\ events \subseteq Copy /\ pool \subseteq Copy /\ beat \subseteq Copy
    /\ client \in [Clients -> Handler]
    /\ upPc \in {"idle", "printing", "select", "insert", "http"}
    /\ idleRead \subseteq Candidate
    /\ chosen \in Ids \cup {NoId}
    /\ upJob \in Jobs \cup {NoId}
    /\ restarts \in 0 .. MaxRestarts

Init ==
    /\ host = [p \in Ids |-> NoHost]
    /\ status = [p \in Ids |-> "UNKNOWN"]
    /\ held = [p \in Ids |-> FALSE]
    /\ lastId = 0
    /\ jobPrinter = [j \in Jobs |-> NoId]
    /\ jobStatus = [j \in Jobs |-> "none"]
    /\ events = {} /\ pool = {} /\ beat = {}
    /\ client = [c \in Clients |-> Idle]
    /\ upPc = "idle" /\ idleRead = {} /\ chosen = NoId /\ upJob = NoId
    /\ restarts = 0

-----------------------------------------------------------------------------
(* Queries *)

Registered == {p \in Ids : host[p] # NoHost}

CopyOf(p) == [id |-> p, host |-> host[p]]

\* SELECT COUNT(*) ... AND j.status = 'queued'
Queue(p) == {j \in Jobs : jobPrinter[j] = p /\ jobStatus[j] = "queued"}

\* What the foreign keys of jobs and events refer to.
Referenced(p) ==
    \/ \E j \in Jobs : jobPrinter[j] = p
    \/ \E e \in events : e.id = p

-----------------------------------------------------------------------------
(* register_printer *)

\* The printer at this address answers get_server_info and get_printer_info.
\* (If not, the request is refused and nothing changes.)
Probe(c, h) ==
    /\ client[c].pc = "idle"
    /\ client' = [client EXCEPT ![c] = Doing("insert", {}, NoId, h)]
    /\ UNCHANGED <<printers, jobs, events, pool, beat, uploader, restarts>>

\* Mutant of Insert: the id is no AUTOINCREMENT, the one after the largest is taken.
InsertReusingIds(c) ==
    /\ client[c].pc = "insert"
    /\ \A p \in Registered : host[p] # client[c].host
    /\ \E id \in Ids :
        /\ \A p \in Registered : p < id
        /\ id = 1 \/ id - 1 \in Registered
        /\ lastId' = id
        /\ host' = [host EXCEPT ![id] = client[c].host]
        /\ client' = [client EXCEPT ![c] = Idle]
    /\ UNCHANGED <<status, held, jobs, events, pool, beat, uploader, restarts>>

\* INSERT INTO printers; COMMIT.  The new row is UNKNOWN and not locked.
Insert(c) ==
    /\ client[c].pc = "insert"
    /\ \A p \in Registered : host[p] # client[c].host
    /\ lastId < MaxPrinters
    /\ lastId' = lastId + 1
    /\ host' = [host EXCEPT ![lastId'] = client[c].host]
    /\ client' = [client EXCEPT ![c] = Idle]
    /\ UNCHANGED <<status, held, jobs, events, pool, beat, uploader, restarts>>

\* IntegrityError: the address is registered already (409).
InsertRefused(c) ==
    /\ client[c].pc = "insert"
    /\ \E p \in Registered : host[p] = client[c].host
    /\ client' = [client EXCEPT ![c] = Idle]
    /\ UNCHANGED <<printers, jobs, events, pool, beat, uploader, restarts>>

-----------------------------------------------------------------------------
(* Requests on a row: each reads it, and writes it later by its id.  A row *)
(* that is gone by then is not written.  PATCH writes columns that take no *)
(* part here, and a SELECT that only makes a request's answer changes      *)
(* nothing: both are left out.                                             *)

\* confirm_printer.  (A printer deleted between its SELECT and its UPDATE is
\* no more confirmed than before.)
Confirm(p) ==
    /\ p \in Registered /\ held[p]
    /\ held' = [held EXCEPT ![p] = FALSE]
    /\ UNCHANGED <<host, status, lastId, jobs, events, pool, beat, client, uploader,
                   restarts>>

\* The print and power commands read one row, GET /printers reads all.
Readable == {{CopyOf(p)} : p \in Registered} \cup {{CopyOf(p) : p \in Registered}}

CommandRead(c, copies) ==
    /\ client[c].pc = "idle"
    /\ copies # {}
    /\ client' = [client EXCEPT ![c] = Doing("poll", copies, NoId, NoHost)]
    /\ UNCHANGED <<printers, jobs, events, pool, beat, uploader, restarts>>

\* The next of the rows as read, in the order of their ids.
First(copies) == {k \in copies : \A l \in copies : k.id <= l.id}

\* The printer at the address that was read is polled, UPDATE ... WHERE id = ?.
PollAndWrite(c) ==
    /\ client[c].pc = "poll"
    /\ \E k \in First(client[c].todo), s \in Statuses :
        /\ status' = IF k.id \in Registered THEN [status EXCEPT ![k.id] = s] ELSE status
        /\ client' = [client EXCEPT ![c] =
                        IF client[c].todo = {k}
                        THEN Idle
                        ELSE Doing("answer", client[c].todo \ {k}, k.id, NoHost)]
    /\ UNCHANGED <<host, held, lastId, jobs, events, pool, beat, uploader, restarts>>

\* The command or the poll fails: an error response, without a write.
PollFails(c) ==
    /\ client[c].pc = "poll"
    /\ client' = [client EXCEPT ![c] = Idle]
    /\ UNCHANGED <<printers, jobs, events, pool, beat, uploader, restarts>>

\* GET /printers, before its next row: SELECT the row as written.
\* _row_to_response(None) raises where it is gone, and the rest is not done.
Answer(c) ==
    /\ client[c].pc = "answer"
    /\ client' = [client EXCEPT ![c] =
                    IF client[c].id \in Registered
                    THEN Doing("poll", client[c].todo, NoId, NoHost)
                    ELSE Idle]
    /\ UNCHANGED <<printers, jobs, events, pool, beat, uploader, restarts>>

-----------------------------------------------------------------------------
(* delete_printer *)

\* SELECT status; refused while a print is in progress (409).
DeleteRead(c, p) ==
    /\ client[c].pc = "idle"
    /\ p \in Registered /\ status[p] \notin ActiveJobStatuses
    /\ client' = [client EXCEPT ![c] = Doing("delete", {}, p, NoHost)]
    /\ UNCHANGED <<printers, jobs, events, pool, beat, uploader, restarts>>

\* DELETE; COMMIT - or IntegrityError and ROLLBACK where a job or an event
\* refers to the row.
DeleteRow(c) ==
    /\ client[c].pc = "delete"
    /\ LET p == client[c].id
       IN IF Referenced(p)
          THEN UNCHANGED <<host, status, held>>
          ELSE /\ host' = [host EXCEPT ![p] = NoHost]
               /\ status' = [status EXCEPT ![p] = "UNKNOWN"]
               /\ held' = [held EXCEPT ![p] = FALSE]
    /\ client' = [client EXCEPT ![c] = Idle]
    /\ UNCHANGED <<lastId, jobs, events, pool, beat, uploader, restarts>>

-----------------------------------------------------------------------------
(* run_heartbeat_cycle, the alert watcher *)

\* SELECT the rows whose next_heartbeat_at is past.
HeartbeatRead ==
    /\ beat = {}
    /\ \E due \in SUBSET Registered : beat' = {CopyOf(p) : p \in due}
    /\ UNCHANGED <<printers, jobs, events, pool, client, uploader, restarts>>

HeartbeatWrite ==
    /\ \E k \in First(beat), s \in Statuses, lock \in BOOLEAN :
        /\ beat' = beat \ {k}
        /\ IF k.id \in Registered
           THEN /\ status' = [status EXCEPT ![k.id] = s]
                /\ held' = [held EXCEPT ![k.id] = lock]
           ELSE UNCHANGED <<status, held>>
    /\ UNCHANGED <<host, lastId, jobs, events, pool, client, uploader, restarts>>

HeartbeatAborts ==
    /\ beat # {}
    /\ beat' = {}
    /\ UNCHANGED <<printers, jobs, events, pool, client, uploader, restarts>>

\* record_printer_alert_event for a printer of the pool, which may have been
\* deleted: this connection does not check foreign keys.
RecordAlert ==
    /\ \E k \in pool : events' = events \cup {k}
    /\ UNCHANGED <<printers, jobs, pool, beat, client, uploader, restarts>>

-----------------------------------------------------------------------------
(* auto_assign_and_upload, upload_file_to_printer.  Their routes are       *)
(* coroutines that call the service synchronously: one upload at a time.   *)

\* Mutant of AutoReadIdle: the jobs 'printing' are counted.
AutoReadIdleMiscounted ==
    /\ upPc = "idle"
    /\ idleRead' = {[id |-> p, queue |-> Cardinality({j \in Jobs :
                                jobPrinter[j] = p /\ jobStatus[j] = "printing"})] :
                      p \in {q \in Registered : status[q] = "IDLE" /\ ~held[q]}}
    /\ upPc' = "printing"
    /\ UNCHANGED <<printers, jobs, events, pool, beat, client, chosen, upJob, restarts>>

\* SELECT the idle candidates with the lengths of their queues.
AutoReadIdle ==
    /\ upPc = "idle"
    /\ idleRead' = {[id |-> p, queue |-> Cardinality(Queue(p))] :
                      p \in {q \in Registered : status[q] = "IDLE" /\ ~held[q]}}
    /\ upPc' = "printing"
    /\ UNCHANGED <<printers, jobs, events, pool, beat, client, chosen, upJob, restarts>>

\* Mutant of BestIdle: the lowest id.
BestIdleById(r) == \A s \in idleRead : r.id <= s.id

\* min by (queue_length, printer_id)
BestIdle(r) ==
    \A s \in idleRead : r.queue < s.queue \/ (r.queue = s.queue /\ r.id <= s.id)

\* min by (time remaining, unknown ones last, printer_id)
BestPrinting(p, left) ==
    \A q \in DOMAIN left :
        \/ left[p] = left[q] /\ p <= q
        \/ left[p] # Unknown /\ (left[q] = Unknown \/ left[p] < left[q])

\* Another SELECT, of the printing candidates, a look into the realtime store,
\* and select_auto_assign_printer; no candidate at all is a 409.
AutoSelect ==
    /\ upPc = "printing"
    /\ LET printing == {p \in Registered : status[p] = "PRINTING" /\ ~held[p]}
       IN \/ /\ \/ \E r \in idleRead : BestIdle(r) /\ chosen' = r.id
                \/ /\ idleRead = {}
                   /\ \E left \in [printing -> TimesLeft \cup {Unknown}] :
                        \E p \in printing : BestPrinting(p, left) /\ chosen' = p
             /\ upPc' = "select"
          \/ /\ idleRead = {} /\ printing = {}
             /\ upPc' = "idle" /\ UNCHANGED chosen
    /\ UNCHANGED <<printers, jobs, events, pool, beat, client, idleRead, upJob, restarts>>

\* POST /printers/{id}/files names its printer: SELECT the row.
UploadTo(p) ==
    /\ upPc = "idle"
    /\ p \in Registered
    /\ upPc' = "insert" /\ chosen' = p
    /\ UNCHANGED <<printers, jobs, events, pool, beat, client, idleRead, upJob, restarts>>

UploadOver ==
    /\ upPc' = "idle" /\ idleRead' = {} /\ chosen' = NoId /\ upJob' = NoId

\* SELECT the row of the choice; a printer that is gone by now is a 409.
UploadSelect ==
    /\ upPc = "select"
    /\ \/ /\ chosen \in Registered
          /\ upPc' = "insert" /\ UNCHANGED <<idleRead, chosen, upJob>>
       \/ chosen \notin Registered /\ UploadOver
    /\ UNCHANGED <<printers, jobs, events, pool, beat, client, restarts>>

\* Mutant of UploadInsert: foreign keys are not checked.
UploadInsertUnchecked ==
    /\ upPc = "insert"
    /\ \E j \in Jobs :
        /\ jobStatus[j] = "none"
        /\ \A k \in 1 .. j - 1 : jobStatus[k] # "none"
        /\ jobPrinter' = [jobPrinter EXCEPT ![j] = chosen]
        /\ jobStatus' = [jobStatus EXCEPT ![j] = "uploading"]
        /\ upJob' = j
    /\ upPc' = "http"
    /\ UNCHANGED <<printers, events, pool, beat, client, idleRead, chosen, restarts>>

\* INSERT INTO jobs; COMMIT.
UploadInsert ==
    /\ upPc = "insert"
    /\ chosen \in Registered
    /\ \E j \in Jobs :
        /\ jobStatus[j] = "none"
        /\ \A k \in 1 .. j - 1 : jobStatus[k] # "none"
        /\ jobPrinter' = [jobPrinter EXCEPT ![j] = chosen]
        /\ jobStatus' = [jobStatus EXCEPT ![j] = "uploading"]
        /\ upJob' = j
    /\ upPc' = "http"
    /\ UNCHANGED <<printers, events, pool, beat, client, idleRead, chosen, restarts>>

\* IntegrityError: the printer was deleted after the SELECT.
UploadInsertRefused ==
    /\ upPc = "insert"
    /\ chosen \notin Registered
    /\ UploadOver
    /\ UNCHANGED <<printers, jobs, events, pool, beat, client, restarts>>

\* The file is stored, or the upload fails, or an unexpected exception leaves
\* the row as it is.  (What follows for Moonraker's queue is in Dispatch.)
UploadEnds ==
    /\ upPc = "http"
    /\ \E s \in {"queued", "failed", "uploading"} :
        jobStatus' = [jobStatus EXCEPT ![upJob] = s]
    /\ UploadOver
    /\ UNCHANGED <<printers, jobPrinter, events, pool, beat, client, restarts>>

\* Dispatch claims a job, the history sync or a failed start ends it.
JobMoves(j) ==
    /\ \/ /\ jobStatus[j] = "queued"
          /\ jobStatus' = [jobStatus EXCEPT ![j] = "printing"]
       \/ /\ jobStatus[j] = "printing"
          /\ \E s \in Outcomes : jobStatus' = [jobStatus EXCEPT ![j] = s]
    /\ UNCHANGED <<printers, jobPrinter, events, pool, beat, client, uploader, restarts>>

\* The service starts again and reads which printers there are.
Restart ==
    /\ restarts < MaxRestarts
    /\ restarts' = restarts + 1
    /\ pool' = {CopyOf(p) : p \in Registered}
    /\ beat' = {}
    /\ client' = [c \in Clients |-> Idle]
    /\ UploadOver
    /\ UNCHANGED <<printers, jobs, events>>

-----------------------------------------------------------------------------
ClientStep(c) ==
    \/ \E h \in Hosts : Probe(c, h)
    \/ Insert(c) \/ InsertRefused(c)
    \/ \E p \in Ids : DeleteRead(c, p)
    \/ DeleteRow(c)
    \/ \E copies \in Readable : CommandRead(c, copies)
    \/ PollAndWrite(c) \/ PollFails(c) \/ Answer(c)

UploadStep ==
    \/ AutoReadIdle \/ AutoSelect
    \/ \E p \in Ids : UploadTo(p)
    \/ UploadSelect \/ UploadInsert \/ UploadInsertRefused \/ UploadEnds

Next ==
    \/ \E c \in Clients : ClientStep(c)
    \/ \E p \in Ids : Confirm(p)
    \/ HeartbeatRead \/ HeartbeatWrite \/ HeartbeatAborts
    \/ RecordAlert
    \/ UploadStep
    \/ \E j \in Jobs : JobMoves(j)
    \/ Restart

Spec == Init /\ [][Next]_vars

-----------------------------------------------------------------------------
(* Properties *)

\* Everything any thread or table remembers of a printer besides its row.
Copies == events \cup pool \cup beat \cup UNION {client[c].todo : c \in Clients}

\* What was read, or recorded, of a printer never turns into something about
\* another one: a row in the hands of a handler, a heartbeat, a websocket task
\* or an event is still the same printer's, or there is no such row any more.
\* A status polled before a deletion can thus not be written to, nor an alert
\* shown of, the printer registered next.
IdsNameOnePrinter ==
    \A k \in Copies : k.id \in Registered => host[k.id] = k.host

\* A job's printer is in the table for as long as the job is, though a deletion
\* and an upload decide from rows they read earlier.
JobsHaveTheirPrinter ==
    \A j \in Jobs : jobStatus[j] # "none" => jobPrinter[j] \in Registered

\* While a file is on its way to the printer auto-assign chose, no more jobs
\* wait there than auto-assign had counted for any idle printer, whatever
\* dispatch and other requests did since the two SELECTs.
ChosenQueueIsShortest ==
    upPc \in {"select", "insert", "http"} =>
        \A r \in idleRead : Cardinality(Queue(chosen)) <= r.queue

-----------------------------------------------------------------------------
(* The inductive invariant behind these properties *)

\* An address has one row.
HostsAreDistinct ==
    \A p, q \in Registered : host[p] = host[q] => p = q

\* Ids in use were given, so that the next one is new to everyone.
IdsWereGiven ==
    /\ \A p \in Registered : p <= lastId
    /\ \A k \in Copies : k.id <= lastId

\* The upload works on a job of its own, which nobody else moves.
UploadOwnsItsJob ==
    upPc = "http" => upJob \in Jobs /\ jobStatus[upJob] = "uploading"

\* Between the SELECT and the choice, queues get no longer than they were.
CountsOnlyShrink ==
    /\ upPc = "idle" => idleRead = {}
    /\ upPc = "printing" => \A r \in idleRead : Cardinality(Queue(r.id)) <= r.queue

\* All of it, which every step keeps.
IInv ==
    /\ TypeOK
    /\ HostsAreDistinct
    /\ IdsWereGiven
    /\ IdsNameOnePrinter
    /\ JobsHaveTheirPrinter
    /\ UploadOwnsItsJob
    /\ CountsOnlyShrink
    /\ ChosenQueueIsShortest
=============================================================================
