------------------------------ MODULE Dispatch ------------------------------
(***************************************************************************)
(* The life of the rows of table jobs.                                     *)
(*                                                                         *)
(*   - upload_file_to_printer / enqueue_job_to_moonraker_queue insert a    *)
(*     row, upload the file and queue the job;                             *)
(*   - reorder_printer_queue rewrites the priorities of a printer's queue; *)
(*   - run_dispatch_cycle claims the first queued job of every idle and    *)
(*     unlocked printer and asks the printer to start it;                  *)
(*   - the history sync gives a printing job its final status.             *)
(*                                                                         *)
(* These run in threads of one process and share a SQLite database.  Every *)
(* SELECT and every commit is one atomic step and nothing holds a lock     *)
(* between them, so an action below is one statement (or one transaction), *)
(* one HTTP request leaving, or one answer arriving.                       *)
(*                                                                         *)
(* The rows of table printers appear only through the question dispatch    *)
(* asks of them, candidate; who writes them is the subject of              *)
(* PrinterRow.tla, and here they may change at any time.                   *)
(***************************************************************************)
EXTENDS Integers, Sequences, FiniteSets, Functions, PrintFarmTypes

CONSTANTS
    Printers,           \* registered printers
    JobQueuePrinters,   \* those whose Moonraker has the job_queue component
    NoPrinter,          \* not a printer
    MaxJobs,            \* bound: how many jobs are ever uploaded
    Dispatchers,        \* threads that may run run_dispatch_cycle
    Operators,          \* threads that may run reorder_printer_queue
    MaxNativeRuns,      \* bound: prints Moonraker's own queue makes of a job
    MaxCrashes          \* bound: crashes of the service

ASSUME PrintersAssumption ==
    /\ IsFiniteSet(Printers)
    /\ JobQueuePrinters \subseteq Printers
    /\ NoPrinter \notin Printers

ASSUME BoundsAssumption ==
    /\ MaxJobs \in Nat
    /\ MaxNativeRuns \in Nat
    /\ MaxCrashes \in Nat

Jobs == 1 .. MaxJobs    \* jobs.id, AUTOINCREMENT
NoJob == 0

VARIABLES
    candidate,  \* [Printers -> BOOLEAN]: status = 'IDLE' AND is_held = 0
    \* table jobs
    jobStatus, printerOf, priority, created,
    \* table job_history: the statuses recorded for each job, in order
    history,
    \* the printers: Moonraker's own queue, and the fate of each start request
    native, nativeRuns, request,
    \* run_dispatch_cycle: control, remaining candidates, the job in hand
    pc, todo, claim,
    \* the upload route: control and its job
    upPc, upJob,
    \* reorder_printer_queue: the validated request
    reorder,
    \* sync_job_history_entry: the job it matched
    matched,
    \* how often the start request of each job was sent, and crashes so far
    starts, crashes

row        == <<jobStatus, printerOf, priority, created>>
device     == <<native, nativeRuns, request>>
dispatcher == <<pc, todo, claim>>
uploader   == <<upPc, upJob>>
vars == <<candidate, row, history, device, dispatcher, uploader, reorder,
          matched, starts, crashes>>

NoReorder == [printer |-> NoPrinter, ids |-> <<>>]

TypeOK ==
    /\ candidate \in [Printers -> BOOLEAN]
    /\ jobStatus \in [Jobs -> JobStates]
    /\ printerOf \in [Jobs -> Printers \cup {NoPrinter}]
    /\ priority \in [Jobs -> Nat]
    /\ created \in [Jobs -> Nat]
    /\ history \in [Jobs -> Seq(HistoryStatuses)]
    /\ native \in [JobQueuePrinters -> Seq(Jobs)]
    /\ nativeRuns \in [Jobs -> Nat]
    /\ request \in [Jobs -> {"none", "sent", "accepted"}]
    /\ pc \in [Dispatchers -> {"idle", "scan", "claim", "start", "reply"}]
    /\ todo \in [Dispatchers -> SUBSET Printers]
    /\ claim \in [Dispatchers -> Jobs \cup {NoJob}]
    /\ upPc \in {"idle", "http", "enqueue"}
    /\ upJob \in Jobs \cup {NoJob}
    /\ reorder \in [Operators -> [printer : Printers \cup {NoPrinter}, ids : Seq(Jobs)]]
    /\ matched \in Jobs \cup {NoJob}
    /\ starts \in [Jobs -> Nat]
    /\ crashes \in Nat

Init ==
    /\ candidate \in [Printers -> BOOLEAN]
    /\ jobStatus = [j \in Jobs |-> "none"]
    /\ printerOf = [j \in Jobs |-> NoPrinter]
    /\ priority = [j \in Jobs |-> 0]
    /\ created = [j \in Jobs |-> 0]
    /\ history = [j \in Jobs |-> <<>>]
    /\ native = [p \in JobQueuePrinters |-> <<>>]
    /\ nativeRuns = [j \in Jobs |-> 0]
    /\ request = [j \in Jobs |-> "none"]
    /\ pc = [d \in Dispatchers |-> "idle"]
    /\ todo = [d \in Dispatchers |-> {}]
    /\ claim = [d \in Dispatchers |-> NoJob]
    /\ upPc = "idle" /\ upJob = NoJob
    /\ reorder = [o \in Operators |-> NoReorder]
    /\ matched = NoJob
    /\ starts = [j \in Jobs |-> 0]
    /\ crashes = 0

-----------------------------------------------------------------------------
(* Queries *)

QueuedOn(p) == {j \in Jobs : printerOf[j] = p /\ jobStatus[j] = "queued"}

\* Mutant of Precedes: newest first.
PrecedesNewestFirst(j, k) ==
    \/ priority[j] > priority[k]
    \/ priority[j] = priority[k] /\ created[j] > created[k]

\* ORDER BY priority DESC, created_at ASC
Precedes(j, k) ==
    \/ priority[j] > priority[k]
    \/ priority[j] = priority[k] /\ created[j] < created[k]

\* The rows LIMIT 1 may return: created_at has a grain of one second and no
\* further sort key follows, so two jobs may tie.
NextQueued(p) ==
    {j \in QueuedOn(p) : \A k \in QueuedOn(p) : ~Precedes(k, j)}

-----------------------------------------------------------------------------
(* Upload: POST /printers/{id}/files.  The route is a coroutine that calls *)
(* the service synchronously, so uploads run one at a time.                *)

\* INSERT INTO jobs ... 'uploading'; COMMIT.  The row gets the next id and
\* either the second of the row before it or a later one.
UploadBegin(p) ==
    /\ upPc = "idle"
    /\ \E j \in Jobs :
        /\ jobStatus[j] = "none"
        /\ \A k \in 1 .. j - 1 : jobStatus[k] # "none"
        /\ jobStatus' = [jobStatus EXCEPT ![j] = "uploading"]
        /\ printerOf' = [printerOf EXCEPT ![j] = p]
        /\ LET latest == IF j = 1 THEN 0 ELSE created[j - 1]
           IN \E second \in {latest, latest + 1} :
                created' = [created EXCEPT ![j] = second]
        /\ upJob' = j
    /\ upPc' = "http"
    /\ UNCHANGED <<candidate, priority, history, device, dispatcher, reorder,
                   matched, starts, crashes>>

\* The file and its metadata went through: the job is queued.  The route then
\* offers the file to Moonraker's own queue where the printer has one.
UploadStored ==
    /\ upPc = "http"
    /\ jobStatus' = [jobStatus EXCEPT ![upJob] = "queued"]
    /\ IF printerOf[upJob] \in JobQueuePrinters
       THEN upPc' = "enqueue" /\ UNCHANGED upJob
       ELSE upPc' = "idle" /\ upJob' = NoJob
    /\ UNCHANGED <<candidate, printerOf, priority, created, history, device,
                   dispatcher, reorder, matched, starts, crashes>>

\* MoonrakerClientError: the job is failed and the caller gets a 502.
UploadFails ==
    /\ upPc = "http"
    /\ jobStatus' = [jobStatus EXCEPT ![upJob] = "failed"]
    /\ upPc' = "idle" /\ upJob' = NoJob
    /\ UNCHANGED <<candidate, printerOf, priority, created, history, device,
                   dispatcher, reorder, matched, starts, crashes>>

\* Any other exception (a 200 whose body is not JSON) leaves the row as it is.
UploadAborts ==
    /\ upPc = "http"
    /\ upPc' = "idle" /\ upJob' = NoJob
    /\ UNCHANGED <<candidate, row, history, device, dispatcher, reorder,
                   matched, starts, crashes>>

\* enqueue_job([filename]): done, or lost (with or without effect: 502).
Enqueue ==
    /\ upPc = "enqueue"
    /\ LET p == printerOf[upJob]
       IN \/ native' = [native EXCEPT ![p] = Append(@, upJob)]
          \/ UNCHANGED native
    /\ upPc' = "idle" /\ upJob' = NoJob
    /\ UNCHANGED <<candidate, row, history, nativeRuns, request, dispatcher,
                   reorder, matched, starts, crashes>>

-----------------------------------------------------------------------------
(* Reorder: POST /printers/{id}/queue/reorder *)

\* The request names exactly the jobs the SELECT finds queued, each once;
\* any other request is refused (InvalidReorderError) and changes nothing.
ReorderValidate(o, p) ==
    /\ reorder[o] = NoReorder
    /\ LET queued == QueuedOn(p)
       IN \E ids \in Bijection(1 .. Cardinality(queued), queued) :
            reorder' = [reorder EXCEPT ![o] = [printer |-> p, ids |-> ids]]
    /\ UNCHANGED <<candidate, row, history, device, dispatcher, uploader,
                   matched, starts, crashes>>

\* Mutant of Reprioritised: the first job gets the lowest number.
ReprioritisedAscending(ids) ==
    [j \in Jobs |->
        IF \E i \in 1 .. Len(ids) : ids[i] = j
        THEN CHOOSE i \in 1 .. Len(ids) : ids[i] = j
        ELSE priority[j]]

\* The priorities ids asks for: total for its first job down to 1.
Reprioritised(ids) ==
    [j \in Jobs |->
        IF \E i \in 1 .. Len(ids) : ids[i] = j
        THEN Len(ids) + 1 - (CHOOSE i \in 1 .. Len(ids) : ids[i] = j)
        ELSE priority[j]]

\* Priorities are written in one transaction, whatever became of the jobs
\* since they were read.
ReorderWrite(o) ==
    /\ reorder[o].printer \in Printers \ JobQueuePrinters
    /\ priority' = Reprioritised(reorder[o].ids)
    /\ reorder' = [reorder EXCEPT ![o] = NoReorder]
    /\ UNCHANGED <<candidate, jobStatus, printerOf, created, history, device,
                   dispatcher, uploader, matched, starts, crashes>>

\* A printer with its own queue gets the whole list anew, reset=True; the
\* call may fail with or without having had its effect.
ReorderNative(o) ==
    /\ reorder[o].printer \in JobQueuePrinters
    /\ \/ native' = [native EXCEPT ![reorder[o].printer] = reorder[o].ids]
       \/ UNCHANGED native
    /\ reorder' = [reorder EXCEPT ![o] = NoReorder]
    /\ UNCHANGED <<candidate, row, history, nativeRuns, request, dispatcher,
                   uploader, matched, starts, crashes>>

-----------------------------------------------------------------------------
(* run_dispatch_cycle *)

\* SELECT the candidate printers; the cycle works from this snapshot.
BeginCycle(d) ==
    /\ pc[d] = "idle"
    /\ pc' = [pc EXCEPT ![d] = "scan"]
    /\ todo' = [todo EXCEPT ![d] = {p \in Printers : candidate[p]}]
    /\ UNCHANGED <<candidate, row, history, device, claim, uploader, reorder,
                   matched, starts, crashes>>

\* A printer with its own queue, or without a queued job, is passed over.
SkipPrinter(d) ==
    /\ pc[d] = "scan"
    /\ \E p \in todo[d] :
        /\ p \in JobQueuePrinters \/ QueuedOn(p) = {}
        /\ todo' = [todo EXCEPT ![d] = @ \ {p}]
    /\ UNCHANGED <<candidate, row, history, device, pc, claim, uploader,
                   reorder, matched, starts, crashes>>

\* SELECT the next queued job of the next candidate.
PickJob(d) ==
    /\ pc[d] = "scan"
    /\ \E p \in todo[d] \ JobQueuePrinters :
        /\ \E j \in NextQueued(p) : claim' = [claim EXCEPT ![d] = j]
        /\ todo' = [todo EXCEPT ![d] = @ \ {p}]
    /\ pc' = [pc EXCEPT ![d] = "claim"]
    /\ UNCHANGED <<candidate, row, history, device, uploader, reorder,
                   matched, starts, crashes>>

EndCycle(d) ==
    /\ pc[d] = "scan" /\ todo[d] = {}
    /\ pc' = [pc EXCEPT ![d] = "idle"]
    /\ UNCHANGED <<candidate, row, history, device, todo, claim, uploader,
                   reorder, matched, starts, crashes>>

\* Mutant of ClaimJob: the UPDATE without "AND status = 'queued'".
ClaimJobUnguarded(d) ==
    /\ pc[d] = "claim"
    /\ jobStatus' = [jobStatus EXCEPT ![claim[d]] = "printing"]
    /\ pc' = [pc EXCEPT ![d] = "start"]
    /\ UNCHANGED <<candidate, printerOf, priority, created, history, device,
                   todo, claim, uploader, reorder, matched, starts, crashes>>

\* UPDATE ... WHERE id = ? AND status = 'queued'; COMMIT.  rowcount = 1: the
\* job is ours.
ClaimJob(d) ==
    /\ pc[d] = "claim"
    /\ jobStatus[claim[d]] = "queued"
    /\ jobStatus' = [jobStatus EXCEPT ![claim[d]] = "printing"]
    /\ pc' = [pc EXCEPT ![d] = "start"]
    /\ UNCHANGED <<candidate, printerOf, priority, created, history, device,
                   todo, claim, uploader, reorder, matched, starts, crashes>>

\* rowcount # 1: somebody else claimed it; go on with the next candidate.
LoseClaim(d) ==
    /\ pc[d] = "claim"
    /\ jobStatus[claim[d]] # "queued"
    /\ pc' = [pc EXCEPT ![d] = "scan"]
    /\ claim' = [claim EXCEPT ![d] = NoJob]
    /\ UNCHANGED <<candidate, row, history, device, todo, uploader, reorder,
                   matched, starts, crashes>>

\* start_uploaded_print(filename): the request leaves for the printer.
SendStart(d) ==
    /\ pc[d] = "start"
    /\ starts' = [starts EXCEPT ![claim[d]] = @ + 1]
    /\ request' = [request EXCEPT ![claim[d]] = "sent"]
    /\ pc' = [pc EXCEPT ![d] = "reply"]
    /\ UNCHANGED <<candidate, row, history, native, nativeRuns, todo, claim,
                   uploader, reorder, matched, crashes>>

\* The printer's answer reaches the dispatcher.
StartSucceeds(d) ==
    /\ pc[d] = "reply"
    /\ request[claim[d]] = "accepted"
    /\ pc' = [pc EXCEPT ![d] = "scan"]
    /\ claim' = [claim EXCEPT ![d] = NoJob]
    /\ UNCHANGED <<candidate, row, history, device, todo, uploader, reorder,
                   matched, starts, crashes>>

\* Mutant of StartFails: a failed start goes back to the queue.
StartFailsRequeue(d) ==
    /\ pc[d] = "reply"
    /\ jobStatus' = [jobStatus EXCEPT ![claim[d]] = "queued"]
    /\ pc' = [pc EXCEPT ![d] = "scan"]
    /\ claim' = [claim EXCEPT ![d] = NoJob]
    /\ UNCHANGED <<candidate, printerOf, priority, created, history, device,
                   todo, uploader, reorder, matched, starts, crashes>>

\* MoonrakerClientError: refused, unreachable, or no answer within 8 s - and
\* then the printer may have accepted the request, or may still do so.  The
\* UPDATE does not look at the status it overwrites.
StartFails(d) ==
    /\ pc[d] = "reply"
    /\ jobStatus' = [jobStatus EXCEPT ![claim[d]] = "failed"]
    /\ pc' = [pc EXCEPT ![d] = "scan"]
    /\ claim' = [claim EXCEPT ![d] = NoJob]
    /\ UNCHANGED <<candidate, printerOf, priority, created, history, device,
                   todo, uploader, reorder, matched, starts, crashes>>

\* Mutant of CycleAborts: the exception ends the scheduler, too.
CycleAbortsForGood(d) ==
    /\ pc[d] # "idle"
    /\ pc' = [pc EXCEPT ![d] = "ended"]
    /\ todo' = [todo EXCEPT ![d] = {}]
    /\ claim' = [claim EXCEPT ![d] = NoJob]
    /\ UNCHANGED <<candidate, row, history, device, uploader, reorder,
                   matched, starts, crashes>>

\* Any other exception ends the cycle, wherever it is: a locked database at a
\* query, at the claim or when a failed start is to be marked; a driver that
\* cannot be resolved for a job already claimed; an answer, accepted or not,
\* that is no JSON.  What is committed stays, a row 'printing' included; the
\* scheduler logs the exception and starts another cycle later.
CycleAborts(d) ==
    /\ pc[d] # "idle"
    /\ pc' = [pc EXCEPT ![d] = "idle"]
    /\ todo' = [todo EXCEPT ![d] = {}]
    /\ claim' = [claim EXCEPT ![d] = NoJob]
    /\ UNCHANGED <<candidate, row, history, device, uploader, reorder,
                   matched, starts, crashes>>

DispatchStep(d) ==
    \/ BeginCycle(d) \/ SkipPrinter(d) \/ PickJob(d) \/ EndCycle(d)
    \/ ClaimJob(d) \/ LoseClaim(d)
    \/ SendStart(d) \/ StartSucceeds(d) \/ StartFails(d) \/ CycleAborts(d)

-----------------------------------------------------------------------------
(* sync_job_history_entry (in detail in HistorySync.tla) *)

\* Mutant of HistoryMatch: a job whose start failed is matched, too.
HistoryMatchFailed(j) ==
    /\ matched = NoJob
    /\ jobStatus[j] \in {"printing", "failed"}
    /\ matched' = j
    /\ UNCHANGED <<candidate, row, history, device, dispatcher, uploader,
                   reorder, starts, crashes>>

\* SELECT a job that is printing, by printer and file name: as several jobs
\* may carry one name, any printing job may be the match.
HistoryMatch(j) ==
    /\ matched = NoJob
    /\ jobStatus[j] = "printing"
    /\ matched' = j
    /\ UNCHANGED <<candidate, row, history, device, dispatcher, uploader,
                   reorder, starts, crashes>>

\* Mutant of HistoryRecord: the job keeps its status.
HistoryRecordOnly(outcome) ==
    /\ matched # NoJob
    /\ history' = [history EXCEPT ![matched] = Append(@, outcome)]
    /\ matched' = NoJob
    /\ UNCHANGED <<candidate, row, device, dispatcher,
                   uploader, reorder, starts, crashes>>

\* Mutant of HistoryRecord: the job gets Moonraker's word for a finished print.
HistoryRecordNative(outcome) ==
    /\ matched # NoJob
    /\ history' = [history EXCEPT ![matched] = Append(@, outcome)]
    /\ jobStatus' = [jobStatus EXCEPT ![matched] =
                        IF outcome = "finished" THEN "completed" ELSE outcome]
    /\ matched' = NoJob
    /\ UNCHANGED <<candidate, printerOf, priority, created, device, dispatcher,
                   uploader, reorder, starts, crashes>>

\* INSERT INTO job_history; UPDATE jobs SET status; COMMIT.
HistoryRecord(outcome) ==
    /\ matched # NoJob
    /\ history' = [history EXCEPT ![matched] = Append(@, outcome)]
    /\ jobStatus' = [jobStatus EXCEPT ![matched] = outcome]
    /\ matched' = NoJob
    /\ UNCHANGED <<candidate, printerOf, priority, created, device, dispatcher,
                   uploader, reorder, starts, crashes>>

-----------------------------------------------------------------------------
(* Everything else *)

\* The printer takes a start request that reached it.
PrinterAccepts(j) ==
    /\ request[j] = "sent"
    /\ request' = [request EXCEPT ![j] = "accepted"]
    /\ UNCHANGED <<candidate, row, history, native, nativeRuns, dispatcher,
                   uploader, reorder, matched, starts, crashes>>

\* Moonraker prints the head of its own queue.
NativeStart(p) ==
    /\ native[p] # <<>>
    /\ nativeRuns[Head(native[p])] < MaxNativeRuns
    /\ nativeRuns' = [nativeRuns EXCEPT ![Head(native[p])] = @ + 1]
    /\ native' = [native EXCEPT ![p] = Tail(@)]
    /\ UNCHANGED <<candidate, row, history, request, dispatcher, uploader,
                   reorder, matched, starts, crashes>>

\* The heartbeat, an operator or a command writes a row of printers.
PrinterRowWritten(p) ==
    /\ candidate' = [candidate EXCEPT ![p] = ~@]
    /\ UNCHANGED <<row, history, device, dispatcher, uploader, reorder,
                   matched, starts, crashes>>

\* The process dies and systemd restarts it (Restart=always): threads are
\* gone, rows and requests on the wire stay, and nothing is repaired.
Crash ==
    /\ crashes < MaxCrashes
    /\ crashes' = crashes + 1
    /\ pc' = [d \in Dispatchers |-> "idle"]
    /\ todo' = [d \in Dispatchers |-> {}]
    /\ claim' = [d \in Dispatchers |-> NoJob]
    /\ upPc' = "idle" /\ upJob' = NoJob
    /\ reorder' = [o \in Operators |-> NoReorder]
    /\ matched' = NoJob
    /\ UNCHANGED <<candidate, row, history, device, starts>>

-----------------------------------------------------------------------------
Next ==
    \/ \E d \in Dispatchers : DispatchStep(d)
    \/ \E p \in Printers : UploadBegin(p) \/ PrinterRowWritten(p)
    \/ UploadStored \/ UploadFails \/ UploadAborts \/ Enqueue
    \/ \E o \in Operators :
        \/ \E p \in Printers : ReorderValidate(o, p)
        \/ ReorderWrite(o) \/ ReorderNative(o)
    \/ \E j \in Jobs : HistoryMatch(j) \/ PrinterAccepts(j)
    \/ \E outcome \in HistoryStatuses : HistoryRecord(outcome)
    \/ \E p \in JobQueuePrinters : NativeStart(p)
    \/ Crash

Spec == Init /\ [][Next]_vars

\* The scheduler never stops calling run_dispatch_cycle and every HTTP call
\* is answered or times out, so each dispatcher keeps taking steps.  Cycles
\* may end by exceptions again and again, but a query or a claim that is tried
\* for ever goes through at some time: the database is not locked whenever
\* it is asked.
Fairness ==
    \A d \in Dispatchers :
        /\ WF_vars(DispatchStep(d))
        /\ SF_vars(PickJob(d)) /\ SF_vars(ClaimJob(d) \/ LoseClaim(d))

FairSpec == Spec /\ Fairness

-----------------------------------------------------------------------------
(* Properties *)

\* A job's start request is sent to its printer at most once, whichever
\* dispatchers overlap, whatever fails, and across restarts: the claim is
\* committed before the request leaves and nothing ever re-queues a job.
StartedAtMostOnce == \A j \in Jobs : starts[j] <= 1

\* A job gets at most one job_history record: it is matched only while it is
\* printing, and the record and the final status are one transaction.
OneRecordPerJob == \A j \in Jobs : Len(history[j]) <= 1

\* The two tables agree on how a recorded job ended, except that a start
\* request that fails late overwrites any status with 'failed'.
RecordMatchesStatus ==
    \A j \in Jobs :
        history[j] # <<>> => jobStatus[j] \in {history[j][1], "failed"}

\* The inductive strengthening of the first three invariants above.  It says who
\* owns a job at each moment: the upload handler until it is queued, then the
\* queue, then the one dispatcher whose claim was committed.
UploadOwnsItsJob ==
    /\ upPc # "idle" => upJob \in Jobs
    /\ upPc = "http" => jobStatus[upJob] = "uploading"
    /\ upPc = "enqueue" => printerOf[upJob] \in JobQueuePrinters

UnclaimedIsUntouched ==
    \A j \in Jobs :
        /\ jobStatus[j] \in UnclaimedStates => starts[j] = 0
        /\ jobStatus[j] \in UnclaimedStates \cup {"printing"} => history[j] = <<>>

ClaimIsExclusive ==
    \A d \in Dispatchers :
        /\ pc[d] \in {"claim", "start", "reply"} => claim[d] \in Jobs
        /\ pc[d] \in {"start", "reply"} =>
            /\ jobStatus[claim[d]] \notin UnclaimedStates
            /\ starts[claim[d]] = IF pc[d] = "start" THEN 0 ELSE 1
            /\ \A e \in Dispatchers \ {d} :
                pc[e] \in {"start", "reply"} => claim[e] # claim[d]

MatchIsFresh ==
    matched # NoJob =>
        jobStatus[matched] \in {"printing", "failed"} /\ history[matched] = <<>>

IInv ==
    /\ TypeOK
    /\ UploadOwnsItsJob
    /\ UnclaimedIsUntouched
    /\ ClaimIsExclusive
    /\ MatchIsFresh
    /\ StartedAtMostOnce
    /\ OneRecordPerJob
    /\ RecordMatchesStatus

\* Jobs that no reorder has named (those have priority 0) are claimed in the
\* order of upload, up to the grain of created_at, however dispatchers,
\* uploads and reorders of other jobs interleave.
ClaimedInUploadOrder ==
    [][\A j, k \in Jobs :
        (/\ jobStatus[j] = "queued" /\ jobStatus'[j] = "printing"
         /\ jobStatus[k] = "queued" /\ printerOf[k] = printerOf[j]
         /\ priority[j] = 0 /\ priority[k] = 0)
        => created[j] <= created[k]]_vars

\* When a reorder commits, the jobs it named that are still queued come next
\* in the order it asked for, ahead of jobs uploaded since it was validated.
\* (Of two operators at once the one who writes last wins only for the jobs
\* that both have named: the property is one operator's.)
ReorderedJobsGoFirst ==
    [][\A o \in Operators :
        (priority' # priority /\ reorder[o] # NoReorder /\ reorder'[o] = NoReorder)
        => LET ids == reorder[o].ids
               queued == QueuedOn(reorder[o].printer)
           IN \A i \in DOMAIN ids :
                ids[i] \in queued =>
                    \A k \in queued :
                        (\A h \in 1 .. i : ids[h] # k)
                        => priority'[ids[i]] > priority'[k]]_vars

\* The jobs table, its history and the start requests implement the abstract
\* life of a job.
Lifecycle == INSTANCE JobLifecycle WITH
    phase <- jobStatus,
    sent <- {j \in Jobs : starts[j] > 0},
    recorded <- {j \in Jobs : history[j] # <<>>}

ImplementsLifecycle == Lifecycle!Spec

\* A job queued on a printer that stays idle and unlocked is dispatched in
\* the end: no overlap of cycles, failed start or aborted cycle loses it.
QueuedJobIsDispatched ==
    \A p \in Printers \ JobQueuePrinters : \A j \in Jobs :
        <>[](candidate[p]) =>
            ((jobStatus[j] = "queued" /\ printerOf[j] = p)
                ~> jobStatus[j] # "queued")
=============================================================================
