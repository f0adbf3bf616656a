-------------------------------- MODULE Farm --------------------------------
(***************************************************************************)
(* The farm: the job side (Dispatch) and the printer side (PrinterRow)     *)
(* together.  They meet in two places:                                     *)
(*                                                                         *)
(*   - run_dispatch_cycle picks its printers by the rows that heartbeats   *)
(*     and request handlers write: status = 'IDLE' AND is_held = 0;        *)
(*   - a start request that reaches a printer starts a print there, which  *)
(*     the rows show when the next poll has been written.                  *)
(*                                                                         *)
(* Moonraker's own queue takes no part here (JobQueuePrinters = {}).       *)
(***************************************************************************)
EXTENDS Integers, Sequences, FiniteSets, PrintFarmTypes

CONSTANTS NumPrinters, Clients, Requests, Answers, DeviceStatuses, MaxExponent,
          NoPrinter, MaxJobs, Dispatchers, Operators, MaxCrashes

VARIABLES
    \* PrinterRow
    status, held, failures, due, dev, link, hbPc, hbTodo, hbRead, hbSeen,
    client, seenActive,
    \* Dispatch
    jobStatus, printerOf, priority, created, history, native, nativeRuns,
    request, pc, todo, claim, upPc, upJob, reorder, matched, starts, crashes,
    \* printers locked ever since the current cycle of a dispatcher began
    lockedSince

Printers == 1 .. NumPrinters

\* Mutant of Candidate: a locked printer is not left out.
CandidateIfIdle == [p \in Printers |-> status[p] = "IDLE"]

\* WHERE status = 'IDLE' AND is_held = 0
Candidate == [p \in Printers |-> status[p] = "IDLE" /\ ~held[p]]

Rows == INSTANCE PrinterRow WITH MaxRestarts <- MaxCrashes, restarts <- crashes

JobSide == INSTANCE Dispatch WITH
    candidate <- Candidate, JobQueuePrinters <- {}, MaxNativeRuns <- 0

ASSUME ConstantsAssumption ==
    /\ NumPrinters \in Nat /\ NoPrinter \notin Printers
    /\ Requests \subseteq Rows!AllRequests
    /\ Answers \subseteq Rows!AllAnswers /\ "up" \in Answers
    /\ DeviceStatuses \subseteq PrinterStatuses
    /\ MaxJobs \in Nat /\ MaxCrashes \in Nat /\ MaxExponent \in Nat

rowVars == <<status, held, failures, due, dev, link, hbPc, hbTodo, hbRead, hbSeen,
             client, seenActive>>
jobVars == <<jobStatus, printerOf, priority, created, history, native, nativeRuns,
             request, pc, todo, claim, upPc, upJob, reorder, matched, starts>>
vars == <<rowVars, jobVars, crashes, lockedSince>>

Init ==
    /\ Rows!Init
    /\ JobSide!Init
    /\ lockedSince = [d \in Dispatchers |-> {}]

-----------------------------------------------------------------------------
\* Ghost: which locks have lasted since a dispatcher's cycle began.
KeepLocks == lockedSince' = [d \in Dispatchers |-> {p \in lockedSince[d] : held'[p]}]

\* A step of the printer side; whether dispatch sees it is in Candidate.
PrinterSide ==
    /\ \/ Rows!HeartbeatStep
       \/ \E c \in Clients : Rows!ClientStep(c)
       \/ \E p \in Printers :
            Rows!DeviceChanges(p) \/ Rows!LinkChanges(p) \/ Rows!TimePasses(p)
    /\ KeepLocks
    /\ UNCHANGED jobVars

\* A cycle begins.
CycleBegins(d) ==
    /\ UNCHANGED rowVars
    /\ JobSide!BeginCycle(d)
    /\ lockedSince' = [lockedSince EXCEPT ![d] = {p \in Printers : held[p]}]

\* The rest of a cycle, up to its end or to an exception.
CycleGoesOn(d) ==
    \/ JobSide!SkipPrinter(d) \/ JobSide!PickJob(d) \/ JobSide!EndCycle(d)
    \/ JobSide!ClaimJob(d) \/ JobSide!LoseClaim(d) \/ JobSide!SendStart(d)
    \/ JobSide!StartSucceeds(d) \/ JobSide!StartFails(d) \/ JobSide!CycleAborts(d)

\* It, uploads, reorders and the history sync leave the printers and their
\* rows alone.
RowsKept == UNCHANGED <<rowVars, lockedSince>>
JobsOnly ==
    /\ RowsKept
    /\ \/ \E p \in Printers : JobSide!UploadBegin(p)
       \/ JobSide!UploadStored \/ JobSide!UploadFails \/ JobSide!UploadAborts
       \/ \E o \in Operators :
            \/ \E p \in Printers : JobSide!ReorderValidate(o, p)
            \/ JobSide!ReorderWrite(o)
       \/ \E d \in Dispatchers : CycleGoesOn(d)
       \/ \E j \in JobSide!Jobs : JobSide!HistoryMatch(j)
       \/ \E outcome \in HistoryStatuses : JobSide!HistoryRecord(outcome)

\* A start request reaches its printer.  One that is printing, or whose
\* Klipper is not ready, refuses: then no more comes of the request.
PrintStarts(j) ==
    /\ UNCHANGED <<status, held, failures, due, link, hbPc, hbTodo, hbRead, hbSeen,
                   client, seenActive, lockedSince>>
    /\ JobSide!PrinterAccepts(j)
    /\ LET p == printerOf[j]
       IN /\ <<dev[p], "PRINTING">> \in Rows!DeviceMoves
          /\ dev[p] \notin ActiveJobStatuses \cup {"OFFLINE"}
          /\ dev' = [dev EXCEPT ![p] = "PRINTING"]

Crash ==
    /\ Rows!Restart
    /\ JobSide!Crash
    /\ lockedSince' = [d \in Dispatchers |-> {}]

Next ==
    \/ PrinterSide \/ JobsOnly \/ Crash
    \/ \E d \in Dispatchers : CycleBegins(d)
    \/ \E j \in JobSide!Jobs : PrintStarts(j)

Spec == Init /\ [][Next]_vars

\* What PrinterRow and Dispatch assume of their threads: heartbeats and
\* dispatch cycles go on, time passes, and the database is not locked whenever
\* a dispatcher asks it.
Fairness ==
    /\ WF_vars(Rows!HeartbeatStep /\ KeepLocks /\ UNCHANGED jobVars)
    /\ \A p \in Printers : WF_vars(Rows!TimePasses(p) /\ KeepLocks /\ UNCHANGED jobVars)
    /\ \A d \in Dispatchers :
        /\ WF_vars(CycleBegins(d) \/ (RowsKept /\ CycleGoesOn(d)))
        /\ SF_vars(RowsKept /\ JobSide!PickJob(d))
        /\ SF_vars(RowsKept /\ (JobSide!ClaimJob(d) \/ JobSide!LoseClaim(d)))

FairSpec == Spec /\ Fairness

-----------------------------------------------------------------------------
(* Properties *)

\* A printer locked since before a dispatch cycle began gets no job from that
\* cycle, whatever heartbeats and commands write meanwhile.
LockedPrinterGetsNoJob ==
    \A d \in Dispatchers :
        claim[d] # JobSide!NoJob => printerOf[claim[d]] \notin lockedSince[d]

\* A printer that in the end stays idle, answers and is unlocked gets the jobs
\* that wait for it: heartbeats bring its row up to date whatever it showed
\* before, no stale poll or confirmation hides it from dispatch again, and no
\* aborted cycle or crash leaves the queue behind.
IdlePrinterIsFed ==
    \A p \in Printers :
        <>[](dev[p] = "IDLE" /\ link[p] = "up" /\ ~held[p])
        => \A j \in JobSide!Jobs :
            (jobStatus[j] = "queued" /\ printerOf[j] = p) ~> jobStatus[j] # "queued"

\* Each side's own specification, which carries what is proved of it alone
\* over to the farm.
ImplementsJobSide == JobSide!Spec
ImplementsPrinterSide == Rows!Spec

\* Claimed by a test of the next-job selection: while one of the queued jobs
\* of a printer is printing, the others stay queued.
OthersStayQueued ==
    [][\A j, k \in JobSide!Jobs :
        (/\ jobStatus[j] = "queued" /\ jobStatus'[j] = "printing"
         /\ jobStatus[k] = "printing" /\ request[k] = "accepted"
         /\ printerOf[j] = printerOf[k])
        => dev[printerOf[k]] \notin ActiveJobStatuses]_vars
=============================================================================
