----------------------------- MODULE FarmProofs -----------------------------
(***************************************************************************)
(* Proofs about Farm, for any number of printers, jobs, dispatchers and    *)
(* clients: the farm implements its job side and its printer side, a       *)
(* locked printer gets no job, and the theorems about the two sides hold   *)
(* in the farm.                                                            *)
(***************************************************************************)
EXTENDS Farm, FiniteSetTheorems, TLAPS

Jobs == JobSide!Jobs
NoJob == JobSide!NoJob

\* The tables are functions, whatever their values.
TablesAreFunctions ==
    /\ status = [p \in Printers |-> status[p]]
    /\ held = [p \in Printers |-> held[p]]
    /\ jobStatus = [j \in Jobs |-> jobStatus[j]]
    /\ printerOf = [j \in Jobs |-> printerOf[j]]
    /\ request = [j \in Jobs |-> request[j]]
    /\ pc = [d \in Dispatchers |-> pc[d]]
        /\ todo = [d \in Dispatchers |-> todo[d]]
    /\ claim = [d \in Dispatchers |-> claim[d]]
    /\ lockedSince = [d \in Dispatchers |-> lockedSince[d]]

\* A row of jobs names a printer, and only rows have start requests, uploads
\* and matches.
JobsHavePrinters ==
    \A j \in Jobs : /\ jobStatus[j] # "none" => printerOf[j] \in Printers
                    /\ request[j] # "none" \/ j \in {upJob, matched}
                       => jobStatus[j] # "none"

\* A cycle's claim is a row of jobs, and neither its printer nor those that
\* wait their turn have been locked since the cycle began.
CyclesAvoidLocks ==
    \A d \in Dispatchers :
        /\ todo[d] \subseteq Printers \ lockedSince[d]
        /\ claim[d] # NoJob =>
             /\ pc[d] \notin {"idle", "scan"}
             /\ claim[d] \in Jobs /\ jobStatus[claim[d]] # "none"
             /\ printerOf[claim[d]] \notin lockedSince[d]

IInv == TablesAreFunctions /\ JobsHavePrinters /\ CyclesAvoidLocks

LEMMA InitEstablishes == Init => IInv
<1> SUFFICES ASSUME Init PROVE IInv
  OBVIOUS
<1> USE DEF Init, Rows!Init, JobSide!Init, Jobs, NoJob, JobSide!NoJob
<1>1. TablesAreFunctions
  <2>1. status = [p \in Printers |-> "UNKNOWN"] /\ held = [p \in Printers |-> FALSE]
    BY DEF Printers, Rows!Printers
  <2>2. /\ jobStatus = [j \in Jobs |-> "none"] /\ printerOf = [j \in Jobs |-> NoPrinter]
        /\ request = [j \in Jobs |-> "none"]
        /\ pc = [d \in Dispatchers |-> pc[d]]
        /\ todo = [d \in Dispatchers |-> {}] /\ claim = [d \in Dispatchers |-> NoJob]
        /\ lockedSince = [d \in Dispatchers |-> {}]
    OBVIOUS
  <2> QED  BY <2>1, <2>2 DEF TablesAreFunctions
<1>2. JobsHavePrinters /\ CyclesAvoidLocks
  BY DEF JobsHavePrinters, CyclesAvoidLocks, JobSide!Jobs
<1> QED  BY <1>1, <1>2 DEF IInv

\* A step of the printer side writes one row of printers at most.
LEMMA PrinterSideWritesOneRow ==
    ASSUME IInv, PrinterSide
    PROVE  /\ status' = [p \in Printers |-> status'[p]]
           /\ held' = [p \in Printers |-> held'[p]]
           /\ \E q : \A p \in Printers \ {q} : status'[p] = status[p] /\ held'[p] = held[p]
           /\ UNCHANGED crashes
<1> DEFINE Frame == UNCHANGED <<status, held, crashes>>
           Update(q) == /\ \E s : status' = [status EXCEPT ![q] = s]
                        /\ \E h : held' = [held EXCEPT ![q] = h]
                        /\ UNCHANGED crashes
<1> USE DEF Rows!rows, Rows!printer, Rows!heartbeat
<1>0. /\ status = [p \in Printers |-> status[p]]
      /\ held = [p \in Printers |-> held[p]]
  BY DEF IInv, TablesAreFunctions
<1>1. ASSUME Rows!HeartbeatStep PROVE Frame \/ \E q : Update(q)
  <2>1. CASE Rows!BeginHeartbeat
    BY <2>1 DEF Rows!BeginHeartbeat
  <2>2. ASSUME NEW p \in Printers,
               Rows!HeartbeatPoll(p) \/ Rows!HeartbeatPollAborts(p) \/ Rows!HeartbeatOverflow(p)
        PROVE  Frame
    BY <2>2 DEF Rows!HeartbeatPoll, Rows!HeartbeatPollAborts, Rows!HeartbeatOverflow
  <2>3. ASSUME NEW p \in Printers, Rows!HeartbeatWrite(p) PROVE Update(p)
    BY <2>3 DEF Rows!HeartbeatWrite
  <2> QED
    BY <1>1, <2>1, <2>2, <2>3 DEF Rows!HeartbeatStep, Printers, Rows!Printers
<1>2. ASSUME NEW c \in Clients, Rows!ClientStep(c) PROVE Frame \/ \E q : Update(q)
  <2>1. CASE Rows!ClientWrite(c)
    <3>1. held' = [held EXCEPT ![client[c].printer] = held[client[c].printer]]
      BY <1>0, <2>1 DEF Rows!ClientWrite
    <3> QED  BY <2>1, <3>1 DEF Rows!ClientWrite
  <2>2. CASE Rows!ConfirmWrite(c)
    <3>1. status' = [status EXCEPT ![client[c].printer] = status[client[c].printer]]
      BY <1>0, <2>2 DEF Rows!ConfirmWrite
    <3> QED  BY <2>2, <3>1 DEF Rows!ConfirmWrite
  <2>3. CASE ~(Rows!ClientWrite(c) \/ Rows!ConfirmWrite(c))
    BY <1>2, <2>3 DEF Rows!ClientStep, Rows!SendCommand, Rows!ListNext, Rows!ConfirmRead,
       Rows!ClientPoll, Rows!ClientPollFails
  <2> QED  BY <2>1, <2>2, <2>3
<1>3. ASSUME NEW p \in Printers,
             Rows!DeviceChanges(p) \/ Rows!LinkChanges(p) \/ Rows!TimePasses(p)
      PROVE  Frame
  BY <1>3 DEF Rows!DeviceChanges, Rows!LinkChanges, Rows!TimePasses
<1>4. Frame \/ \E q : Update(q)
  BY <1>1, <1>2, <1>3 DEF PrinterSide
<1>5. CASE Frame
  BY <1>0, <1>5
<1>6. CASE \E q : Update(q)
  <2>1. PICK q : Update(q)
    BY <1>6
  <2> QED  BY <1>0, <2>1
<1> QED  BY <1>4, <1>5, <1>6

\* A step of the printer side leaves the jobs alone, and locks only go.
LEMMA PrinterSideKeeps == IInv /\ PrinterSide => IInv'
<1> SUFFICES ASSUME IInv, PrinterSide PROVE IInv'
  OBVIOUS
<1>1. UNCHANGED jobVars
  BY DEF PrinterSide
<1>2. lockedSince' = [d \in Dispatchers |-> {p \in lockedSince[d] : held'[p]}]
  BY DEF PrinterSide, KeepLocks
<1>3. TablesAreFunctions'
  BY <1>1, <1>2, PrinterSideWritesOneRow
     DEF IInv, TablesAreFunctions, jobVars, Jobs, Printers, JobSide!Jobs
<1>4. JobsHavePrinters'
  BY <1>1 DEF IInv, JobsHavePrinters, jobVars, Jobs, Printers, JobSide!Jobs
<1>5. CyclesAvoidLocks'
  BY <1>1, <1>2
     DEF IInv, CyclesAvoidLocks, jobVars, Jobs, Printers, JobSide!Jobs, NoJob, JobSide!NoJob
<1> QED  BY <1>3, <1>4, <1>5 DEF IInv

\* A step that keeps the rows of jobs, asks the printers for nothing but rows,
\* and takes up nothing new keeps the invariant.
LEMMA JobFrame ==
    ASSUME IInv, TablesAreFunctions', UNCHANGED <<printerOf, lockedSince>>,
           \A j \in Jobs :
             /\ jobStatus[j] # "none" => jobStatus'[j] # "none"
             /\ jobStatus'[j] # jobStatus[j] \/ request'[j] # request[j]
                  \/ (j = matched' /\ j # matched) \/ (j = upJob' /\ j # upJob)
                => jobStatus[j] # "none",
           \A d \in Dispatchers : /\ todo'[d] \subseteq todo[d]
                                  /\ \/ claim'[d] = NoJob
                                     \/ /\ claim'[d] = claim[d]
                                        /\ pc[d] \notin {"idle", "scan"}
                                           => pc'[d] \notin {"idle", "scan"}
    PROVE  IInv'
<1>1. JobsHavePrinters'
  BY DEF IInv, JobsHavePrinters, Jobs, JobSide!Jobs, Printers
<1>2. CyclesAvoidLocks'
  BY DEF IInv, CyclesAvoidLocks, Jobs, JobSide!Jobs, Printers, NoJob, JobSide!NoJob
<1> QED  BY <1>1, <1>2 DEF IInv

\* A new row of jobs is in nobody's hands.
LEMMA UploadBeginKeeps ==
    ASSUME IInv, NEW p \in Printers, JobSide!UploadBegin(p), UNCHANGED <<rowVars, lockedSince>>
    PROVE  IInv'
<1> USE DEF IInv, Jobs, NoJob, rowVars
<1>1. PICK j \in Jobs :
        /\ jobStatus[j] = "none"
        /\ jobStatus' = [jobStatus EXCEPT ![j] = "uploading"]
        /\ printerOf' = [printerOf EXCEPT ![j] = p]
        /\ upJob' = j
  BY DEF JobSide!UploadBegin
<1>2. UNCHANGED <<request, pc, todo, claim, matched>>
  BY DEF JobSide!UploadBegin, JobSide!device, JobSide!dispatcher
<1>3. TablesAreFunctions'
  BY <1>1, <1>2 DEF TablesAreFunctions, Printers, JobSide!Jobs
<1>4. JobsHavePrinters'
  BY <1>1, <1>2 DEF JobsHavePrinters, TablesAreFunctions, Printers, JobSide!Jobs
<1>5. CyclesAvoidLocks'
  BY <1>1, <1>2
     DEF CyclesAvoidLocks, TablesAreFunctions, Printers, JobSide!Jobs, JobSide!NoJob
<1> QED  BY <1>3, <1>4, <1>5

\* A job that is picked belongs to a printer that waited its turn.
LEMMA PickJobKeeps ==
    ASSUME IInv, NEW d \in Dispatchers, JobSide!PickJob(d), UNCHANGED <<rowVars, lockedSince>>
    PROVE  IInv'
<1> USE DEF IInv, Jobs, NoJob, rowVars
<1>0. PICK p \in todo[d] :
        /\ \E k \in JobSide!NextQueued(p) : claim' = [claim EXCEPT ![d] = k]
        /\ todo' = [todo EXCEPT ![d] = todo[d] \ {p}]
  BY DEF JobSide!PickJob
<1>1. PICK j \in JobSide!NextQueued(p) : claim' = [claim EXCEPT ![d] = j]
  BY <1>0
<1>2. j \in Jobs /\ printerOf[j] = p /\ jobStatus[j] = "queued"
  BY DEF JobSide!NextQueued, JobSide!QueuedOn
<1>3. UNCHANGED <<jobStatus, printerOf, request, upJob, matched>>
  BY DEF JobSide!PickJob, JobSide!row, JobSide!device, JobSide!uploader
<1>4. pc' = [pc EXCEPT ![d] = "claim"]
  BY DEF JobSide!PickJob
<1>5. TablesAreFunctions'
  BY <1>0, <1>1, <1>3, <1>4 DEF TablesAreFunctions, Printers, JobSide!Jobs
<1>6. JobsHavePrinters'
  BY <1>3 DEF JobsHavePrinters, Printers, JobSide!Jobs
<1>7. CyclesAvoidLocks'
  BY <1>0, <1>1, <1>2, <1>3, <1>4
     DEF CyclesAvoidLocks, TablesAreFunctions, Printers, JobSide!Jobs, JobSide!NoJob
<1> QED  BY <1>5, <1>6, <1>7

\* A cycle takes its printers from the rows as they are: none is locked.
LEMMA CycleBeginsKeeps == ASSUME IInv, NEW d \in Dispatchers, CycleBegins(d) PROVE IInv'
<1> USE DEF IInv, Jobs, NoJob, rowVars
<1>1. /\ todo' = [todo EXCEPT ![d] = {p \in Printers : Candidate[p]}]
      /\ lockedSince' = [lockedSince EXCEPT ![d] = {p \in Printers : held[p]}]
      /\ pc[d] = "idle" /\ pc' = [pc EXCEPT ![d] = "scan"]
      /\ UNCHANGED <<status, held, jobStatus, printerOf, request, claim, upJob, matched>>
  BY DEF CycleBegins, JobSide!BeginCycle, JobSide!row, JobSide!device, JobSide!uploader
<1>2. claim[d] = NoJob
  BY <1>1 DEF CyclesAvoidLocks
<1>3. TablesAreFunctions'
  BY <1>1 DEF TablesAreFunctions, Printers, JobSide!Jobs
<1>4. JobsHavePrinters'
  BY <1>1 DEF JobsHavePrinters, Printers, JobSide!Jobs
<1>5. CyclesAvoidLocks'
  BY <1>1, <1>2 DEF CyclesAvoidLocks, TablesAreFunctions, Candidate
<1> QED  BY <1>3, <1>4, <1>5

\* Everything else on the job side.
LEMMA JobsOnlyKeeps == IInv /\ JobsOnly => IInv'
<1> SUFFICES ASSUME IInv, JobsOnly PROVE IInv'
  OBVIOUS
<1>0. UNCHANGED <<rowVars, lockedSince, status, held>>
  BY DEF JobsOnly, RowsKept, rowVars
<1> USE <1>0 DEF Jobs, NoJob, JobSide!row, JobSide!device, JobSide!dispatcher, JobSide!uploader
<1>i. TablesAreFunctions /\ JobsHavePrinters /\ CyclesAvoidLocks /\ NoJob \notin Jobs
  BY DEF IInv, JobSide!Jobs, JobSide!NoJob
<1>1. ASSUME NEW p \in Printers, JobSide!UploadBegin(p) PROVE IInv'
  BY <1>1, UploadBeginKeeps
<1>2. CASE JobSide!UploadStored \/ JobSide!UploadFails \/ JobSide!UploadAborts
  <2>1. UNCHANGED <<printerOf, request, matched, pc, todo, claim>>
    BY <1>2 DEF JobSide!UploadStored, JobSide!UploadFails, JobSide!UploadAborts
  <2>2. /\ upJob' = upJob \/ upJob' = NoJob
        /\ \/ jobStatus' = jobStatus
           \/ \E s : s # "none" /\ jobStatus' = [jobStatus EXCEPT ![upJob] = s]
    BY <1>2 DEF JobSide!UploadStored, JobSide!UploadFails, JobSide!UploadAborts
  <2>3. TablesAreFunctions'
    BY <1>i, <2>1, <2>2 DEF TablesAreFunctions, Printers, JobSide!Jobs
  <2> QED
    BY <1>i, <2>1, <2>2, <2>3, JobFrame DEF TablesAreFunctions, JobsHavePrinters
<1>3. ASSUME NEW o \in Operators,
             (\E p \in Printers : JobSide!ReorderValidate(o, p)) \/ JobSide!ReorderWrite(o)
      PROVE  IInv'
  <2>1. UNCHANGED <<jobStatus, printerOf, request, matched, upJob, pc, todo, claim>>
    BY <1>3 DEF JobSide!ReorderValidate, JobSide!ReorderWrite
  <2>2. TablesAreFunctions'
    BY <1>i, <2>1 DEF TablesAreFunctions, Printers, JobSide!Jobs
  <2> QED
    BY <1>i, <2>1, <2>2, JobFrame
<1>4. ASSUME NEW d \in Dispatchers, JobSide!PickJob(d) PROVE IInv'
  BY <1>4, PickJobKeeps
<1>5. ASSUME NEW d \in Dispatchers,
             \/ JobSide!SkipPrinter(d) \/ JobSide!EndCycle(d) \/ JobSide!ClaimJob(d)
             \/ JobSide!LoseClaim(d) \/ JobSide!SendStart(d) \/ JobSide!StartSucceeds(d)
             \/ JobSide!StartFails(d) \/ JobSide!CycleAborts(d)
      PROVE  IInv'
  <2>1. UNCHANGED <<printerOf, matched, upJob>>
    BY <1>5 DEF JobSide!SkipPrinter, JobSide!EndCycle, JobSide!ClaimJob, JobSide!LoseClaim,
       JobSide!SendStart, JobSide!StartSucceeds, JobSide!StartFails, JobSide!CycleAborts
  <2>2. /\ \/ todo' = todo \/ todo' = [todo EXCEPT ![d] = {}]
           \/ \E p : todo' = [todo EXCEPT ![d] = todo[d] \ {p}]
        /\ \/ claim' = claim /\ pc' = pc
           \/ claim' = claim /\ (pc[d] = "scan" /\ pc' = [pc EXCEPT ![d] = "idle"])
           \/ claim' = claim /\ (pc' = [pc EXCEPT ![d] = "start"] \/ pc' = [pc EXCEPT ![d] = "reply"])
           \/ claim' = [claim EXCEPT ![d] = NoJob]
              /\ (pc' = [pc EXCEPT ![d] = "scan"] \/ pc' = [pc EXCEPT ![d] = "idle"])
    BY <1>5 DEF JobSide!SkipPrinter, JobSide!EndCycle, JobSide!ClaimJob, JobSide!LoseClaim,
       JobSide!SendStart, JobSide!StartSucceeds, JobSide!StartFails, JobSide!CycleAborts
  <2>3. /\ \/ jobStatus' = jobStatus
           \/ \E s : s # "none" /\ jobStatus' = [jobStatus EXCEPT ![claim[d]] = s]
        /\ request' = request \/ request' = [request EXCEPT ![claim[d]] = "sent"]
    BY <1>5 DEF JobSide!SkipPrinter, JobSide!EndCycle, JobSide!ClaimJob, JobSide!LoseClaim,
       JobSide!SendStart, JobSide!StartSucceeds, JobSide!StartFails, JobSide!CycleAborts
  <2>4. TablesAreFunctions'
    BY <1>i, <2>1, <2>2, <2>3 DEF TablesAreFunctions, Printers, JobSide!Jobs
  <2>5. \A j \in Jobs : jobStatus'[j] # jobStatus[j] \/ request'[j] # request[j]
                          => j = claim[d] /\ jobStatus[j] # "none"
    BY <1>i, <2>3 DEF TablesAreFunctions, CyclesAvoidLocks
  <2>6. \A j \in Jobs : jobStatus[j] # "none" => jobStatus'[j] # "none"
    BY <1>i, <2>3 DEF TablesAreFunctions
  <2>7. \A e \in Dispatchers :
          /\ todo'[e] \subseteq todo[e]
          /\ \/ claim'[e] = NoJob
             \/ claim'[e] = claim[e] /\ (pc[e] \notin {"idle", "scan"}
                                          => pc'[e] \notin {"idle", "scan"})
    BY <1>i, <2>2 DEF TablesAreFunctions
  <2> QED
    BY <2>1, <2>4, <2>5, <2>6, <2>7, JobFrame
<1>6. CASE \/ \E j \in JobSide!Jobs : JobSide!HistoryMatch(j)
           \/ \E outcome \in HistoryStatuses : JobSide!HistoryRecord(outcome)
  <2>1. UNCHANGED <<printerOf, request, upJob, pc, todo, claim>>
    BY <1>6 DEF JobSide!HistoryMatch, JobSide!HistoryRecord
  <2>2. \/ /\ jobStatus' = jobStatus
           /\ matched' \in Jobs /\ jobStatus[matched'] = "printing"
        \/ /\ matched' = NoJob
           /\ \E s \in HistoryStatuses : jobStatus' = [jobStatus EXCEPT ![matched] = s]
    BY <1>6 DEF JobSide!HistoryMatch, JobSide!HistoryRecord
  <2>3. TablesAreFunctions'
    BY <1>i, <2>1, <2>2 DEF TablesAreFunctions, Printers, JobSide!Jobs
  <2> QED
    BY <1>i, <2>1, <2>2, <2>3, JobFrame
       DEF TablesAreFunctions, JobsHavePrinters, HistoryStatuses
<1> QED
  BY <1>1, <1>2, <1>3, <1>4, <1>5, <1>6 DEF JobsOnly, CycleGoesOn

\* A printer takes a start request; nothing that the invariant tells changes.
LEMMA PrintStartsKeeps == ASSUME IInv, NEW j \in Jobs, PrintStarts(j) PROVE IInv'
<1>1. /\ request[j] = "sent" /\ request' = [request EXCEPT ![j] = "accepted"]
      /\ UNCHANGED <<status, held, lockedSince, jobStatus, printerOf, matched, upJob,
                     pc, todo, claim>>
  BY DEF PrintStarts, JobSide!PrinterAccepts, JobSide!row, JobSide!dispatcher, JobSide!uploader
<1>2. TablesAreFunctions'
  BY <1>1 DEF IInv, TablesAreFunctions, Printers, Jobs, JobSide!Jobs
<1> QED
  BY <1>1, <1>2, JobFrame DEF IInv, TablesAreFunctions, JobsHavePrinters

\* A crash ends the cycles, the uploads and the sync.
LEMMA CrashKeeps == IInv /\ Crash => IInv'
<1> SUFFICES ASSUME IInv, Crash PROVE IInv'
  OBVIOUS
<1>1. /\ lockedSince' = [d \in Dispatchers |-> {}]
      /\ pc' = [d \in Dispatchers |-> "idle"]
      /\ todo' = [d \in Dispatchers |-> {}]
      /\ claim' = [d \in Dispatchers |-> NoJob]
      /\ upJob' = NoJob /\ matched' = NoJob
      /\ UNCHANGED <<status, held, jobStatus, printerOf, request>>
  BY DEF Crash, Rows!Restart, JobSide!Crash, Rows!rows, JobSide!row, JobSide!device,
     NoJob, JobSide!NoJob
<1>2. TablesAreFunctions'
  BY <1>1 DEF IInv, TablesAreFunctions, Printers, Jobs, JobSide!Jobs
<1>3. JobsHavePrinters'
  BY <1>1 DEF IInv, JobsHavePrinters, Jobs, JobSide!Jobs, Printers, NoJob, JobSide!NoJob
<1>4. CyclesAvoidLocks'
  BY <1>1 DEF CyclesAvoidLocks, NoJob, JobSide!NoJob
<1> QED  BY <1>2, <1>3, <1>4 DEF IInv

\* Every step of the farm keeps the invariant.
LEMMA StepPreserves == IInv /\ [Next]_vars => IInv'
<1> SUFFICES ASSUME IInv, [Next]_vars PROVE IInv'
  OBVIOUS
<1>1. CASE UNCHANGED vars
  BY <1>1 DEF IInv, TablesAreFunctions, JobsHavePrinters, CyclesAvoidLocks, vars, rowVars,
     jobVars, Jobs, JobSide!Jobs, Printers, NoJob, JobSide!NoJob
<1> QED
  BY <1>1, PrinterSideKeeps, JobsOnlyKeeps, CrashKeeps, CycleBeginsKeeps, PrintStartsKeeps
     DEF Next, Jobs

\* What the cycles, the locks and the tables have to do with each other.
THEOREM FarmInvariant == Spec => []IInv
<1>1. Init => IInv
  BY InitEstablishes
<1>2. IInv /\ [Next]_vars => IInv'
  BY StepPreserves
<1> QED  BY <1>1, <1>2, PTL DEF Spec

\* A printer that is locked when a dispatch cycle begins gets no job from it
\* as long as the lock lasts.
THEOREM LockedPrintersGetNoJob == Spec => []LockedPrinterGetsNoJob
<1>1. IInv => LockedPrinterGetsNoJob
  BY DEF IInv, CyclesAvoidLocks, LockedPrinterGetsNoJob, NoJob
<1> QED  BY <1>1, FarmInvariant, PTL

-----------------------------------------------------------------------------
(* The farm implements its two sides *)

\* To dispatch, a step of the printer side is a row of printers that becomes,
\* or is no longer, one of an idle and unlocked printer.
LEMMA PrinterSideIsAWrite ==
    ASSUME IInv, PrinterSide
    PROVE  UNCHANGED JobSide!vars \/ \E p \in Printers : JobSide!PrinterRowWritten(p)
<1>1. UNCHANGED <<jobVars, crashes>>
  BY PrinterSideWritesOneRow DEF PrinterSide
<1>2. PICK q : \A p \in Printers \ {q} : status'[p] = status[p] /\ held'[p] = held[p]
  BY PrinterSideWritesOneRow
<1>3. /\ Candidate \in [Printers -> BOOLEAN] /\ Candidate' \in [Printers -> BOOLEAN]
      /\ \A p \in Printers \ {q} : Candidate'[p] = Candidate[p]
  BY <1>2 DEF Candidate, Printers
<1>4. CASE Candidate' = Candidate
  BY <1>1, <1>4 DEF jobVars, JobSide!vars, JobSide!row, JobSide!device, JobSide!dispatcher,
     JobSide!uploader
<1>5. CASE Candidate' # Candidate
  <2>1. q \in Printers /\ Candidate'[q] = ~Candidate[q]
    BY <1>3, <1>5
  <2>2. Candidate' = [Candidate EXCEPT ![q] = ~Candidate[q]]
    BY <1>3, <2>1
  <2> QED
    BY <1>1, <2>1, <2>2 DEF jobVars, JobSide!PrinterRowWritten, JobSide!row, JobSide!device,
       JobSide!dispatcher, JobSide!uploader
<1> QED  BY <1>4, <1>5

\* What is shown of the job side alone holds in the farm.
THEOREM FarmImplementsJobSide == Spec => ImplementsJobSide
<1>1. Init => JobSide!Init
  BY DEF Init
<1>2. IInv /\ [Next]_vars => [JobSide!Next]_(JobSide!vars)
  <2> SUFFICES ASSUME IInv, [Next]_vars PROVE JobSide!Next \/ UNCHANGED JobSide!vars
    OBVIOUS
  <2>1. CASE PrinterSide
    BY <2>1, PrinterSideIsAWrite DEF JobSide!Next
  <2>2. CASE JobsOnly
    <3>1. ASSUME NEW d \in Dispatchers,
                 \/ JobSide!SkipPrinter(d) \/ JobSide!PickJob(d) \/ JobSide!EndCycle(d)
                 \/ JobSide!ClaimJob(d) \/ JobSide!LoseClaim(d) \/ JobSide!SendStart(d)
                 \/ JobSide!StartSucceeds(d) \/ JobSide!StartFails(d)
                 \/ JobSide!CycleAborts(d)
          PROVE  JobSide!DispatchStep(d)
      BY <3>1 DEF JobSide!DispatchStep
    <3>2. CASE \E d \in Dispatchers : JobSide!DispatchStep(d)
      BY <3>2 DEF JobSide!Next
    <3>3. CASE ~\E d \in Dispatchers : JobSide!DispatchStep(d)
      BY <2>2, <3>1, <3>3 DEF JobsOnly, CycleGoesOn, JobSide!Next, HistoryStatuses,
         JobSide!HistoryStatuses
    <3> QED  BY <3>2, <3>3
  <2>3. CASE Crash
    BY <2>3 DEF Crash, JobSide!Next
  <2>4. ASSUME NEW d \in Dispatchers, CycleBegins(d) PROVE JobSide!Next
    BY <2>4 DEF CycleBegins, JobSide!Next, JobSide!DispatchStep
  <2>5. ASSUME NEW j \in JobSide!Jobs, PrintStarts(j) PROVE JobSide!Next
    BY <2>5 DEF PrintStarts, JobSide!Next
  <2>6. CASE UNCHANGED vars
    BY <2>6 DEF vars, rowVars, jobVars, JobSide!vars, JobSide!row, JobSide!device,
       JobSide!dispatcher, JobSide!uploader, Candidate, Printers
  <2> QED  BY <2>1, <2>2, <2>3, <2>4, <2>5, <2>6 DEF Next
<1> QED
  BY <1>1, <1>2, FarmInvariant, PTL DEF Spec, ImplementsJobSide, JobSide!Spec

\* And so does what is shown of the printer side alone.
THEOREM FarmImplementsPrinterSide == Spec => ImplementsPrinterSide
<1>1. Init => Rows!Init
  BY DEF Init
<1>2. IInv /\ [Next]_vars => [Rows!Next]_(Rows!vars)
  <2> SUFFICES ASSUME IInv, [Next]_vars PROVE Rows!Next \/ UNCHANGED Rows!vars
    OBVIOUS
  <2> USE DEF rowVars, Rows!vars, Rows!rows, Rows!printer, Rows!heartbeat
  <2>1. CASE PrinterSide
    BY <2>1 DEF PrinterSide, Rows!Next, Printers, Rows!Printers
  <2>2. CASE JobsOnly
    <3>1. UNCHANGED <<rowVars, crashes>>
      BY <2>2 DEF JobsOnly, RowsKept, CycleGoesOn, JobSide!UploadBegin, JobSide!UploadStored, JobSide!UploadFails,
         JobSide!UploadAborts, JobSide!ReorderValidate, JobSide!ReorderWrite,
         JobSide!SkipPrinter, JobSide!PickJob, JobSide!EndCycle, JobSide!ClaimJob,
         JobSide!LoseClaim, JobSide!SendStart, JobSide!StartSucceeds, JobSide!StartFails,
         JobSide!CycleAborts, JobSide!HistoryMatch, JobSide!HistoryRecord
    <3> QED  BY <3>1
  <2>3. CASE Crash
    BY <2>3 DEF Crash, Rows!Next
  <2>4. ASSUME NEW d \in Dispatchers, CycleBegins(d) PROVE UNCHANGED Rows!vars
    BY <2>4 DEF CycleBegins, JobSide!BeginCycle
  <2>5. ASSUME NEW j \in JobSide!Jobs, PrintStarts(j) PROVE Rows!Next
    <3>1. printerOf[j] \in Printers
      BY <2>5 DEF PrintStarts, JobSide!PrinterAccepts, IInv, JobsHavePrinters, Jobs
    <3>2. Rows!DeviceChanges(printerOf[j])
      BY <2>5 DEF PrintStarts, JobSide!PrinterAccepts, Rows!DeviceChanges
    <3> QED  BY <3>1, <3>2 DEF Rows!Next, Printers, Rows!Printers
  <2>6. CASE UNCHANGED vars
    BY <2>6 DEF vars
  <2> QED  BY <2>1, <2>2, <2>3, <2>4, <2>5, <2>6 DEF Next
<1> QED
  BY <1>1, <1>2, FarmInvariant, PTL DEF Spec, ImplementsPrinterSide, Rows!Spec

-----------------------------------------------------------------------------
(* What the parts were shown to do, they do in the farm *)

\* The theorems about the two sides, for the farm's tables.
JobProofs == INSTANCE DispatchProofs WITH
    candidate <- Candidate, JobQueuePrinters <- {}, MaxNativeRuns <- 0

RowProofs == INSTANCE PrinterRowProofs WITH MaxRestarts <- MaxCrashes, restarts <- crashes

\* The farm's constants are such as the theorems assume.
LEMMA PartsAssumptions ==
    /\ JobProofs!PrintersAssumption /\ JobProofs!BoundsAssumption
    /\ RowProofs!ConstantsAssumption
<1>1. JobProofs!IsFiniteSet(Printers)
  <2>1. IsFiniteSet(Printers)
    BY ConstantsAssumption, FS_Interval DEF Printers
  <2> QED  BY <2>1 DEF IsFiniteSet, JobProofs!IsFiniteSet
<1> QED
  BY <1>1, ConstantsAssumption
     DEF JobProofs!PrintersAssumption, JobProofs!BoundsAssumption,
         RowProofs!ConstantsAssumption, RowProofs!AllRequests, RowProofs!AllAnswers,
         RowProofs!PrintCommands, RowProofs!PowerCommands, RowProofs!PrinterStatuses,
         Rows!AllRequests, Rows!AllAnswers, Rows!PrintCommands, Rows!PowerCommands,
         PrinterStatuses

\* The job side and the instance its theorems are about have the same initial
\* states and the same steps: they differ in the names of the definitions.
LEMMA SameJobSteps ==
    /\ JobSide!Init <=> JobProofs!Init
    /\ [JobSide!Next]_(JobSide!vars) <=> [JobProofs!Next]_(JobProofs!vars)
<1> USE DEF
      JobSide!Jobs, JobSide!NoJob, JobSide!row, JobSide!device, JobSide!dispatcher,
          JobSide!uploader, JobSide!vars, JobSide!NoReorder, JobSide!Init,
          JobSide!QueuedOn, JobSide!Precedes, JobSide!NextQueued, JobSide!UploadBegin,
          JobSide!UploadStored, JobSide!UploadFails, JobSide!UploadAborts,
          JobSide!Enqueue, JobSide!ReorderValidate, JobSide!Reprioritised,
          JobSide!ReorderWrite, JobSide!ReorderNative, JobSide!BeginCycle,
          JobSide!SkipPrinter, JobSide!PickJob, JobSide!EndCycle, JobSide!ClaimJob,
          JobSide!LoseClaim, JobSide!SendStart, JobSide!StartSucceeds,
          JobSide!StartFails, JobSide!CycleAborts, JobSide!DispatchStep,
          JobSide!HistoryMatch, JobSide!HistoryRecord, JobSide!PrinterAccepts,
          JobSide!NativeStart, JobSide!PrinterRowWritten, JobSide!Crash, JobSide!Next,
          JobSide!HistoryStatuses, JobSide!UnclaimedStates, JobSide!Cardinality,
          JobSide!Bijection, JobSide!Injection, JobSide!Surjection, JobSide!IsInjective,
          JobProofs!Jobs, JobProofs!NoJob, JobProofs!row, JobProofs!device,
          JobProofs!dispatcher, JobProofs!uploader, JobProofs!vars, JobProofs!NoReorder,
          JobProofs!Init, JobProofs!QueuedOn, JobProofs!Precedes, JobProofs!NextQueued,
          JobProofs!UploadBegin, JobProofs!UploadStored, JobProofs!UploadFails,
          JobProofs!UploadAborts, JobProofs!Enqueue, JobProofs!ReorderValidate,
          JobProofs!Reprioritised, JobProofs!ReorderWrite, JobProofs!ReorderNative,
          JobProofs!BeginCycle, JobProofs!SkipPrinter, JobProofs!PickJob,
          JobProofs!EndCycle, JobProofs!ClaimJob, JobProofs!LoseClaim,
          JobProofs!SendStart, JobProofs!StartSucceeds, JobProofs!StartFails,
          JobProofs!CycleAborts, JobProofs!DispatchStep, JobProofs!HistoryMatch,
          JobProofs!HistoryRecord, JobProofs!PrinterAccepts, JobProofs!NativeStart,
          JobProofs!PrinterRowWritten, JobProofs!Crash, JobProofs!Next,
          JobProofs!HistoryStatuses, JobProofs!UnclaimedStates, JobProofs!Cardinality,
          JobProofs!Bijection, JobProofs!Injection, JobProofs!Surjection,
          JobProofs!IsInjective
<1>1. JobSide!Init <=> JobProofs!Init
  OBVIOUS
<1>2. [JobSide!Next]_(JobSide!vars) <=> [JobProofs!Next]_(JobProofs!vars)
  OBVIOUS
<1> QED  BY ONLY <1>1, <1>2

\* So they are one specification.
LEMMA SameJobSide == JobSide!Spec <=> JobProofs!Spec
  BY SameJobSteps, PTL DEF JobSide!Spec, JobProofs!Spec

\* And so on the printer side.
LEMMA SameRowSteps ==
    /\ Rows!Init <=> RowProofs!Init
    /\ [Rows!Next]_(Rows!vars) <=> [RowProofs!Next]_(RowProofs!vars)
<1> USE DEF
      Rows!Printers, Rows!PrintCommands, Rows!PowerCommands, Rows!rows, Rows!printer,
          Rows!heartbeat, Rows!vars, Rows!Unreachable, Rows!NothingSeen, Rows!NoRow,
          Rows!Working, Rows!IdleClient, Rows!RowOf, Rows!Init, Rows!DeviceMoves,
          Rows!CommandMoves, Rows!DeviceChanges, Rows!LinkChanges, Rows!TimePasses,
          Rows!BeginHeartbeat, Rows!Current, Rows!HeartbeatPoll,
          Rows!HeartbeatPollAborts, Rows!HeldAfter, Rows!HeartbeatWrite,
          Rows!HeartbeatOverflow, Rows!HeartbeatStep, Rows!SendCommand, Rows!ListNext,
          Rows!ClientPoll, Rows!ClientPollFails, Rows!ClientWrite, Rows!ConfirmRead,
          Rows!ConfirmWrite, Rows!ClientStep, Rows!Restart, Rows!Next,
          Rows!PrinterStatuses, Rows!ActiveJobStatuses, Rows!HoldTriggerStatuses,
          RowProofs!Printers, RowProofs!PrintCommands, RowProofs!PowerCommands,
          RowProofs!rows, RowProofs!printer, RowProofs!heartbeat, RowProofs!vars,
          RowProofs!Unreachable, RowProofs!NothingSeen, RowProofs!NoRow,
          RowProofs!Working, RowProofs!IdleClient, RowProofs!RowOf, RowProofs!Init,
          RowProofs!DeviceMoves, RowProofs!CommandMoves, RowProofs!DeviceChanges,
          RowProofs!LinkChanges, RowProofs!TimePasses, RowProofs!BeginHeartbeat,
          RowProofs!Current, RowProofs!HeartbeatPoll, RowProofs!HeartbeatPollAborts,
          RowProofs!HeldAfter, RowProofs!HeartbeatWrite, RowProofs!HeartbeatOverflow,
          RowProofs!HeartbeatStep, RowProofs!SendCommand, RowProofs!ListNext,
          RowProofs!ClientPoll, RowProofs!ClientPollFails, RowProofs!ClientWrite,
          RowProofs!ConfirmRead, RowProofs!ConfirmWrite, RowProofs!ClientStep,
          RowProofs!Restart, RowProofs!Next, RowProofs!PrinterStatuses,
          RowProofs!ActiveJobStatuses, RowProofs!HoldTriggerStatuses
<1>1. Rows!Init <=> RowProofs!Init
  OBVIOUS
<1>2. [Rows!Next]_(Rows!vars) <=> [RowProofs!Next]_(RowProofs!vars)
  OBVIOUS
<1> QED  BY ONLY <1>1, <1>2

\* So these are one specification, too.
LEMMA SameRows == Rows!Spec <=> RowProofs!Spec
  BY SameRowSteps, PTL DEF Rows!Spec, RowProofs!Spec

\* In the farm, too, a job's start request is sent once at most.
THEOREM FarmStartsJobsOnce == Spec => []JobSide!StartedAtMostOnce
<1>1. JobProofs!Spec => []JobProofs!StartedAtMostOnce
  BY PartsAssumptions, JobProofs!StartedOnce
     DEF JobProofs!PrintersAssumption, JobProofs!BoundsAssumption
<1>2. JobProofs!StartedAtMostOnce <=> JobSide!StartedAtMostOnce
  BY DEF JobProofs!StartedAtMostOnce, JobSide!StartedAtMostOnce, JobProofs!Jobs, JobSide!Jobs
<1> QED  BY <1>1, <1>2, FarmImplementsJobSide, SameJobSide, PTL DEF ImplementsJobSide

\* In the farm, too, jobs that no reorder has named are claimed in the order of
\* their upload.
THEOREM FarmClaimsInOrder == Spec => JobSide!ClaimedInUploadOrder
<1>1. JobProofs!Spec => JobProofs!ClaimedInUploadOrder
  BY PartsAssumptions, JobProofs!UploadOrderIsKept
     DEF JobProofs!PrintersAssumption, JobProofs!BoundsAssumption
<1>2. JobProofs!ClaimedInUploadOrder <=> JobSide!ClaimedInUploadOrder
  BY PTL DEF JobProofs!ClaimedInUploadOrder, JobSide!ClaimedInUploadOrder, JobProofs!Jobs, JobSide!Jobs,
     JobProofs!vars, JobProofs!row, JobProofs!device, JobProofs!dispatcher, JobProofs!uploader,
     JobSide!vars, JobSide!row, JobSide!device, JobSide!dispatcher, JobSide!uploader
<1> QED  BY <1>1, <1>2, FarmImplementsJobSide, SameJobSide, PTL DEF ImplementsJobSide

\* The farm implements the abstract life of a job.
THEOREM FarmImplementsLifecycle == Spec => JobSide!ImplementsLifecycle
<1>1. JobProofs!Spec => JobProofs!ImplementsLifecycle
  BY PartsAssumptions, JobProofs!LifecycleRefinement
     DEF JobProofs!PrintersAssumption, JobProofs!BoundsAssumption
<1>2. JobProofs!ImplementsLifecycle <=> JobSide!ImplementsLifecycle
  BY PTL DEF JobProofs!ImplementsLifecycle, JobSide!ImplementsLifecycle, JobProofs!Jobs, JobSide!Jobs,
     JobProofs!Lifecycle!Spec, JobSide!Lifecycle!Spec, JobProofs!Lifecycle!vars, JobSide!Lifecycle!vars,
     JobProofs!Lifecycle!Init, JobSide!Lifecycle!Init, JobProofs!Lifecycle!Next, JobSide!Lifecycle!Next,
     JobProofs!Lifecycle!Move, JobSide!Lifecycle!Move,
     JobProofs!Lifecycle!Submit, JobSide!Lifecycle!Submit, JobProofs!Lifecycle!Store, JobSide!Lifecycle!Store,
     JobProofs!Lifecycle!Reject, JobSide!Lifecycle!Reject, JobProofs!Lifecycle!Claim, JobSide!Lifecycle!Claim,
     JobProofs!Lifecycle!Send, JobSide!Lifecycle!Send, JobProofs!Lifecycle!Fail, JobSide!Lifecycle!Fail,
     JobProofs!Lifecycle!Record, JobSide!Lifecycle!Record,
     JobProofs!Lifecycle!HistoryStatuses, JobSide!Lifecycle!HistoryStatuses,
     JobProofs!Lifecycle!UnclaimedStates, JobSide!Lifecycle!UnclaimedStates
<1> QED  BY <1>1, <1>2, FarmImplementsJobSide, SameJobSide, PTL DEF ImplementsJobSide

\* In the farm, too, a lock goes only for the reasons the code names.
THEOREM FarmKeepsHolds == Spec => Rows!HoldIsNeverLost
<1>1. RowProofs!Spec => RowProofs!HoldIsNeverLost
  BY PartsAssumptions, RowProofs!HoldsAreKept DEF RowProofs!ConstantsAssumption
<1>2. RowProofs!HoldIsNeverLost <=> Rows!HoldIsNeverLost
  BY PTL DEF RowProofs!HoldIsNeverLost, Rows!HoldIsNeverLost, RowProofs!Printers, Rows!Printers,
     RowProofs!vars, RowProofs!rows, RowProofs!printer, RowProofs!heartbeat,
     Rows!vars, Rows!rows, Rows!printer, Rows!heartbeat
<1> QED  BY <1>1, <1>2, FarmImplementsPrinterSide, SameRows, PTL DEF ImplementsPrinterSide
=============================================================================
