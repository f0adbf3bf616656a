--------------------------- MODULE DispatchProofs ---------------------------
(***************************************************************************)
(* Theorems about Dispatch, for any number of printers, jobs, dispatcher   *)
(* and operator threads and crashes.                                       *)
(***************************************************************************)
EXTENDS Dispatch, FiniteSetTheorems, TLAPS

-----------------------------------------------------------------------------
(* Lemmas about the operators of the model *)

\* The ids of a valid reorder request form a sequence of jobs.
LEMMA ReorderIdsAreSeq ==
    ASSUME NEW queued \in SUBSET Jobs,
           NEW ids \in Bijection(1 .. Cardinality(queued), queued)
    PROVE  ids \in Seq(Jobs)
<1>1. IsFiniteSet(Jobs)
  BY BoundsAssumption, FS_Interval DEF Jobs
<1>2. Cardinality(queued) \in Nat
  BY <1>1, FS_Subset, FS_CardinalityType
<1>3. ids \in [1 .. Cardinality(queued) -> Jobs]
  BY DEF Bijection, Injection, Surjection
<1> QED  BY <1>2, <1>3

\* Counting one more of something keeps an array of counters an array of counters.
LEMMA IncrementType ==
    ASSUME NEW S, NEW f \in [S -> Nat], NEW x
    PROVE  [f EXCEPT ![x] = @ + 1] \in [S -> Nat]
<1> SUFFICES ASSUME NEW y \in S PROVE [f EXCEPT ![x] = @ + 1][y] \in Nat
  OBVIOUS
<1>1. f[y] \in Nat /\ f[y] + 1 \in Nat
  OBVIOUS
<1>2. [f EXCEPT ![x] = @ + 1][y] = IF y = x THEN f[y] + 1 ELSE f[y]
  OBVIOUS
<1> QED  BY <1>1, <1>2

\* The priorities a reorder writes are natural numbers.
LEMMA ReprioritisedType ==
    ASSUME priority \in [Jobs -> Nat], NEW ids \in Seq(Jobs)
    PROVE  Reprioritised(ids) \in [Jobs -> Nat]
<1> SUFFICES ASSUME NEW j \in Jobs, \E i \in 1 .. Len(ids) : ids[i] = j
             PROVE  Len(ids) + 1 - (CHOOSE i \in 1 .. Len(ids) : ids[i] = j) \in Nat
  BY DEF Reprioritised
<1> DEFINE i == CHOOSE k \in 1 .. Len(ids) : ids[k] = j
<1>1. i \in 1 .. Len(ids)
  OBVIOUS
<1>2. Len(ids) \in Nat
  OBVIOUS
<1> HIDE DEF i
<1>3. Len(ids) + 1 - i \in Nat
  BY <1>1, <1>2
<1> QED  BY <1>3 DEF i

-----------------------------------------------------------------------------
\* Every variable keeps its type: the columns stay within the values the CHECK
\* constraints of schema.py admit.
LEMMA TypeOKInit == Init => TypeOK
  BY BoundsAssumption DEF Init, TypeOK, JobStates, JobStatuses, HistoryStatuses,
     NoReorder, NoJob, Jobs

LEMMA TypeOKNext == TypeOK /\ UploadOwnsItsJob /\ [Next]_vars => TypeOK'
<1> SUFFICES ASSUME TypeOK, UploadOwnsItsJob, [Next]_vars PROVE TypeOK'
  OBVIOUS
<1> USE DEF TypeOK, row, device, dispatcher, uploader
<1>0. NoReorder \in [printer : Printers \cup {NoPrinter}, ids : Seq(Jobs)]
  BY DEF NoReorder
<1>1. ASSUME NEW p \in Printers, UploadBegin(p) PROVE TypeOK'
  <2>1. PICK j \in Jobs :
          /\ jobStatus' = [jobStatus EXCEPT ![j] = "uploading"]
          /\ printerOf' = [printerOf EXCEPT ![j] = p]
          /\ \E second \in {IF j = 1 THEN 0 ELSE created[j - 1],
                            (IF j = 1 THEN 0 ELSE created[j - 1]) + 1} :
                created' = [created EXCEPT ![j] = second]
          /\ upJob' = j
    BY <1>1 DEF UploadBegin
  <2>2. (IF j = 1 THEN 0 ELSE created[j - 1]) \in Nat
    BY BoundsAssumption DEF Jobs
  <2>3. created' \in [Jobs -> Nat]
    BY <2>1, <2>2
  <2> QED  BY <1>1, <2>1, <2>3 DEF UploadBegin, JobStates, JobStatuses
<1>2. ASSUME NEW p \in Printers, PrinterRowWritten(p) PROVE TypeOK'
  BY <1>2 DEF PrinterRowWritten
<1>3. CASE UploadStored
  BY <1>3 DEF UploadStored, JobStates, JobStatuses
<1>4. CASE UploadFails
  BY <1>4 DEF UploadFails, JobStates, JobStatuses, HistoryStatuses
<1>5. CASE UploadAborts
  BY <1>5 DEF UploadAborts
<1>6. CASE Enqueue
  <2>1. upJob \in Jobs /\ printerOf[upJob] \in JobQueuePrinters
    BY <1>6 DEF Enqueue, UploadOwnsItsJob
  <2>2. Append(native[printerOf[upJob]], upJob) \in Seq(Jobs)
    BY <2>1
  <2> QED  BY <1>6, <2>1, <2>2 DEF Enqueue
<1>7. ASSUME NEW o \in Operators, NEW p \in Printers, ReorderValidate(o, p) PROVE TypeOK'
  <2>1. QueuedOn(p) \in SUBSET Jobs
    BY DEF QueuedOn
  <2>2. PICK ids \in Bijection(1 .. Cardinality(QueuedOn(p)), QueuedOn(p)) :
          reorder' = [reorder EXCEPT ![o] = [printer |-> p, ids |-> ids]]
    BY <1>7 DEF ReorderValidate
  <2>3. ids \in Seq(Jobs)
    BY <2>1, ReorderIdsAreSeq
  <2> QED  BY <1>7, <2>2, <2>3 DEF ReorderValidate
<1>8. ASSUME NEW o \in Operators, ReorderWrite(o) PROVE TypeOK'
  <2>1. reorder[o].ids \in Seq(Jobs)
    OBVIOUS
  <2>2. priority' \in [Jobs -> Nat]
    BY <1>8, <2>1, ReprioritisedType DEF ReorderWrite
  <2> QED  BY <1>0, <1>8, <2>2 DEF ReorderWrite
<1>9. ASSUME NEW o \in Operators, ReorderNative(o) PROVE TypeOK'
  <2>1. reorder[o].ids \in Seq(Jobs)
    OBVIOUS
  <2>2. native' \in [JobQueuePrinters -> Seq(Jobs)]
    BY <1>9, <2>1 DEF ReorderNative
  <2> QED  BY <1>0, <1>9, <2>2 DEF ReorderNative
<1>10. ASSUME NEW d \in Dispatchers, DispatchStep(d) PROVE TypeOK'
  <2>1. CASE BeginCycle(d)
    BY <2>1 DEF BeginCycle
  <2>2. CASE SkipPrinter(d)
    BY <2>2 DEF SkipPrinter
  <2>3. CASE PickJob(d)
    BY <2>3 DEF PickJob, NextQueued, QueuedOn
  <2>4. CASE EndCycle(d)
    BY <2>4 DEF EndCycle
  <2>5. CASE ClaimJob(d)
    BY <2>5 DEF ClaimJob, JobStates, JobStatuses
  <2>6. CASE LoseClaim(d)
    BY <2>6 DEF LoseClaim
  <2>7. CASE SendStart(d)
    <3>1. starts' \in [Jobs -> Nat]
      BY <2>7, IncrementType DEF SendStart
    <3>2. request' \in [Jobs -> {"none", "sent", "accepted"}]
      BY <2>7 DEF SendStart
    <3>3. pc' \in [Dispatchers -> {"idle", "scan", "claim", "start", "reply"}]
      BY <2>7 DEF SendStart
    <3> QED  BY <2>7, <3>1, <3>2, <3>3 DEF SendStart
  <2>8. CASE StartSucceeds(d)
    BY <2>8 DEF StartSucceeds
  <2>9. CASE StartFails(d)
    BY <2>9 DEF StartFails, JobStates, JobStatuses, HistoryStatuses
  <2>10. CASE CycleAborts(d)
    BY <2>10 DEF CycleAborts
  <2> QED
    BY <1>10, <2>1, <2>2, <2>3, <2>4, <2>5, <2>6, <2>7, <2>8, <2>9, <2>10
    DEF DispatchStep
<1>11. ASSUME NEW j \in Jobs, HistoryMatch(j) PROVE TypeOK'
  BY <1>11 DEF HistoryMatch
<1>12. ASSUME NEW j \in Jobs, PrinterAccepts(j) PROVE TypeOK'
  BY <1>12 DEF PrinterAccepts
<1>13. ASSUME NEW outcome \in HistoryStatuses, HistoryRecord(outcome) PROVE TypeOK'
  <2>1. Append(history[matched], outcome) \in Seq(HistoryStatuses)
    BY <1>13 DEF HistoryRecord
  <2> QED  BY <1>13, <2>1 DEF HistoryRecord, JobStates, JobStatuses
<1>14. ASSUME NEW p \in JobQueuePrinters, NativeStart(p) PROVE TypeOK'
  <2>1. Head(native[p]) \in Jobs /\ Tail(native[p]) \in Seq(Jobs)
    BY <1>14 DEF NativeStart
  <2>2. nativeRuns' \in [Jobs -> Nat]
    BY <1>14, IncrementType DEF NativeStart
  <2>3. native' \in [JobQueuePrinters -> Seq(Jobs)]
    BY <1>14, <2>1 DEF NativeStart
  <2> QED  BY <1>14, <2>2, <2>3 DEF NativeStart
<1>15. CASE Crash
  BY <1>15 DEF Crash, NoReorder
<1>16. CASE UNCHANGED vars
  BY <1>16 DEF vars
<1> QED
  BY <1>1, <1>2, <1>3, <1>4, <1>5, <1>6, <1>7, <1>8, <1>9, <1>10, <1>11,
     <1>12, <1>13, <1>14, <1>15, <1>16 DEF Next

-----------------------------------------------------------------------------
(* Ownership of jobs: the inductive invariant *)

LEMMA IInvInit == Init => IInv
<1> SUFFICES ASSUME Init PROVE IInv
  OBVIOUS
<1>1. TypeOK
  BY TypeOKInit
<1>2. UploadOwnsItsJob /\ MatchIsFresh /\ ClaimIsExclusive
  BY DEF Init, UploadOwnsItsJob, MatchIsFresh, ClaimIsExclusive
<1>3. UnclaimedIsUntouched /\ StartedAtMostOnce /\ OneRecordPerJob /\ RecordMatchesStatus
  BY DEF Init, UnclaimedIsUntouched, StartedAtMostOnce, OneRecordPerJob,
     RecordMatchesStatus
<1> QED  BY <1>1, <1>2, <1>3 DEF IInv

\* Steps that touch neither a job's status, its history, its start requests
\* nor anybody's hold on it keep the invariant.
LEMMA FrameStep ==
    ASSUME IInv, TypeOK',
           UNCHANGED <<jobStatus, printerOf, history, pc, claim, upPc, upJob,
                       matched, starts>>
    PROVE  IInv'
  BY DEF IInv, UploadOwnsItsJob, UnclaimedIsUntouched, ClaimIsExclusive,
     MatchIsFresh, StartedAtMostOnce, OneRecordPerJob, RecordMatchesStatus

\* Steps of the upload handler.
LEMMA UploadStep ==
    ASSUME IInv, TypeOK',
           (\E p \in Printers : UploadBegin(p))
             \/ UploadStored \/ UploadFails \/ UploadAborts \/ Enqueue
    PROVE  IInv'
<1> USE DEF IInv, row, device, dispatcher, UploadOwnsItsJob,
        UnclaimedIsUntouched, ClaimIsExclusive, MatchIsFresh,
        StartedAtMostOnce, OneRecordPerJob, RecordMatchesStatus, UnclaimedStates
<1>1. ASSUME NEW p \in Printers, UploadBegin(p) PROVE IInv'
  <2>1. PICK j \in Jobs :
          /\ jobStatus[j] = "none"
          /\ jobStatus' = [jobStatus EXCEPT ![j] = "uploading"]
          /\ upJob' = j
    BY <1>1 DEF UploadBegin
  <2>2. /\ UNCHANGED <<history, pc, claim, matched, starts>>
        /\ upPc' = "http" /\ jobStatus'[j] = "uploading"
        /\ \A k \in Jobs \ {j} : jobStatus'[k] = jobStatus[k]
    BY <1>1, <2>1 DEF UploadBegin, TypeOK
  <2>3. UploadOwnsItsJob'
    BY <2>1, <2>2
  <2>4. UnclaimedIsUntouched' /\ StartedAtMostOnce' /\ OneRecordPerJob'
    BY <2>1, <2>2
  <2>5. ClaimIsExclusive'
    BY <2>1, <2>2
  <2>6. MatchIsFresh'
    BY <2>1, <2>2 DEF TypeOK
  <2>7. RecordMatchesStatus'
    BY <2>1, <2>2
  <2> QED  BY <2>3, <2>4, <2>5, <2>6, <2>7
<1>2. CASE UploadStored
  <2>1. upJob \in Jobs /\ jobStatus[upJob] = "uploading"
    BY <1>2 DEF UploadStored
  <2> QED  BY <1>2, <2>1 DEF UploadStored, TypeOK
<1>3. CASE UploadFails
  <2>1. upJob \in Jobs /\ jobStatus[upJob] = "uploading"
    BY <1>3 DEF UploadFails
  <2> QED  BY <1>3, <2>1 DEF UploadFails, TypeOK
<1>4. CASE UploadAborts
  BY <1>4 DEF UploadAborts
<1>5. CASE Enqueue
  BY <1>5 DEF Enqueue
<1> QED  BY <1>1, <1>2, <1>3, <1>4, <1>5

\* Steps of a dispatcher.
LEMMA DispatcherStep ==
    ASSUME IInv, TypeOK', NEW d \in Dispatchers, DispatchStep(d)
    PROVE  IInv'
<1> USE DEF IInv, row, device, uploader, UploadOwnsItsJob,
        UnclaimedIsUntouched, ClaimIsExclusive, MatchIsFresh,
        StartedAtMostOnce, OneRecordPerJob, RecordMatchesStatus, UnclaimedStates
<1>1. CASE BeginCycle(d)
  BY <1>1 DEF BeginCycle, TypeOK
<1>2. CASE SkipPrinter(d)
  BY <1>2, FrameStep DEF SkipPrinter
<1>3. CASE PickJob(d)
  <2>1. PICK j \in Jobs : claim' = [claim EXCEPT ![d] = j]
    BY <1>3 DEF PickJob, NextQueued, QueuedOn
  <2> QED  BY <1>3, <2>1 DEF PickJob, TypeOK
<1>4. CASE EndCycle(d)
  BY <1>4 DEF EndCycle, TypeOK
<1>5. CASE ClaimJob(d)
  <2>1. /\ claim[d] \in Jobs
        /\ jobStatus[claim[d]] = "queued"
        /\ starts[claim[d]] = 0
        /\ \A e \in Dispatchers : pc[e] \in {"start", "reply"} => claim[e] # claim[d]
    BY <1>5 DEF ClaimJob
  <2> QED  BY <1>5, <2>1 DEF ClaimJob, TypeOK
<1>6. CASE LoseClaim(d)
  BY <1>6 DEF LoseClaim, TypeOK
<1>7. CASE SendStart(d)
  <2>1. /\ claim[d] \in Jobs
        /\ starts[claim[d]] = 0
    BY <1>7 DEF SendStart
  <2>2. starts' = [starts EXCEPT ![claim[d]] = 0 + 1]
    BY <1>7, <2>1 DEF SendStart
  <2>3. starts' = [starts EXCEPT ![claim[d]] = 1]
    BY <2>2
  <2>4. UNCHANGED <<jobStatus, printerOf, history, upPc, upJob, matched, claim>>
    BY <1>7 DEF SendStart
  <2>5. jobStatus[claim[d]] \notin UnclaimedStates
    BY <1>7 DEF SendStart
  <2>6. \A j \in Jobs : starts'[j] = IF j = claim[d] THEN 1 ELSE starts[j]
    BY <2>3 DEF TypeOK
  <2>7. UploadOwnsItsJob' /\ MatchIsFresh' /\ OneRecordPerJob'
    BY <2>4
  <2>8. UnclaimedIsUntouched'
    BY <2>4, <2>5, <2>6
  <2>9. ClaimIsExclusive'
    BY <1>7, <2>1, <2>4, <2>6 DEF SendStart, TypeOK
  <2>10. StartedAtMostOnce' /\ RecordMatchesStatus'
    BY <2>4, <2>6
  <2> QED  BY <2>7, <2>8, <2>9, <2>10
<1>8. CASE StartSucceeds(d)
  <2>1. UNCHANGED <<jobStatus, printerOf, history, upPc, upJob, matched, starts>>
    BY <1>8 DEF StartSucceeds
  <2>2. ClaimIsExclusive'
    BY <1>8, <2>1 DEF StartSucceeds, TypeOK
  <2> QED  BY <2>1, <2>2
<1>9. CASE StartFails(d)
  <2>1. /\ claim[d] \in Jobs
        /\ jobStatus[claim[d]] \notin UnclaimedStates
    BY <1>9 DEF StartFails
  <2>2. /\ UNCHANGED <<printerOf, history, starts, upPc, upJob, matched>>
        /\ \A j \in Jobs : jobStatus'[j] = IF j = claim[d] THEN "failed" ELSE jobStatus[j]
    BY <1>9, <2>1 DEF StartFails, TypeOK
  <2>3. UploadOwnsItsJob' /\ UnclaimedIsUntouched'
    BY <2>1, <2>2 DEF TypeOK
  <2>4. ClaimIsExclusive'
    BY <1>9, <2>1, <2>2 DEF StartFails, TypeOK
  <2>5. MatchIsFresh'
    BY <2>1, <2>2 DEF TypeOK
  <2>6. StartedAtMostOnce' /\ OneRecordPerJob' /\ RecordMatchesStatus'
    BY <2>1, <2>2
  <2> QED  BY <2>3, <2>4, <2>5, <2>6
<1>10. CASE CycleAborts(d)
  BY <1>10 DEF CycleAborts, TypeOK
<1> QED
  BY <1>1, <1>2, <1>3, <1>4, <1>5, <1>6, <1>7, <1>8, <1>9, <1>10 DEF DispatchStep

\* Steps of the history sync.
LEMMA HistoryStep ==
    ASSUME IInv, TypeOK',
           (\E j \in Jobs : HistoryMatch(j))
             \/ (\E outcome \in HistoryStatuses : HistoryRecord(outcome))
    PROVE  IInv'
<1> USE DEF IInv, row, device, dispatcher, uploader, UploadOwnsItsJob,
        UnclaimedIsUntouched, ClaimIsExclusive, MatchIsFresh,
        StartedAtMostOnce, OneRecordPerJob, RecordMatchesStatus, UnclaimedStates
<1>1. ASSUME NEW j \in Jobs, HistoryMatch(j) PROVE IInv'
  BY <1>1 DEF HistoryMatch, TypeOK
<1>2. ASSUME NEW outcome \in HistoryStatuses, HistoryRecord(outcome) PROVE IInv'
  <2>1. /\ matched \in Jobs
        /\ jobStatus[matched] \in {"printing", "failed"}
        /\ history[matched] = <<>>
    BY <1>2 DEF HistoryRecord, TypeOK
  <2>2. history' = [history EXCEPT ![matched] = <<outcome>>]
    BY <1>2, <2>1 DEF HistoryRecord, TypeOK
  <2>3. outcome \notin UnclaimedStates \cup {"printing"}
    BY DEF HistoryStatuses
  <2>4. Len(<<outcome>>) = 1 /\ <<outcome>>[1] = outcome /\ <<outcome>> # <<>>
    OBVIOUS
  <2> QED  BY <1>2, <2>1, <2>2, <2>3, <2>4 DEF HistoryRecord, TypeOK
<1> QED  BY <1>1, <1>2

LEMMA IInvNext == IInv /\ [Next]_vars => IInv'
<1> SUFFICES ASSUME IInv, [Next]_vars PROVE IInv'
  OBVIOUS
<1> USE DEF row, device, dispatcher, uploader
<1>0. TypeOK'
  BY TypeOKNext DEF IInv
<1>1. CASE (\E p \in Printers : UploadBegin(p))
             \/ UploadStored \/ UploadFails \/ UploadAborts \/ Enqueue
  BY <1>0, <1>1, UploadStep
<1>2. CASE \E d \in Dispatchers : DispatchStep(d)
  BY <1>0, <1>2, DispatcherStep
<1>3. CASE (\E j \in Jobs : HistoryMatch(j))
             \/ (\E outcome \in HistoryStatuses : HistoryRecord(outcome))
  BY <1>0, <1>3, HistoryStep
<1>4. ASSUME NEW p \in Printers, PrinterRowWritten(p) PROVE IInv'
  BY <1>0, <1>4, FrameStep DEF PrinterRowWritten
<1>5. ASSUME NEW o \in Operators, NEW p \in Printers, ReorderValidate(o, p) PROVE IInv'
  BY <1>0, <1>5, FrameStep DEF ReorderValidate
<1>6. ASSUME NEW o \in Operators, ReorderWrite(o) PROVE IInv'
  BY <1>0, <1>6, FrameStep DEF ReorderWrite
<1>7. ASSUME NEW o \in Operators, ReorderNative(o) PROVE IInv'
  BY <1>0, <1>7, FrameStep DEF ReorderNative
<1>8. ASSUME NEW j \in Jobs, PrinterAccepts(j) PROVE IInv'
  BY <1>0, <1>8, FrameStep DEF PrinterAccepts
<1>9. ASSUME NEW p \in JobQueuePrinters, NativeStart(p) PROVE IInv'
  BY <1>0, <1>9, FrameStep DEF NativeStart
<1>10. CASE Crash
  BY <1>0, <1>10 DEF Crash, IInv, UploadOwnsItsJob, UnclaimedIsUntouched,
     ClaimIsExclusive, MatchIsFresh, StartedAtMostOnce, OneRecordPerJob,
     RecordMatchesStatus, UnclaimedStates
<1>11. CASE UNCHANGED vars
  BY <1>0, <1>11, FrameStep DEF vars
<1> QED
  BY <1>1, <1>2, <1>3, <1>4, <1>5, <1>6, <1>7, <1>8, <1>9, <1>10, <1>11 DEF Next

\* The ownership of jobs is an invariant of the farm, whatever overlaps,
\* fails or crashes: an upload, a queue or exactly one dispatcher has a job.
THEOREM OwnershipInvariant == Spec => []IInv
<1>1. Init => IInv
  BY IInvInit
<1>2. IInv /\ [Next]_vars => IInv'
  BY IInvNext
<1> QED  BY <1>1, <1>2, PTL DEF Spec

\* Every column of the job tables stays within its CHECK constraint.
THEOREM TypeCorrect == Spec => []TypeOK
<1>1. IInv => TypeOK
  BY DEF IInv
<1> QED  BY <1>1, OwnershipInvariant, PTL

\* No start request is ever repeated: run_dispatch_cycle commits its claim
\* before it calls start_uploaded_print, and no code re-queues a job.
THEOREM StartedOnce == Spec => []StartedAtMostOnce
<1>1. IInv => StartedAtMostOnce
  BY DEF IInv
<1> QED  BY <1>1, OwnershipInvariant, PTL

\* sync_job_history_entry records the outcome of a job at most once.
THEOREM RecordedOnce == Spec => []OneRecordPerJob
<1>1. IInv => OneRecordPerJob
  BY DEF IInv
<1> QED  BY <1>1, OwnershipInvariant, PTL

\* jobs.status agrees with job_history.status but for a late start failure.
THEOREM RecordAgrees == Spec => []RecordMatchesStatus
<1>1. IInv => RecordMatchesStatus
  BY DEF IInv
<1> QED  BY <1>1, OwnershipInvariant, PTL

-----------------------------------------------------------------------------
(* Dispatch implements JobLifecycle *)

LEMMA LifecycleInit == Init => Lifecycle!Init
  BY DEF Init, Lifecycle!Init

\* Steps that change no status, history or count of start requests stutter.
LEMMA LifecycleStutter ==
    ASSUME UNCHANGED <<jobStatus, history, starts>>
    PROVE  UNCHANGED Lifecycle!vars
  BY DEF Lifecycle!vars

LEMMA UploadRefines ==
    ASSUME IInv,
           (\E p \in Printers : UploadBegin(p))
             \/ UploadStored \/ UploadFails \/ UploadAborts \/ Enqueue
    PROVE  [Lifecycle!Next]_(Lifecycle!vars)
<1> USE DEF IInv, row, UploadOwnsItsJob, Lifecycle!Next, Lifecycle!Move
<1>1. ASSUME NEW p \in Printers, UploadBegin(p) PROVE Lifecycle!Next
  <2>1. PICK j \in Jobs :
          /\ jobStatus[j] = "none"
          /\ jobStatus' = [jobStatus EXCEPT ![j] = "uploading"]
    BY <1>1 DEF UploadBegin
  <2>2. Lifecycle!Submit(j)
    BY <1>1, <2>1 DEF UploadBegin, Lifecycle!Submit
  <2> QED  BY <2>2
<1>2. CASE UploadStored
  <2>1. upJob \in Jobs /\ Lifecycle!Store(upJob)
    BY <1>2 DEF UploadStored, Lifecycle!Store
  <2> QED  BY <2>1
<1>3. CASE UploadFails
  <2>1. upJob \in Jobs /\ Lifecycle!Reject(upJob)
    BY <1>3 DEF UploadFails, Lifecycle!Reject
  <2> QED  BY <2>1
<1>4. CASE UploadAborts
  BY <1>4, LifecycleStutter DEF UploadAborts
<1>5. CASE Enqueue
  BY <1>5, LifecycleStutter DEF Enqueue
<1> QED  BY <1>1, <1>2, <1>3, <1>4, <1>5

LEMMA DispatchRefines ==
    ASSUME IInv, NEW d \in Dispatchers, DispatchStep(d)
    PROVE  [Lifecycle!Next]_(Lifecycle!vars)
<1> USE DEF IInv, row, Lifecycle!Next
<1>1. CASE ClaimJob(d)
  <2>1. claim[d] \in Jobs /\ Lifecycle!Claim(claim[d])
    BY <1>1 DEF ClaimJob, ClaimIsExclusive, Lifecycle!Claim, Lifecycle!Move
  <2> QED  BY <2>1
<1>2. CASE SendStart(d)
  <2>1. /\ claim[d] \in Jobs
        /\ jobStatus[claim[d]] \notin UnclaimedStates
        /\ starts[claim[d]] = 0
    BY <1>2 DEF SendStart, ClaimIsExclusive
  <2>2. PICK j \in Jobs : j = claim[d]
    BY <2>1
  <2>3. starts' = [starts EXCEPT ![j] = 0 + 1]
    BY <1>2, <2>1, <2>2 DEF SendStart
  <2>4. {k \in Jobs : starts[k] > 0}' = {k \in Jobs : starts[k] > 0} \cup {j}
    BY <2>1, <2>2, <2>3 DEF TypeOK
  <2>5. Lifecycle!Send(j)
    BY <1>2, <2>1, <2>2, <2>4
    DEF SendStart, Lifecycle!Send, UnclaimedStates, Lifecycle!UnclaimedStates
  <2> QED  BY <2>5
<1>3. CASE StartFails(d)
  <2>1. /\ claim[d] \in Jobs
        /\ jobStatus[claim[d]] \notin UnclaimedStates
        /\ starts[claim[d]] = 1
    BY <1>3 DEF StartFails, ClaimIsExclusive
  <2>2. claim[d] \in Jobs /\ Lifecycle!Fail(claim[d])
    BY <1>3, <2>1
    DEF StartFails, Lifecycle!Fail, UnclaimedStates, Lifecycle!UnclaimedStates
  <2> QED  BY <2>2
<1>4. CASE BeginCycle(d) \/ SkipPrinter(d) \/ PickJob(d) \/ EndCycle(d)
             \/ LoseClaim(d) \/ StartSucceeds(d) \/ CycleAborts(d)
  BY <1>4, LifecycleStutter DEF BeginCycle, SkipPrinter, PickJob, EndCycle,
     LoseClaim, StartSucceeds, CycleAborts
<1> QED  BY <1>1, <1>2, <1>3, <1>4 DEF DispatchStep

LEMMA HistoryRefines ==
    ASSUME IInv,
           (\E j \in Jobs : HistoryMatch(j))
             \/ (\E outcome \in HistoryStatuses : HistoryRecord(outcome))
    PROVE  [Lifecycle!Next]_(Lifecycle!vars)
<1> USE DEF IInv, row
<1>1. ASSUME NEW j \in Jobs, HistoryMatch(j) PROVE UNCHANGED Lifecycle!vars
  BY <1>1, LifecycleStutter DEF HistoryMatch
<1>2. ASSUME NEW outcome \in HistoryStatuses, HistoryRecord(outcome)
      PROVE  Lifecycle!Next
  <2>1. /\ matched \in Jobs
        /\ jobStatus[matched] \in {"printing", "failed"}
        /\ history[matched] = <<>>
    BY <1>2 DEF HistoryRecord, TypeOK, MatchIsFresh
  <2>2. history' = [history EXCEPT ![matched] = <<outcome>>]
    BY <1>2, <2>1 DEF HistoryRecord, TypeOK
  <2>3. {j \in Jobs : history[j] # <<>>}' = {j \in Jobs : history[j] # <<>>} \cup {matched}
    BY <2>1, <2>2 DEF TypeOK
  <2>4. Lifecycle!Record(matched, outcome)
    BY <1>2, <2>1, <2>3 DEF HistoryRecord, Lifecycle!Record, Lifecycle!Move
  <2> QED  BY <2>1, <2>4 DEF Lifecycle!Next, HistoryStatuses, Lifecycle!HistoryStatuses
<1> QED  BY <1>1, <1>2

LEMMA StepRefines == IInv /\ [Next]_vars => [Lifecycle!Next]_(Lifecycle!vars)
<1> SUFFICES ASSUME IInv, [Next]_vars PROVE [Lifecycle!Next]_(Lifecycle!vars)
  OBVIOUS
<1>1. CASE (\E p \in Printers : UploadBegin(p))
             \/ UploadStored \/ UploadFails \/ UploadAborts \/ Enqueue
  BY <1>1, UploadRefines
<1>2. CASE \E d \in Dispatchers : DispatchStep(d)
  BY <1>2, DispatchRefines
<1>3. CASE (\E j \in Jobs : HistoryMatch(j))
             \/ (\E outcome \in HistoryStatuses : HistoryRecord(outcome))
  BY <1>3, HistoryRefines
<1>4. CASE \/ \E p \in Printers : PrinterRowWritten(p)
           \/ \E o \in Operators :
                \/ \E p \in Printers : ReorderValidate(o, p)
                \/ ReorderWrite(o) \/ ReorderNative(o)
           \/ \E j \in Jobs : PrinterAccepts(j)
           \/ \E p \in JobQueuePrinters : NativeStart(p)
           \/ Crash \/ UNCHANGED vars
  BY <1>4, LifecycleStutter DEF PrinterRowWritten, ReorderValidate, ReorderWrite,
     ReorderNative, PrinterAccepts, NativeStart, Crash, vars, row
<1> QED  BY <1>1, <1>2, <1>3, <1>4 DEF Next

\* The jobs table, its history and the start requests of the farm implement
\* the abstract life of a job.
THEOREM LifecycleRefinement == Spec => ImplementsLifecycle
<1>1. Init => Lifecycle!Init
  BY LifecycleInit
<1>2. IInv /\ [Next]_vars => [Lifecycle!Next]_(Lifecycle!vars)
  BY StepRefines
<1> QED  BY <1>1, <1>2, OwnershipInvariant, PTL
         DEF Spec, ImplementsLifecycle, Lifecycle!Spec

-----------------------------------------------------------------------------
(* The order in which queued jobs are claimed: uploads are claimed in their *)
(* order, and a reorder is obeyed.                                          *)

\* jobs.id and created_at grow together, and a job's id is followed by the next.
UploadsAreInOrder ==
    \A j, k \in Jobs :
        j < k /\ jobStatus[k] # "none" =>
            jobStatus[j] # "none" /\ created[j] <= created[k]

RunningUploadIsLast ==
    upPc = "http" => \A k \in Jobs : k > upJob => jobStatus[k] = "none"

\* A job that was never queued was never reordered.
Fresh(j) == jobStatus[j] \in {"none", "uploading"}

FreshJobsHaveNoPriority == \A j \in Jobs : Fresh(j) => priority[j] = 0

\* A dispatcher between SELECT and UPDATE: what was queued since it chose is no
\* older than its choice.
ChoiceIsOldest ==
    \A d \in Dispatchers : pc[d] = "claim" =>
        /\ ~Fresh(claim[d])
        /\ \A k \in Jobs :
            (/\ jobStatus[k] = "queued" /\ printerOf[k] = printerOf[claim[d]]
             /\ priority[k] = 0 /\ priority[claim[d]] = 0)
            => created[claim[d]] <= created[k]

\* What a validated request names, each job once.
NamesJobs(ids) ==
    /\ \A i \in 1 .. Len(ids) : ~Fresh(ids[i])
    /\ \A h, i \in 1 .. Len(ids) : ids[h] = ids[i] => h = i

ReordersNameJobs == \A o \in Operators : NamesJobs(reorder[o].ids)

OneOperator == \A o, q \in Operators : o = q

\* A job that a request does not name was queued since it was validated.
OthersAreNew ==
    OneOperator =>
        \A o \in Operators : \A k \in Jobs :
            (/\ reorder[o].printer \in Printers /\ printerOf[k] = reorder[o].printer
             /\ jobStatus[k] = "queued" /\ priority[k] # 0)
            => \E i \in 1 .. Len(reorder[o].ids) : reorder[o].ids[i] = k

OrderInv ==
    /\ UploadsAreInOrder /\ RunningUploadIsLast
    /\ FreshJobsHaveNoPriority
    /\ ChoiceIsOldest
    /\ ReordersNameJobs /\ OthersAreNew

-----------------------------------------------------------------------------
\* The priorities a reorder writes: from the length of the request down to 1
\* for the jobs it names, and what was there for the others.
LEMMA ReprioritisedIs ==
    ASSUME priority \in [Jobs -> Nat], NEW ids \in Seq(Jobs),
           \A h, i \in 1 .. Len(ids) : ids[h] = ids[i] => h = i
    PROVE  /\ \A i \in 1 .. Len(ids) : Reprioritised(ids)[ids[i]] = Len(ids) + 1 - i
           /\ \A j \in Jobs : (\A i \in 1 .. Len(ids) : ids[i] # j) =>
                Reprioritised(ids)[j] = priority[j]
<1>1. ASSUME NEW i \in 1 .. Len(ids)
      PROVE  Reprioritised(ids)[ids[i]] = Len(ids) + 1 - i
  <2> DEFINE h == CHOOSE k \in 1 .. Len(ids) : ids[k] = ids[i]
  <2>1. h \in 1 .. Len(ids) /\ ids[h] = ids[i]
    OBVIOUS
  <2>2. h = i
    BY <2>1
  <2>3. ids[i] \in Jobs
    OBVIOUS
  <2>4. Reprioritised(ids)[ids[i]] = Len(ids) + 1 - h
    BY <2>3 DEF Reprioritised
  <2> QED  BY <2>2, <2>4
<1>2. ASSUME NEW j \in Jobs, \A i \in 1 .. Len(ids) : ids[i] # j
      PROVE  Reprioritised(ids)[j] = priority[j]
  BY <1>2 DEF Reprioritised
<1> QED  BY <1>1, <1>2

\* A request names jobs.
LEMMA RequestsAreSequences ==
    ASSUME TypeOK, NEW o \in Operators
    PROVE  /\ reorder[o].ids \in Seq(Jobs)
           /\ Len(reorder[o].ids) \in Nat
           /\ DOMAIN reorder[o].ids = 1 .. Len(reorder[o].ids)
           /\ \A i \in 1 .. Len(reorder[o].ids) : reorder[o].ids[i] \in Jobs
<1>1. reorder[o].ids \in Seq(Jobs)
  BY DEF TypeOK
<1> QED  BY <1>1

LEMMA OrderInit == Init => OrderInv
  BY DEF Init, OrderInv, UploadsAreInOrder, RunningUploadIsLast, Fresh,
     FreshJobsHaveNoPriority, ChoiceIsOldest, NamesJobs, ReordersNameJobs,
     OthersAreNew, NoReorder

\* Steps that queue nothing and begin neither an upload, a choice nor a reorder.
LEMMA QuietStep ==
    ASSUME IInv, TypeOK', OrderInv,
           UNCHANGED <<printerOf, priority, created>>,
           \A j \in Jobs : \/ jobStatus'[j] = jobStatus[j]
                           \/ jobStatus[j] # "none" /\ jobStatus'[j] \notin UnclaimedStates,
           upPc' = "http" => upPc = "http" /\ upJob' = upJob,
           \A d \in Dispatchers :
                pc'[d] = "claim" => pc[d] = "claim" /\ claim'[d] = claim[d],
           \A o \in Operators : reorder'[o] = reorder[o] \/ reorder'[o] = NoReorder
    PROVE  OrderInv'
<1> USE DEF IInv, OrderInv, UnclaimedStates
<1>1. \A j \in Jobs : /\ Fresh(j)' => Fresh(j)
                      /\ jobStatus'[j] = "none" <=> jobStatus[j] = "none"
                      /\ jobStatus'[j] = "queued" => jobStatus[j] = "queued"
  BY DEF Fresh
<1>2. UploadsAreInOrder' /\ FreshJobsHaveNoPriority'
  BY <1>1 DEF UploadsAreInOrder, FreshJobsHaveNoPriority
<1>3. RunningUploadIsLast'
  BY <1>1 DEF RunningUploadIsLast
<1>4. ChoiceIsOldest'
  BY <1>1 DEF ChoiceIsOldest, ClaimIsExclusive, Fresh
<1>5. ReordersNameJobs'
  <2> SUFFICES ASSUME NEW o \in Operators PROVE NamesJobs(reorder[o].ids)'
    BY DEF ReordersNameJobs
  <2>1. CASE reorder'[o] = reorder[o]
    BY <1>1, <2>1, RequestsAreSequences DEF ReordersNameJobs, NamesJobs, Fresh
  <2>2. CASE reorder'[o] = NoReorder
    BY <2>2 DEF NamesJobs, NoReorder
  <2> QED  BY <2>1, <2>2
<1>6. OthersAreNew'
  BY <1>1, PrintersAssumption DEF OthersAreNew, NoReorder
<1> QED  BY <1>2, <1>3, <1>4, <1>5, <1>6

\* An upload begins: its row is the newest.
LEMMA UploadBeginKeepsOrder ==
    ASSUME IInv, TypeOK', OrderInv, NEW p \in Printers, UploadBegin(p)
    PROVE  OrderInv'
<1>1. PICK j \in Jobs :
        /\ jobStatus[j] = "none"
        /\ \A k \in 1 .. j - 1 : jobStatus[k] # "none"
        /\ jobStatus' = [jobStatus EXCEPT ![j] = "uploading"]
        /\ printerOf' = [printerOf EXCEPT ![j] = p]
        /\ LET latest == IF j = 1 THEN 0 ELSE created[j - 1]
           IN \E second \in {latest, latest + 1} :
                created' = [created EXCEPT ![j] = second]
        /\ upJob' = j
  BY DEF UploadBegin
<1>2. /\ UNCHANGED <<priority, pc, claim, reorder>>
      /\ jobStatus'[j] = "uploading" /\ printerOf'[j] = p
      /\ \A k \in Jobs \ {j} : /\ jobStatus'[k] = jobStatus[k]
                               /\ printerOf'[k] = printerOf[k]
                               /\ created'[k] = created[k]
  BY <1>1 DEF UploadBegin, IInv, TypeOK, dispatcher
<1>3. \A k \in Jobs : k > j => jobStatus[k] = "none"
  BY <1>1 DEF OrderInv, UploadsAreInOrder, Jobs
<1>4. \A k \in Jobs : k < j => created[k] <= created'[j]
  <2>1. SUFFICES ASSUME NEW k \in Jobs, k < j PROVE created[k] <= created'[j]
    OBVIOUS
  <2>2. j - 1 \in Jobs /\ k <= j - 1 /\ jobStatus[j - 1] # "none" /\ j # 1
    BY <1>1, <2>1, BoundsAssumption DEF Jobs
  <2>3. created[k] \in Nat /\ created[j - 1] \in Nat
    BY <2>2 DEF IInv, TypeOK
  <2>4. created[k] <= created[j - 1]
    BY <2>2, <2>3 DEF OrderInv, UploadsAreInOrder, Jobs
  <2>5. created'[j] \in {created[j - 1], created[j - 1] + 1}
    BY <1>1, <2>2 DEF IInv, TypeOK
  <2> QED  BY <2>3, <2>4, <2>5
<1>5. UploadsAreInOrder'
  <2> SUFFICES ASSUME NEW i \in Jobs, NEW k \in Jobs, i < k, jobStatus'[k] # "none"
               PROVE  jobStatus'[i] # "none" /\ created'[i] <= created'[k]
    BY DEF UploadsAreInOrder
  <2>1. CASE k = j
    BY <1>1, <1>2, <1>4, <2>1 DEF Jobs
  <2>2. CASE k # j
    BY <1>2, <1>3, <2>2 DEF OrderInv, UploadsAreInOrder, Jobs
  <2> QED  BY <2>1, <2>2
<1>6. RunningUploadIsLast'
  BY <1>1, <1>2, <1>3 DEF RunningUploadIsLast, Jobs
<1>7. FreshJobsHaveNoPriority'
  BY <1>1, <1>2 DEF OrderInv, FreshJobsHaveNoPriority, Fresh
<1>8. ChoiceIsOldest'
  BY <1>1, <1>2 DEF OrderInv, IInv, ClaimIsExclusive, ChoiceIsOldest, Fresh
<1>9. ReordersNameJobs'
  <2> SUFFICES ASSUME NEW o \in Operators PROVE NamesJobs(reorder[o].ids)'
    BY DEF ReordersNameJobs
  <2> QED
    BY <1>1, <1>2, RequestsAreSequences DEF OrderInv, IInv, ReordersNameJobs, NamesJobs, Fresh
<1>10. OthersAreNew'
  BY <1>1, <1>2 DEF OrderInv, OthersAreNew
<1> QED  BY <1>5, <1>6, <1>7, <1>8, <1>9, <1>10 DEF OrderInv

\* The job that is queued now is the newest of all.
LEMMA UploadStoredKeepsOrder ==
    ASSUME IInv, TypeOK', OrderInv, UploadStored
    PROVE  OrderInv'
<1>1. /\ upJob \in Jobs /\ jobStatus[upJob] = "uploading" /\ upPc = "http"
      /\ jobStatus'[upJob] = "queued" /\ upPc' # "http"
      /\ \A k \in Jobs \ {upJob} : jobStatus'[k] = jobStatus[k]
      /\ UNCHANGED <<printerOf, priority, created, pc, claim, reorder>>
  BY DEF UploadStored, IInv, TypeOK, UploadOwnsItsJob, dispatcher
<1>2. \A k \in Jobs : jobStatus[k] # "none" => created[k] <= created[upJob]
  BY <1>1 DEF OrderInv, UploadsAreInOrder, RunningUploadIsLast, IInv, TypeOK, Jobs
<1>3. UploadsAreInOrder' /\ RunningUploadIsLast'
  BY <1>1 DEF OrderInv, UploadsAreInOrder, RunningUploadIsLast
<1>4. FreshJobsHaveNoPriority' /\ priority[upJob] = 0
  BY <1>1 DEF OrderInv, FreshJobsHaveNoPriority, Fresh
<1>5. ChoiceIsOldest'
  BY <1>1, <1>2 DEF OrderInv, IInv, ClaimIsExclusive, ChoiceIsOldest, Fresh
<1>6. ReordersNameJobs'
  <2> SUFFICES ASSUME NEW o \in Operators PROVE NamesJobs(reorder[o].ids)'
    BY DEF ReordersNameJobs
  <2> QED
    BY <1>1, RequestsAreSequences DEF OrderInv, IInv, ReordersNameJobs, NamesJobs, Fresh
<1>7. OthersAreNew'
  BY <1>1, <1>4 DEF OrderInv, OthersAreNew
<1> QED  BY <1>3, <1>4, <1>5, <1>6, <1>7 DEF OrderInv

\* A request names what is queued.
LEMMA ReorderValidateKeepsOrder ==
    ASSUME IInv, TypeOK', OrderInv, NEW o \in Operators, NEW p \in Printers,
           ReorderValidate(o, p)
    PROVE  OrderInv'
<1>1. PICK ids \in Bijection(1 .. Cardinality(QueuedOn(p)), QueuedOn(p)) :
        reorder' = [reorder EXCEPT ![o] = [printer |-> p, ids |-> ids]]
  BY DEF ReorderValidate
<1>2. UNCHANGED <<jobStatus, printerOf, priority, created, pc, claim, upPc, upJob>>
  BY DEF ReorderValidate, row, dispatcher, uploader
<1>3. /\ reorder'[o] = [printer |-> p, ids |-> ids]
      /\ \A q \in Operators \ {o} : reorder'[q] = reorder[q]
  BY <1>1 DEF IInv, TypeOK
<1>4. /\ Cardinality(QueuedOn(p)) \in Nat
      /\ ids \in Seq(Jobs) /\ Len(ids) = Cardinality(QueuedOn(p))
  <2>1. IsFiniteSet(Jobs) /\ QueuedOn(p) \in SUBSET Jobs
    BY BoundsAssumption, FS_Interval DEF Jobs, QueuedOn
  <2>2. Cardinality(QueuedOn(p)) \in Nat
    BY <2>1, FS_Subset, FS_CardinalityType
  <2>3. ids \in Seq(Jobs) /\ DOMAIN ids = 1 .. Cardinality(QueuedOn(p))
    BY <2>1, ReorderIdsAreSeq DEF Bijection, Injection
  <2> QED  BY <2>2, <2>3
<1>5. /\ \A h, i \in 1 .. Len(ids) : ids[h] = ids[i] => h = i
      /\ \A i \in 1 .. Len(ids) : ids[i] \in QueuedOn(p)
      /\ \A k \in QueuedOn(p) : \E i \in 1 .. Len(ids) : ids[i] = k
  BY <1>4 DEF Bijection, Injection, Surjection, IsInjective
<1>6. NamesJobs(ids)'
  BY <1>2, <1>5 DEF NamesJobs, Fresh, QueuedOn
<1>7. ReordersNameJobs'
  <2>1. ASSUME NEW q \in Operators \ {o} PROVE NamesJobs(reorder[q].ids)'
    BY <1>2, <1>3 DEF OrderInv, ReordersNameJobs, NamesJobs, Fresh
  <2> QED  BY <1>3, <1>6, <2>1 DEF ReordersNameJobs, NamesJobs, Fresh
<1>8. OthersAreNew'
  BY <1>2, <1>3, <1>5 DEF OrderInv, OthersAreNew, QueuedOn
<1>9. UploadsAreInOrder' /\ RunningUploadIsLast' /\ FreshJobsHaveNoPriority' /\ ChoiceIsOldest'
  BY <1>2 DEF OrderInv, UploadsAreInOrder, RunningUploadIsLast, FreshJobsHaveNoPriority,
     ChoiceIsOldest, Fresh
<1> QED  BY <1>7, <1>8, <1>9 DEF OrderInv

\* A reorder leaves no job it names with priority 0, and the others alone.
LEMMA ReorderWriteKeepsOrder ==
    ASSUME IInv, TypeOK', OrderInv, NEW o \in Operators, ReorderWrite(o)
    PROVE  OrderInv'
<1> DEFINE ids == reorder[o].ids
<1>1. ids \in Seq(Jobs) /\ NamesJobs(ids) /\ Len(ids) \in Nat
  BY DEF IInv, TypeOK, OrderInv, ReordersNameJobs
<1>2. /\ UNCHANGED <<jobStatus, printerOf, created, pc, claim, upPc, upJob>>
      /\ reorder'[o] = NoReorder
      /\ \A q \in Operators \ {o} : reorder'[q] = reorder[q]
      /\ priority' = Reprioritised(ids)
  BY DEF ReorderWrite, IInv, TypeOK, dispatcher, uploader
<1> HIDE DEF ids
<1>3. /\ \A i \in 1 .. Len(ids) : priority'[ids[i]] = Len(ids) + 1 - i
      /\ \A j \in Jobs : (\A i \in 1 .. Len(ids) : ids[i] # j) => priority'[j] = priority[j]
  BY <1>1, <1>2, ReprioritisedIs DEF NamesJobs, IInv, TypeOK
<1>4. \A j \in Jobs : /\ priority'[j] = 0 => priority[j] = 0
                      /\ Fresh(j) => priority'[j] = priority[j]
  BY <1>1, <1>3 DEF NamesJobs
<1>5. UploadsAreInOrder' /\ RunningUploadIsLast' /\ FreshJobsHaveNoPriority'
  BY <1>2, <1>4 DEF OrderInv, UploadsAreInOrder, RunningUploadIsLast,
     FreshJobsHaveNoPriority, Fresh
<1>6. ChoiceIsOldest'
  BY <1>2, <1>4 DEF OrderInv, IInv, ClaimIsExclusive, ChoiceIsOldest, Fresh
<1>7. ReordersNameJobs'
  BY <1>2 DEF OrderInv, ReordersNameJobs, NamesJobs, NoReorder, Fresh
<1>8. OthersAreNew'
  BY <1>2, PrintersAssumption DEF OthersAreNew, OneOperator, NoReorder
<1> QED  BY <1>5, <1>6, <1>7, <1>8 DEF OrderInv

\* The SELECT returns a job that no other precedes.
LEMMA PickJobKeepsOrder ==
    ASSUME IInv, TypeOK', OrderInv, NEW d \in Dispatchers, PickJob(d)
    PROVE  OrderInv'
<1>0. PICK p \in todo[d] \ JobQueuePrinters :
        \E j \in NextQueued(p) : claim' = [claim EXCEPT ![d] = j]
  BY DEF PickJob
<1>1. PICK j \in NextQueued(p) : claim' = [claim EXCEPT ![d] = j]
  BY <1>0
<1>2. /\ UNCHANGED <<jobStatus, printerOf, priority, created, upPc, upJob, reorder>>
      /\ claim'[d] = j
      /\ \A e \in Dispatchers \ {d} : claim'[e] = claim[e] /\ pc'[e] = pc[e]
  BY <1>1 DEF PickJob, row, uploader, IInv, TypeOK
<1>3. j \in QueuedOn(p) /\ \A k \in QueuedOn(p) : ~Precedes(k, j)
  BY <1>1 DEF NextQueued
<1>4. /\ j \in Jobs /\ jobStatus[j] = "queued"
      /\ \A k \in Jobs :
           (/\ jobStatus[k] = "queued" /\ printerOf[k] = printerOf[j]
            /\ priority[k] = 0 /\ priority[j] = 0)
           => created[j] <= created[k]
  <2>1. \A k \in Jobs : created[k] \in Nat
    BY DEF IInv, TypeOK
  <2> QED  BY <1>3, <2>1 DEF QueuedOn, Precedes
<1>5. ChoiceIsOldest'
  BY <1>2, <1>4 DEF OrderInv, ChoiceIsOldest, Fresh
<1>6. UploadsAreInOrder' /\ RunningUploadIsLast' /\ FreshJobsHaveNoPriority'
  BY <1>2 DEF OrderInv, UploadsAreInOrder, RunningUploadIsLast, FreshJobsHaveNoPriority,
     Fresh
<1>7. ReordersNameJobs' /\ OthersAreNew'
  BY <1>2 DEF OrderInv, ReordersNameJobs, NamesJobs, OthersAreNew, Fresh
<1> QED  BY <1>5, <1>6, <1>7 DEF OrderInv

LEMMA OrderNext == IInv /\ OrderInv /\ [Next]_vars => OrderInv'
<1> SUFFICES ASSUME IInv, OrderInv, [Next]_vars PROVE OrderInv'
  OBVIOUS
<1>0. TypeOK'
  BY IInvNext DEF IInv
<1> USE DEF row, device, dispatcher, uploader
<1>1. ASSUME NEW p \in Printers, UploadBegin(p) PROVE OrderInv'
  BY <1>0, <1>1, UploadBeginKeepsOrder
<1>2. CASE UploadStored
  BY <1>0, <1>2, UploadStoredKeepsOrder
<1>3. CASE UploadFails \/ UploadAborts \/ Enqueue
  <2>1. /\ UNCHANGED <<printerOf, priority, created, pc, claim, reorder>>
        /\ upPc' # "http"
        /\ \/ jobStatus' = jobStatus
           \/ /\ jobStatus' = [jobStatus EXCEPT ![upJob] = "failed"]
              /\ jobStatus[upJob] = "uploading"
    BY <1>3 DEF UploadFails, UploadAborts, Enqueue, IInv, UploadOwnsItsJob
  <2> QED  BY <1>0, <2>1, QuietStep DEF IInv, TypeOK, UnclaimedStates
<1>4. ASSUME NEW o \in Operators, NEW p \in Printers, ReorderValidate(o, p)
      PROVE  OrderInv'
  BY <1>0, <1>4, ReorderValidateKeepsOrder
<1>5. ASSUME NEW o \in Operators, ReorderWrite(o) PROVE OrderInv'
  BY <1>0, <1>5, ReorderWriteKeepsOrder
<1>6. ASSUME NEW o \in Operators, ReorderNative(o) PROVE OrderInv'
  BY <1>0, <1>6, QuietStep DEF ReorderNative, IInv, TypeOK
<1>7. ASSUME NEW d \in Dispatchers, DispatchStep(d) PROVE OrderInv'
  <2>1. CASE PickJob(d)
    BY <1>0, <2>1, PickJobKeepsOrder
  <2>2. CASE ~PickJob(d)
    <3>1. /\ UNCHANGED <<printerOf, priority, created, upPc, upJob, reorder>>
          /\ \A e \in Dispatchers :
               pc'[e] = "claim" => pc[e] = "claim" /\ claim'[e] = claim[e]
      BY <1>7, <2>2 DEF DispatchStep, BeginCycle, SkipPrinter, EndCycle, ClaimJob, LoseClaim,
         SendStart, StartSucceeds, StartFails, CycleAborts, IInv, TypeOK
    <3>2. \/ jobStatus' = jobStatus
          \/ /\ jobStatus[claim[d]] # "none" /\ claim[d] \in Jobs
             /\ \E s \in {"printing", "failed"} :
                  jobStatus' = [jobStatus EXCEPT ![claim[d]] = s]
      BY <1>7, <2>2 DEF DispatchStep, BeginCycle, SkipPrinter, EndCycle, ClaimJob, LoseClaim,
         SendStart, StartSucceeds, StartFails, CycleAborts, IInv, ClaimIsExclusive,
         UnclaimedStates
    <3>3. \A j \in Jobs :
            \/ jobStatus'[j] = jobStatus[j]
            \/ jobStatus[j] # "none" /\ jobStatus'[j] \notin UnclaimedStates
      BY <3>2 DEF IInv, TypeOK, UnclaimedStates
    <3> QED  BY <1>0, <3>1, <3>3, QuietStep
  <2> QED  BY <2>1, <2>2
<1>8. ASSUME NEW j \in Jobs, HistoryMatch(j) \/ PrinterAccepts(j) PROVE OrderInv'
  BY <1>0, <1>8, QuietStep DEF HistoryMatch, PrinterAccepts
<1>9. ASSUME NEW outcome \in HistoryStatuses, HistoryRecord(outcome) PROVE OrderInv'
  <2>1. /\ matched \in Jobs /\ jobStatus[matched] # "none"
        /\ jobStatus' = [jobStatus EXCEPT ![matched] = outcome]
        /\ outcome \notin UnclaimedStates
    BY <1>9 DEF HistoryRecord, IInv, TypeOK, MatchIsFresh, HistoryStatuses, UnclaimedStates
  <2> QED  BY <1>0, <1>9, <2>1, QuietStep DEF HistoryRecord, IInv, TypeOK
<1>10. ASSUME NEW p \in Printers, PrinterRowWritten(p) PROVE OrderInv'
  BY <1>0, <1>10, QuietStep DEF PrinterRowWritten
<1>11. ASSUME NEW p \in JobQueuePrinters, NativeStart(p) PROVE OrderInv'
  BY <1>0, <1>11, QuietStep DEF NativeStart
<1>12. CASE Crash
  BY <1>0, <1>12, QuietStep DEF Crash
<1>13. CASE UNCHANGED vars
  BY <1>0, <1>13, QuietStep DEF vars
<1> QED
  BY <1>1, <1>2, <1>3, <1>4, <1>5, <1>6, <1>7, <1>8, <1>9, <1>10, <1>11, <1>12, <1>13 DEF Next

\* Ids, times of upload, priorities and the choices and requests under way agree.
THEOREM OrderInvariant == Spec => []OrderInv
<1>1. Init => OrderInv
  BY OrderInit
<1>2. IInv /\ OrderInv /\ [Next]_vars => OrderInv'
  BY OrderNext
<1> QED  BY <1>1, <1>2, OwnershipInvariant, PTL DEF Spec

-----------------------------------------------------------------------------
\* Jobs that no reorder has named are claimed in the order of their upload,
\* though the claim comes later than the SELECT that chose it.
THEOREM UploadOrderIsKept == Spec => ClaimedInUploadOrder
<1>1. ASSUME IInv, OrderInv, [Next]_vars, NEW j \in Jobs, NEW k \in Jobs,
             jobStatus[j] = "queued", jobStatus'[j] = "printing",
             jobStatus[k] = "queued", printerOf[k] = printerOf[j],
             priority[j] = 0, priority[k] = 0
      PROVE  created[j] <= created[k]
  <2> USE DEF row, device, dispatcher, uploader, IInv, TypeOK
  <2>1. \E d \in Dispatchers : pc[d] = "claim" /\ claim[d] = j
    <3>1. ASSUME NEW d \in Dispatchers, DispatchStep(d)
          PROVE  pc[d] = "claim" /\ claim[d] = j
      BY <1>1, <3>1 DEF DispatchStep, BeginCycle, SkipPrinter, PickJob, EndCycle, ClaimJob,
         LoseClaim, SendStart, StartSucceeds, StartFails, CycleAborts
    <3>2. \E d \in Dispatchers : DispatchStep(d)
      BY <1>1 DEF Next, vars, UploadBegin, PrinterRowWritten, UploadStored, UploadFails,
         UploadAborts, Enqueue, ReorderValidate, ReorderWrite, ReorderNative, HistoryMatch,
         PrinterAccepts, HistoryRecord, HistoryStatuses, NativeStart, Crash
    <3> QED  BY <3>1, <3>2
  <2> QED  BY <1>1, <2>1 DEF OrderInv, ChoiceIsOldest
<1>2. IInv /\ OrderInv /\ [Next]_vars =>
        [\A j, k \in Jobs :
            (/\ jobStatus[j] = "queued" /\ jobStatus'[j] = "printing"
             /\ jobStatus[k] = "queued" /\ printerOf[k] = printerOf[j]
             /\ priority[j] = 0 /\ priority[k] = 0)
            => created[j] <= created[k]]_vars
  BY <1>1
<1> QED
  BY <1>2, OwnershipInvariant, OrderInvariant, PTL DEF Spec, ClaimedInUploadOrder

\* A reorder puts the jobs it names first, in its order, if no other operator
\* reorders at the same time.
THEOREM ReordersAreObeyed == ASSUME OneOperator PROVE Spec => ReorderedJobsGoFirst
<1>1. ASSUME IInv, OrderInv, [Next]_vars, NEW o \in Operators,
             priority' # priority, reorder[o] # NoReorder, reorder'[o] = NoReorder,
             NEW i \in DOMAIN reorder[o].ids,
             reorder[o].ids[i] \in QueuedOn(reorder[o].printer),
             NEW k \in QueuedOn(reorder[o].printer),
             \A h \in 1 .. i : reorder[o].ids[h] # k
      PROVE  priority'[reorder[o].ids[i]] > priority'[k]
  <2> DEFINE ids == reorder[o].ids
  <2>1. ReorderWrite(o)
    <3>1. \E q \in Operators : ReorderWrite(q)
      BY <1>1 DEF Next, vars, row, UploadBegin, PrinterRowWritten, UploadStored, UploadFails,
         UploadAborts, Enqueue, ReorderValidate, ReorderNative, HistoryMatch,
         PrinterAccepts, HistoryRecord, NativeStart, Crash, DispatchStep, BeginCycle,
         SkipPrinter, PickJob, EndCycle, ClaimJob, LoseClaim, SendStart, StartSucceeds,
         StartFails, CycleAborts
    <3> QED  BY <3>1 DEF OneOperator
  <2>2. /\ ids \in Seq(Jobs) /\ NamesJobs(ids) /\ Len(ids) \in Nat /\ DOMAIN ids = 1 .. Len(ids)
        /\ priority' = Reprioritised(ids) /\ k \in Jobs
        /\ reorder[o].printer \in Printers
    BY <1>1, <2>1, RequestsAreSequences
       DEF IInv, OrderInv, ReordersNameJobs, ReorderWrite, QueuedOn
  <2> HIDE DEF ids
  <2>3. /\ \A h \in 1 .. Len(ids) : priority'[ids[h]] = Len(ids) + 1 - h
        /\ \A j \in Jobs : (\A h \in 1 .. Len(ids) : ids[h] # j) => priority'[j] = priority[j]
    BY <1>1, <2>2, ReprioritisedIs DEF NamesJobs, IInv, TypeOK
  <2>4. i \in 1 .. Len(ids) /\ \A h \in 1 .. i : ids[h] # k
    BY <1>1, <2>2 DEF ids
  <2>5. CASE \E h \in 1 .. Len(ids) : ids[h] = k
    <3>1. PICK h \in 1 .. Len(ids) : ids[h] = k
      BY <2>5
    <3>2. h > i
      BY <2>2, <2>4, <3>1
    <3>3. priority'[ids[i]] > priority'[k]
      BY <2>2, <2>3, <2>4, <3>1, <3>2
    <3> QED  BY <3>3 DEF ids
  <2>6. CASE \A h \in 1 .. Len(ids) : ids[h] # k
    <3>1. priority[k] = 0
      BY <1>1, <2>2, <2>6 DEF OrderInv, OthersAreNew, QueuedOn, ids
    <3>2. priority'[k] = 0
      BY <2>2, <2>3, <2>6, <3>1
    <3>3. priority'[ids[i]] > priority'[k]
      BY <2>2, <2>3, <2>4, <3>2
    <3> QED  BY <3>3 DEF ids
  <2> QED  BY <2>5, <2>6
<1>2. IInv /\ OrderInv /\ [Next]_vars =>
        [\A o \in Operators :
          (priority' # priority /\ reorder[o] # NoReorder /\ reorder'[o] = NoReorder)
          => LET ids == reorder[o].ids
                 queued == QueuedOn(reorder[o].printer)
             IN \A i \in DOMAIN ids :
                  ids[i] \in queued =>
                      \A k \in queued :
                          (\A h \in 1 .. i : ids[h] # k)
                          => priority'[ids[i]] > priority'[k]]_vars
  BY <1>1
<1> QED
  BY <1>2, OwnershipInvariant, OrderInvariant, PTL DEF Spec, ReorderedJobsGoFirst

=============================================================================
