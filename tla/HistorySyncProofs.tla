-------------------------- MODULE HistorySyncProofs --------------------------
(***************************************************************************)
(* Proofs about HistorySync: prints are recorded once, and a record whose  *)
(* file name is that of one job is that job's.                             *)
(***************************************************************************)
EXTENDS HistorySync, WellFoundedInduction, TLAPS

\* The cursor is a time of the past.
LEMMA CursorType == ASSUME TypeOK PROVE Cursor \in 0 .. MaxTime \cup {NoTime}
<1> DEFINE created == {history[i].created : i \in DOMAIN history}
<1> DEFINE ago == {MaxTime - t : t \in created}
<1>1. created \in SUBSET (0 .. MaxTime)
  <2>1. \A i \in DOMAIN history : history[i] \in Record
    BY DEF TypeOK
  <2>2. \A k \in Record : k.created \in 0 .. MaxTime
    BY DEF Record
  <2> QED  BY <2>1, <2>2
<1>2. CASE history = <<>>
  BY <1>2 DEF Cursor
<1>3. CASE history # <<>>
  <2>1. created # {}
    <3>1. 1 \in DOMAIN history
      BY <1>3 DEF TypeOK
    <3> QED  BY <3>1
  <2> HIDE DEF created
  <2>2. ago \in SUBSET Nat /\ ago # {}
    <3>1. \A t \in created : MaxTime - t \in Nat
      BY <1>1, BoundsAssumption
    <3> QED  BY <2>1, <3>1
  <2>3. PICK a \in ago : \A b \in ago : ~(<<b, a>> \in OpToRel(<, Nat))
    BY <2>2, NatLessThanWellFounded, WFMin
  <2>4. \A b \in ago : a <= b
    <3>1. \A b \in ago : b \in Nat /\ a \in Nat
      BY <2>2
    <3> HIDE DEF ago
    <3>2. \A b \in ago : ~(b < a)
      BY <2>3, <3>1 DEF OpToRel
    <3> QED  BY <3>1, <3>2
  <2>5. PICK t \in created : a = MaxTime - t
    OBVIOUS
  <2>6. \A u \in created : t >= u
    <3>1. \A u \in created : MaxTime - u \in ago
      OBVIOUS
    <3> QED  BY <1>1, <2>4, <2>5, <3>1, BoundsAssumption
  <2>7. Max(created) \in created
    BY <2>6 DEF Max
  <2> QED  BY <1>1, <1>3, <2>7 DEF Cursor, created
<1> QED  BY <1>2, <1>3

\* What is done to entries keeps them what they were.
LEMMA EntriesGrow ==
    ASSUME TypeOK,
           \/ \E j \in Jobs \cup {NoJob} : \E name \in Names : PrintBegins(j, name)
           \/ \E status \in Outcomes : PrintEnds(status)
    PROVE  /\ entries' \in Seq(Entry) /\ DOMAIN entries \subseteq DOMAIN entries'
           /\ \A i \in DOMAIN entries :
                /\ entries'[i].name = entries[i].name
                /\ entries[i].status # "in_progress" => entries'[i] = entries[i]
           /\ UNCHANGED <<now, jobs, history, sync, restarts>>
<1>1. ASSUME NEW j \in Jobs \cup {NoJob}, NEW name \in Names, PrintBegins(j, name)
      PROVE  /\ entries' \in Seq(Entry) /\ DOMAIN entries \subseteq DOMAIN entries'
             /\ \A i \in DOMAIN entries : entries'[i] = entries[i]
  <2> DEFINE e == [job |-> j, name |-> name, start |-> now, end |-> NoTime,
                   status |-> "in_progress"]
  <2>1. e \in Entry
    BY DEF Entry, TypeOK
  <2>2. entries' = Append(entries, e) /\ entries \in Seq(Entry)
    BY <1>1 DEF PrintBegins, TypeOK
  <2> QED  BY <2>1, <2>2
<1>2. ASSUME NEW status \in Outcomes, PrintEnds(status)
      PROVE  /\ entries' \in Seq(Entry) /\ DOMAIN entries \subseteq DOMAIN entries'
             /\ \A i \in DOMAIN entries :
                  /\ entries'[i].name = entries[i].name
                  /\ entries[i].status # "in_progress" => entries'[i] = entries[i]
  <2>1. PICK i \in DOMAIN entries :
          /\ entries[i].status = "in_progress"
          /\ entries' = [entries EXCEPT ![i] = Ended(entries[i], status)]
    BY <1>2 DEF PrintEnds
  <2>2. entries \in Seq(Entry) /\ entries[i] \in Entry
    BY DEF TypeOK
  <2>3. Ended(entries[i], status) \in Entry /\ Ended(entries[i], status).name = entries[i].name
    BY <2>2, BoundsAssumption DEF Ended, Entry, TypeOK
  <2> QED  BY <2>1, <2>2, <2>3
<1>3. UNCHANGED <<now, jobs, history, sync, restarts>>
  BY DEF PrintBegins, PrintEnds
<1> QED  BY <1>1, <1>2, <1>3

\* Prints follow each other, since a printer takes none while it prints.
LEMMA TurnsAreKept == TypeOK /\ PrintsInTurn /\ [Next]_vars => PrintsInTurn'
<1> SUFFICES ASSUME TypeOK, PrintsInTurn, [Next]_vars PROVE PrintsInTurn'
  OBVIOUS
<1>0. /\ now \in 0 .. MaxTime /\ entries \in Seq(Entry) /\ MaxTime \in Nat
      /\ \A e \in Entry : e.start \in 0 .. MaxTime /\ e.end \in 0 .. MaxTime \cup {NoTime}
  BY BoundsAssumption DEF TypeOK, Entry
<1>1. ASSUME UNCHANGED entries, now' \in Int, now <= now' PROVE PrintsInTurn'
  BY <1>0, <1>1 DEF PrintsInTurn, NoTime
<1>2. ASSUME NEW j \in Jobs \cup {NoJob}, NEW name \in Names, PrintBegins(j, name)
      PROVE  PrintsInTurn'
  <2> DEFINE e == [job |-> j, name |-> name, start |-> now, end |-> NoTime,
                   status |-> "in_progress"]
  <2>1. entries' = Append(entries, e) /\ now' = now
    BY <1>2 DEF PrintBegins
  <2>2. e \in Entry
    BY DEF Entry, TypeOK
  <2>3. /\ DOMAIN entries' = 1 .. Len(entries) + 1 /\ entries'[Len(entries) + 1] = e
        /\ \A i \in DOMAIN entries : entries'[i] = entries[i]
        /\ DOMAIN entries = 1 .. Len(entries) /\ Len(entries) \in Nat
    BY <1>0, <2>1, <2>2
  <2>4. \A i \in DOMAIN entries : entries[i].end # NoTime /\ entries[i].end <= now
    BY <1>2 DEF PrintBegins, Printing, PrintsInTurn
  <2> HIDE DEF e
  <2>5. e.start = now /\ e.end = NoTime /\ e.status = "in_progress"
    BY DEF e
  <2> QED  BY <1>0, <2>1, <2>3, <2>4, <2>5 DEF PrintsInTurn
<1>3. ASSUME NEW status \in Outcomes, PrintEnds(status) PROVE PrintsInTurn'
  <2>1. PICK i \in DOMAIN entries :
          /\ entries[i].status = "in_progress"
          /\ entries' = [entries EXCEPT ![i] = Ended(entries[i], status)]
    BY <1>3 DEF PrintEnds
  <2>2. now' = now /\ status # "in_progress"
    BY <1>3, BoundsAssumption DEF PrintEnds, NativeStatuses
  <2>3. /\ DOMAIN entries' = DOMAIN entries
        /\ entries'[i].start = entries[i].start /\ entries'[i].end = now
        /\ entries'[i].status = status
        /\ \A k \in DOMAIN entries \ {i} : entries'[k] = entries[k]
    BY <1>0, <2>1 DEF Ended
  <2>4. \A k \in DOMAIN entries : ~(i < k)
    BY <2>1 DEF PrintsInTurn
  <2>5. \A k \in DOMAIN entries : k \in Nat /\ entries[k] \in Entry
    BY <1>0
  <2>6. \A k \in DOMAIN entries :
          /\ entries'[k].start = entries[k].start
          /\ entries'[k].end # NoTime => entries'[k].start <= entries'[k].end
                                        /\ entries'[k].end <= now
          /\ entries'[k].status = "in_progress" <=> entries'[k].end = NoTime
    BY <1>0, <2>2, <2>3, <2>5 DEF PrintsInTurn, NoTime
  <2>7. \A k, l \in DOMAIN entries : k < l => k # i /\ entries'[k] = entries[k]
    BY <2>3, <2>4
  <2> QED  BY <2>2, <2>3, <2>6, <2>7 DEF PrintsInTurn
<1>4. CASE Tick
  BY <1>0, <1>1, <1>4 DEF Tick
<1>5. CASE UNCHANGED <<now, entries>>
  BY <1>0, <1>1, <1>5
<1>6. CASE \/ Restart \/ SyncStep \/ StartAnswered \/ MarkFailed
           \/ \E j \in Jobs : Claim(j)
           \/ UNCHANGED vars
  <2>1. UNCHANGED <<now, entries>>
    BY <1>6 DEF Restart, SyncStep, BeginSync, FetchHistory, FetchFails, SkipEntry,
       MatchEntry, RecordEntry, EndSync, StartAnswered, MarkFailed, Claim, vars
  <2> QED  BY <1>5, <2>1
<1> QED  BY <1>2, <1>3, <1>4, <1>6 DEF Next

LEMMA InitEstablishes == Init => IInv
BY BoundsAssumption DEF Init, IInv, TypeOK, PrintsInTurn, NoMatch, RecordsAreDistinct, RecordsAreFinal,
   MatchIsFresh

\* What the entries in hand and the statuses Canonical knows have in common.
LEMMA CanonicalType ==
    /\ DOMAIN Canonical = {"completed", "cancelled", "error"}
    /\ \A s \in DOMAIN Canonical : Canonical[s] \in HistoryStatuses
BY DEF Canonical, HistoryStatuses

\* A step that leaves the history, the sync and the entries alone keeps the
\* invariant if jobs that had an end or a start keep that.
LEMMA JobsMove ==
    ASSUME IInv, TypeOK', PrintsInTurn', UNCHANGED <<filename, entries, history, sync>>,
           \A j \in Jobs :
             /\ jobStatus[j] \in HistoryStatuses => jobStatus'[j] \in HistoryStatuses
             /\ jobStatus[j] # "queued" => jobStatus'[j] # "queued"
    PROVE  IInv'
<1> USE DEF IInv, sync
<1>1. RecordsAreDistinct'
  BY DEF RecordsAreDistinct
<1>2. RecordsAreFinal'
  <2>1. \A k \in DOMAIN history : history[k] \in Record
    BY DEF TypeOK
  <2>2. \A r \in Record : r.job \in Jobs
    BY DEF Record
  <2> QED  BY <2>1, <2>2 DEF RecordsAreFinal
<1>3. MatchIsFresh'
  BY DEF MatchIsFresh
<1> QED  BY <1>1, <1>2, <1>3

\* A step that leaves the jobs and the history alone keeps the invariant if
\* it takes only entries out of the work that is left, and the match with them.
LEMMA SyncMoves ==
    ASSUME IInv, TypeOK', PrintsInTurn', UNCHANGED <<jobStatus, filename, entries, history>>,
           \A i \in todo' : entries[i].status # "in_progress",
           pc' # "record"
    PROVE  IInv'
<1> USE DEF IInv
<1>1. RecordsAreDistinct' /\ RecordsAreFinal'
  BY DEF RecordsAreDistinct, RecordsAreFinal
<1>2. MatchIsFresh'
  BY DEF MatchIsFresh
<1> QED  BY <1>1, <1>2

\* Prints begin and end without touching what is recorded or in hand.
LEMMA EntriesMove ==
    ASSUME IInv, PrintsInTurn',
           \/ \E j \in Jobs \cup {NoJob} : \E name \in Names : PrintBegins(j, name)
           \/ \E status \in Outcomes : PrintEnds(status)
    PROVE  IInv'
<1>1. /\ entries' \in Seq(Entry) /\ DOMAIN entries \subseteq DOMAIN entries'
      /\ \A i \in DOMAIN entries :
           /\ entries'[i].name = entries[i].name
           /\ entries[i].status # "in_progress" => entries'[i] = entries[i]
      /\ UNCHANGED <<now, jobs, history, sync>>
  BY EntriesGrow DEF IInv
<1>2. restarts' = restarts
  BY EntriesGrow DEF IInv
<1> USE <1>1, <1>2 DEF IInv, jobs, sync
<1>3. TypeOK'
  BY DEF TypeOK
<1>4. \A i \in todo : i \in DOMAIN entries /\ entries'[i] = entries[i]
  BY DEF TypeOK
<1>5. RecordsAreDistinct' /\ RecordsAreFinal'
  BY DEF RecordsAreDistinct, RecordsAreFinal
<1>6. MatchIsFresh'
  BY <1>4 DEF MatchIsFresh
<1> QED  BY <1>3, <1>4, <1>5, <1>6

\* What MatchEntry finds is a printing job and an entry without a record; and
\* a job with a record is not printing any more.
LEMMA MatchKeeps == IInv /\ PrintsInTurn' /\ MatchEntry => IInv'
<1> SUFFICES ASSUME IInv, PrintsInTurn', MatchEntry PROVE IInv'
  OBVIOUS
<1> USE DEF IInv
<1>1. PICK i \in todo : /\ entries[i].status # "unknown" /\ ~Recorded(i)
                        /\ \E j \in Matching(i) : match' = [entry |-> i, job |-> j]
  BY DEF MatchEntry, Newest
<1>2. PICK j \in Matching(i) : match' = [entry |-> i, job |-> j]
  BY <1>1
<1>3. j \in Jobs /\ jobStatus[j] = "printing" /\ filename[j] = entries[i].name
  BY <1>2 DEF Matching
<1>4. i \in Nat /\ i \in DOMAIN entries /\ entries[i] \in Entry
  BY DEF TypeOK
<1>5. entries[i].status \in DOMAIN Canonical
  <2>1. \A e \in Entry : e.status \in NativeStatuses \cup {"in_progress"}
    BY DEF Entry
  <2> QED  BY <1>1, <1>4, <2>1, CanonicalType DEF NativeStatuses
<1>6. UNCHANGED <<now, jobs, entries, history, since, todo, restarts>> /\ pc' = "record"
  BY DEF MatchEntry
<1>7. TypeOK'
  BY <1>2, <1>3, <1>4, <1>6 DEF TypeOK, jobs
<1>8. RecordsAreDistinct' /\ RecordsAreFinal'
  BY <1>6 DEF RecordsAreDistinct, RecordsAreFinal, jobs
<1>9. MatchIsFresh'
  <2>1. \A k \in DOMAIN history : history[k].entry # i
    BY <1>1 DEF Recorded
  <2>2. \A k \in DOMAIN history : history[k].job # j
    BY <1>3 DEF RecordsAreFinal, HistoryStatuses
  <2>3. jobStatus[j] # "queued"
    BY <1>3
  <2> QED
    BY <1>2, <1>3, <1>5, <1>6, <2>1, <2>2, <2>3 DEF MatchIsFresh, jobs
<1> QED  BY <1>6, <1>7, <1>8, <1>9

\* The new record is of an entry and a job that had none.
LEMMA RecordKeeps == IInv /\ PrintsInTurn' /\ RecordEntry => IInv'
<1> SUFFICES ASSUME IInv, PrintsInTurn', RecordEntry PROVE IInv'
  OBVIOUS
<1> USE DEF IInv
<1> DEFINE entry == entries[match.entry]
           outcome == Canonical[entry.status]
<1>0. PICK start \in Answered(entry.start), end \in Answered(entry.end) :
        /\ history' = Append(history,
                [job |-> match.job, entry |-> match.entry, status |-> outcome,
                 start |-> start, end |-> end, created |-> now])
        /\ jobStatus' = [jobStatus EXCEPT ![match.job] = outcome]
  BY DEF RecordEntry
<1> DEFINE record == [job |-> match.job, entry |-> match.entry, status |-> outcome,
                      start |-> start, end |-> end, created |-> now]
<1>1. /\ match.entry \in todo /\ match.job \in Jobs
      /\ entries[match.entry].status \in DOMAIN Canonical
      /\ entries[match.entry].name = filename[match.job]
      /\ \A k \in DOMAIN history :
           history[k].entry # match.entry /\ history[k].job # match.job
  BY DEF MatchIsFresh, RecordEntry
<1>2. outcome \in HistoryStatuses
  BY <1>1, CanonicalType
<1>3. /\ record \in Record /\ record.entry = match.entry /\ record.job = match.job
      /\ record.start = start /\ record.end = end
  <2>1. entry \in Entry
    BY <1>1 DEF TypeOK
  <2>2. start \in 0 .. MaxTime \cup {NoTime} /\ end \in 0 .. MaxTime \cup {NoTime}
    <3> HIDE DEF entry
    <3> QED  BY <1>0, <2>1 DEF Entry, Answered
  <2>3. match.job \in Jobs /\ match.entry \in Nat /\ now \in 0 .. MaxTime
    BY <1>1 DEF TypeOK
  <2> HIDE DEF outcome, entry
  <2> QED  BY <1>2, <2>2, <2>3 DEF Record
<1>4. /\ history' = Append(history, record)
      /\ jobStatus' = [jobStatus EXCEPT ![match.job] = outcome]
      /\ updatedAt' = [updatedAt EXCEPT ![match.job] = now]
      /\ todo' = todo \ {match.entry} /\ match' = NoMatch /\ pc' = "sync"
      /\ UNCHANGED <<now, filename, inHand, entries, since, restarts>>
  BY <1>0 DEF RecordEntry
<1> HIDE DEF outcome, record, entry
<1>5. history \in Seq(Record)
  BY DEF TypeOK
<1>6. history' \in Seq(Record) /\ Len(history') = Len(history) + 1
      /\ history'[Len(history) + 1] = record
      /\ \A k \in DOMAIN history : history'[k] = history[k]
  BY <1>3, <1>4, <1>5
<1>7. \A k \in DOMAIN history' : k \in DOMAIN history \/ history'[k] = record
  BY <1>5, <1>6
<1>8. TypeOK'
  BY <1>1, <1>2, <1>4, <1>6 DEF TypeOK, NoMatch, NoJob, Jobs, jobs
<1>9. RecordsAreDistinct'
  BY <1>1, <1>3, <1>5, <1>6, <1>7 DEF RecordsAreDistinct
<1>10. RecordsAreFinal'
  <2>1. jobStatus'[match.job] = outcome /\ \A j \in Jobs \ {match.job} : jobStatus'[j] = jobStatus[j]
    BY <1>1, <1>4 DEF TypeOK
  <2>2. match.entry \in DOMAIN entries
    BY <1>1 DEF TypeOK
  <2>3. \A k \in DOMAIN history : history[k].job \in Jobs
    <3>1. \A r \in Record : r.job \in Jobs
      BY DEF Record
    <3> QED  BY <1>5, <3>1
  <2>4. entry = entries[match.entry] /\ entry.status # "in_progress"
    <3>1. entries[match.entry].status # "in_progress"
      BY <1>1, CanonicalType
    <3> QED  BY <3>1 DEF entry
  <2> QED
    BY <1>0, <1>1, <1>2, <1>3, <1>4, <1>6, <1>7, <2>1, <2>2, <2>3, <2>4
       DEF RecordsAreFinal
<1>11. MatchIsFresh'
  BY <1>4 DEF MatchIsFresh
<1> QED  BY <1>4, <1>8, <1>9, <1>10, <1>11

\* Every step keeps the invariant.
LEMMA StepPreserves == IInv /\ [Next]_vars => IInv'
<1> SUFFICES ASSUME IInv, [Next]_vars PROVE IInv'
  OBVIOUS
<1>t. PrintsInTurn'
  BY TurnsAreKept DEF IInv
<1> USE <1>t
<1>0. TypeOK /\ \A i \in todo : entries[i].status # "in_progress"
  BY DEF IInv
<1>1. CASE Tick
  <2>1. TypeOK'
    BY <1>0, <1>1, BoundsAssumption DEF Tick, TypeOK, jobs, sync
  <2> QED  BY <1>1, <2>1, JobsMove DEF Tick, jobs
<1>2. CASE Restart
  <2>1. TypeOK'
    BY <1>0, <1>2, BoundsAssumption DEF Restart, TypeOK, NoMatch, NoJob
  <2> QED  BY <1>2, <2>1, SyncMoves DEF Restart, jobs
<1>3. ASSUME NEW j \in Jobs, Claim(j) PROVE IInv'
  <2>1. TypeOK'
    BY <1>0, <1>3 DEF Claim, TypeOK, sync
  <2>2. \A k \in Jobs : \/ jobStatus'[k] = jobStatus[k]
                        \/ jobStatus[k] = "queued"
    BY <1>0, <1>3 DEF Claim, TypeOK
  <2> QED  BY <1>3, <2>1, <2>2, JobsMove DEF Claim, HistoryStatuses
<1>4. CASE StartAnswered
  <2>1. TypeOK'
    BY <1>0, <1>4 DEF StartAnswered, TypeOK, sync
  <2> QED  BY <1>4, <2>1, JobsMove DEF StartAnswered
<1>5. CASE MarkFailed
  <2>1. TypeOK'
    BY <1>0, <1>5 DEF MarkFailed, TypeOK, sync, HistoryStatuses
  <2>2. \A k \in Jobs : jobStatus'[k] = jobStatus[k] \/ jobStatus'[k] = "failed"
    BY <1>0, <1>5 DEF MarkFailed, TypeOK
  <2> QED  BY <1>5, <2>1, <2>2, JobsMove DEF MarkFailed, HistoryStatuses
<1>6. CASE \/ \E j \in Jobs \cup {NoJob} : \E name \in Names : PrintBegins(j, name)
           \/ \E status \in Outcomes : PrintEnds(status)
  BY <1>6, EntriesMove
<1>7. CASE BeginSync
  <2>1. TypeOK'
    BY <1>0, <1>7, CursorType DEF BeginSync, TypeOK, jobs
  <2> QED  BY <1>0, <1>7, <2>1, SyncMoves DEF BeginSync, jobs
<1>8. CASE FetchHistory
  <2>1. todo' \subseteq DOMAIN entries
    BY <1>8 DEF FetchHistory, Answer
  <2>2. TypeOK'
    BY <1>0, <1>8, <2>1 DEF FetchHistory, TypeOK, jobs
  <2> QED  BY <1>8, <2>2, SyncMoves DEF FetchHistory, jobs
<1>9. CASE FetchFails
  <2>1. TypeOK'
    BY <1>0, <1>9 DEF FetchFails, TypeOK, jobs
  <2> QED  BY <1>0, <1>9, <2>1, SyncMoves DEF FetchFails, jobs
<1>10. CASE SkipEntry
  <2>1. todo' \subseteq todo
    BY <1>10 DEF SkipEntry
  <2>2. TypeOK'
    BY <1>0, <1>10, <2>1 DEF SkipEntry, TypeOK, jobs
  <2> QED  BY <1>0, <1>10, <2>1, <2>2, SyncMoves DEF SkipEntry, jobs
<1>11. CASE MatchEntry
  BY <1>11, MatchKeeps
<1>12. CASE RecordEntry
  BY <1>12, RecordKeeps
<1>13. CASE EndSync
  <2>1. TypeOK'
    BY <1>0, <1>13 DEF EndSync, TypeOK, jobs
  <2> QED  BY <1>0, <1>13, <2>1, SyncMoves DEF EndSync, jobs
<1>14. CASE UNCHANGED vars
  <2>1. TypeOK'
    BY <1>0, <1>14 DEF vars, TypeOK, jobs, sync
  <2> QED  BY <1>14, <2>1, JobsMove DEF vars, jobs
<1> QED
  BY <1>1, <1>2, <1>3, <1>4, <1>5, <1>6, <1>7, <1>8, <1>9, <1>10, <1>11, <1>12,
     <1>13, <1>14 DEF Next, SyncStep

\* The bookkeeping of the history sync holds in every behaviour.
THEOREM HistoryInvariant == Spec => []IInv
<1>1. Init => IInv
  BY InitEstablishes
<1>2. IInv /\ [Next]_vars => IInv'
  BY StepPreserves
<1> QED  BY <1>1, <1>2, PTL DEF Spec

\* No print is recorded twice, and no job has two records, however often the
\* same answer is fetched and however late a start request fails.
THEOREM RecordsAreDistinctAlways == Spec => []RecordsAreDistinct
<1>1. IInv => RecordsAreDistinct
  BY DEF IInv
<1> QED  BY <1>1, HistoryInvariant, PTL

\* A record whose file name is the name of one job only is that job's.
THEOREM UnambiguousRecordsAreRight == Spec => []UnambiguousRecordIsRight
<1>1. IInv => UnambiguousRecordIsRight
  <2>1. \A r \in Record : r.job \in Jobs
    BY DEF Record
  <2>2. ASSUME IInv, NEW k \in DOMAIN history,
               entries[history[k].entry].job # NoJob,
               \A j \in Jobs \ {entries[history[k].entry].job} :
                 filename[j] # entries[history[k].entry].name
        PROVE  history[k].job = entries[history[k].entry].job
    <3>1. /\ history[k].entry \in DOMAIN entries
          /\ filename[history[k].job] = entries[history[k].entry].name
      BY <2>2 DEF IInv, RecordsAreFinal
    <3>2. history[k] \in Record
      BY <2>2 DEF IInv, TypeOK
    <3> QED  BY <2>1, <2>2, <3>1, <3>2
  <2> QED
    BY <2>2 DEF UnambiguousRecordIsRight
<1> QED  BY <1>1, HistoryInvariant, PTL

=============================================================================
