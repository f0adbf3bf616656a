----------------------------- MODULE HistorySync -----------------------------
(***************************************************************************)
(* run_history_sync_cycle for one printer: every minute it asks Moonraker  *)
(* for the prints started since the newest row of job_history was created, *)
(* and for each that has ended it finds the job it was, by file name,      *)
(* inserts a row in job_history and gives the job its final status.        *)
(*                                                                         *)
(* Dispatch.tla reduces this to HistoryMatch and HistoryRecord; here are   *)
(* the cursor, the list of entries and the match.  Printers are synced one *)
(* after the other and share nothing, so one is enough.                    *)
(***************************************************************************)
EXTENDS Integers, Sequences, FiniteSets, FiniteSetsExt, PrintFarmTypes

CONSTANTS
    MaxJobs,     \* bound: jobs of the printer
    Names,       \* file names
    MaxPrints,   \* bound: prints of the printer
    MaxLocal,    \* bound: those of them that no row of jobs stands for
    MaxTime,     \* bound: seconds
    Outcomes,    \* how prints may end, a subset of NativeStatuses
    MaxRestarts, \* bound: restarts of the service
    Limit        \* entries in an answer, 50 in the code

NativeStatuses == {"completed", "cancelled", "error", "unknown"}

ASSUME BoundsAssumption ==
    /\ Outcomes \subseteq NativeStatuses
    /\ MaxJobs \in Nat /\ MaxPrints \in Nat /\ MaxLocal \in Nat /\ MaxTime \in Nat
    /\ MaxRestarts \in Nat
    /\ Limit \in Nat \ {0}

Jobs == 1 .. MaxJobs
NoJob == 0

VARIABLES
    now,
    \* the printer's rows of table jobs
    jobStatus, filename, updatedAt,
    \* the job whose start request run_dispatch_cycle waits for
    inHand,
    \* Moonraker's history; the index is moonraker's job_id, and job tells
    \* (to the properties only) which row the print was started for
    entries,
    \* table job_history, in order
    history,
    \* run_history_sync_cycle: control, cursor, indices still to do, match
    pc, since, todo, match,
    restarts

jobs == <<jobStatus, filename, updatedAt, inHand>>
sync == <<pc, since, todo, match>>
vars == <<now, jobs, entries, history, sync, restarts>>

NoTime == -1      \* None
NoMatch == [entry |-> 0, job |-> NoJob]

\* map_native_history_status; error stands for error, klippy_shutdown,
\* klippy_disconnect and interrupted, unknown for any other value.
Canonical == [completed |-> "finished", cancelled |-> "cancelled", error |-> "failed"]

\* A print as the printer knows it; an answer may lack either of its times,
\* and the columns of the record are then NULL.
Entry == [job : Jobs \cup {NoJob}, name : Names, start : 0 .. MaxTime,
          end : 0 .. MaxTime \cup {NoTime}, status : NativeStatuses \cup {"in_progress"}]
Record == [job : Jobs, entry : Nat, status : HistoryStatuses,
           start : 0 .. MaxTime \cup {NoTime}, end : 0 .. MaxTime \cup {NoTime},
           created : 0 .. MaxTime]

TypeOK ==
    /\ now \in 0 .. MaxTime
    /\ jobStatus \in [Jobs -> {"queued", "printing"} \cup HistoryStatuses]
    /\ filename \in [Jobs -> Names]
    /\ updatedAt \in [Jobs -> 0 .. MaxTime]
    /\ entries \in Seq(Entry)
    /\ history \in Seq(Record)
    /\ pc \in {"idle", "fetch", "sync", "record"}
    /\ since \in 0 .. MaxTime \cup {NoTime}
    /\ todo \subseteq DOMAIN entries
    /\ inHand \in Jobs \cup {NoJob}
    /\ restarts \in 0 .. MaxRestarts
    /\ match \in [entry : Nat, job : Jobs \cup {NoJob}]

Init ==
    /\ now = 0
    /\ jobStatus = [j \in Jobs |-> "queued"]
    /\ filename \in [Jobs -> Names]
    /\ updatedAt = [j \in Jobs |-> 0]
    /\ entries = <<>>
    /\ history = <<>>
    /\ pc = "idle" /\ since = NoTime /\ todo = {} /\ match = NoMatch
    /\ inHand = NoJob /\ restarts = 0

-----------------------------------------------------------------------------
(* Around the sync: time, dispatch and the printer *)

Tick ==
    /\ now < MaxTime
    /\ now' = now + 1
    /\ UNCHANGED <<jobs, entries, history, sync, restarts>>

\* run_dispatch_cycle claims a job and sends its start request; ...
Claim(j) ==
    /\ inHand = NoJob
    /\ jobStatus[j] = "queued"
    /\ jobStatus' = [jobStatus EXCEPT ![j] = "printing"]
    /\ updatedAt' = [updatedAt EXCEPT ![j] = now]
    /\ inHand' = j
    /\ UNCHANGED <<now, filename, entries, history, sync, restarts>>

Begun(j) == \E i \in DOMAIN entries : entries[i].job = j

\* ... the answer comes, ...
StartAnswered ==
    /\ inHand # NoJob /\ Begun(inHand)
    /\ inHand' = NoJob
    /\ UNCHANGED <<now, jobStatus, filename, updatedAt, entries, history, sync, restarts>>

\* ... or it does not, and the job is failed whatever has become of it.
MarkFailed ==
    /\ inHand # NoJob
    /\ jobStatus' = [jobStatus EXCEPT ![inHand] = "failed"]
    /\ updatedAt' = [updatedAt EXCEPT ![inHand] = now]
    /\ inHand' = NoJob
    /\ UNCHANGED <<now, filename, entries, history, sync, restarts>>

Printing == \E i \in DOMAIN entries : entries[i].status = "in_progress"

\* The printer takes the start request of a job, or a print of its own: one that
\* somebody started at the printer or by start_print, which inserts no row.
PrintBegins(j, name) ==
    /\ ~Printing
    /\ Len(entries) < MaxPrints
    /\ \/ j \in Jobs /\ jobStatus[j] # "queued" /\ ~Begun(j) /\ name = filename[j]
       \/ /\ j = NoJob
          /\ Cardinality({i \in DOMAIN entries : entries[i].job = NoJob}) < MaxLocal
    /\ entries' = Append(entries,
            [job |-> j, name |-> name, start |-> now, end |-> NoTime,
             status |-> "in_progress"])
    /\ UNCHANGED <<now, jobs, history, sync, restarts>>

Ended(entry, status) ==
    [job |-> entry.job, name |-> entry.name, start |-> entry.start, end |-> now,
     status |-> status]

PrintEnds(status) ==
    /\ \E i \in DOMAIN entries :
        /\ entries[i].status = "in_progress"
        /\ entries' = [entries EXCEPT ![i] = Ended(@, status)]
    /\ UNCHANGED <<now, jobs, history, sync, restarts>>

-----------------------------------------------------------------------------
(* run_history_sync_cycle *)

\* Mutant of Cursor: without any history, from now on.
CursorFromNow ==
    IF history = <<>> THEN now ELSE Max({history[i].created : i \in DOMAIN history})

\* SELECT MAX(created_at) FROM job_history
Cursor ==
    IF history = <<>> THEN NoTime ELSE Max({history[i].created : i \in DOMAIN history})

BeginSync ==
    /\ pc = "idle"
    /\ pc' = "fetch"
    /\ since' = Cursor
    /\ UNCHANGED <<now, jobs, entries, history, todo, match, restarts>>

\* Moonraker returns the newest Limit entries started after the cursor.  A
\* start time has fractions of a second, the cursor has none.
Answer ==
    LET newer == {i \in DOMAIN entries : entries[i].start >= since}
    IN {i \in newer : Cardinality({k \in newer : k > i}) < Limit}

\* The loop below takes the entries of the answer, the newest first, and passes
\* over those that are in progress at this moment.
FetchHistory ==
    /\ pc = "fetch"
    /\ todo' = {i \in Answer : entries[i].status # "in_progress"}
    /\ pc' = "sync"
    /\ UNCHANGED <<now, jobs, entries, history, since, match, restarts>>

\* MoonrakerClientError: next printer.
FetchFails ==
    /\ pc = "fetch"
    /\ pc' = "idle" /\ since' = NoTime
    /\ UNCHANGED <<now, jobs, entries, history, todo, match, restarts>>

\* Mutant of Recorded: the entry is not looked up.
NeverRecorded(i) == FALSE

Recorded(i) == \E k \in DOMAIN history : history[k].entry = i

\* Mutant of Matching: by printer and status only.
MatchingAnyName(i) ==
    LET printing == {j \in Jobs : jobStatus[j] = "printing"}
    IN {j \in printing : \A k \in printing : updatedAt[k] <= updatedAt[j]}

\* SELECT ... printer_id = ? AND filename = ? AND status = 'printing'
\* ORDER BY updated_at DESC LIMIT 1: a newest one.
Matching(i) ==
    LET printing == {j \in Jobs : jobStatus[j] = "printing" /\ filename[j] = entries[i].name}
    IN {j \in printing : \A k \in printing : updatedAt[k] <= updatedAt[j]}

\* The entry in hand.
Newest == {i \in todo : \A k \in todo : k <= i}

\* An entry of unknown status, or recorded before, or that no job matches, is
\* passed over.
SkipEntry ==
    /\ pc = "sync"
    /\ \E i \in Newest :
        /\ entries[i].status = "unknown" \/ Recorded(i) \/ Matching(i) = {}
        /\ todo' = todo \ {i}
    /\ UNCHANGED <<now, jobs, entries, history, pc, since, match, restarts>>

MatchEntry ==
    /\ pc = "sync"
    /\ \E i \in Newest :
        /\ entries[i].status # "unknown" /\ ~Recorded(i)
        /\ \E j \in Matching(i) : match' = [entry |-> i, job |-> j]
    /\ pc' = "record"
    /\ UNCHANGED <<now, jobs, entries, history, since, todo, restarts>>

\* _unix_time_to_iso8601(entry.get(...)): a time, or None where the answer
\* has none.
Answered(time) == {time, NoTime}

\* Mutant of RecordEntry: the entry's status is stored as Moonraker gives it.
RecordEntryNative ==
    /\ pc = "record"
    /\ LET entry == entries[match.entry]
       IN \E start \in Answered(entry.start), end \in Answered(entry.end) :
            /\ history' = Append(history,
                    [job |-> match.job, entry |-> match.entry, status |-> entry.status,
                     start |-> start, end |-> end, created |-> now])
            /\ jobStatus' = [jobStatus EXCEPT ![match.job] = entry.status]
    /\ updatedAt' = [updatedAt EXCEPT ![match.job] = now]
    /\ todo' = todo \ {match.entry}
    /\ match' = NoMatch
    /\ pc' = "sync"
    /\ UNCHANGED <<now, filename, inHand, entries, since, restarts>>

\* INSERT INTO job_history; UPDATE jobs; COMMIT.
RecordEntry ==
    /\ pc = "record"
    /\ LET entry == entries[match.entry]
           outcome == Canonical[entry.status]
       IN \E start \in Answered(entry.start), end \in Answered(entry.end) :
            /\ history' = Append(history,
                    [job |-> match.job, entry |-> match.entry, status |-> outcome,
                     start |-> start, end |-> end, created |-> now])
            /\ jobStatus' = [jobStatus EXCEPT ![match.job] = outcome]
    /\ updatedAt' = [updatedAt EXCEPT ![match.job] = now]
    /\ todo' = todo \ {match.entry}
    /\ match' = NoMatch
    /\ pc' = "sync"
    /\ UNCHANGED <<now, filename, inHand, entries, since, restarts>>

EndSync ==
    /\ pc = "sync" /\ todo = {}
    /\ pc' = "idle" /\ since' = NoTime
    /\ UNCHANGED <<now, jobs, entries, history, todo, match, restarts>>

SyncStep ==
    \/ BeginSync \/ FetchHistory \/ FetchFails
    \/ SkipEntry \/ MatchEntry \/ RecordEntry \/ EndSync

\* The service restarts: what was read is gone.
Restart ==
    /\ restarts < MaxRestarts
    /\ restarts' = restarts + 1
    /\ pc' = "idle" /\ since' = NoTime /\ todo' = {} /\ match' = NoMatch
    /\ inHand' = NoJob
    /\ UNCHANGED <<now, jobStatus, filename, updatedAt, entries, history>>

-----------------------------------------------------------------------------
Next ==
    \/ Tick \/ Restart \/ SyncStep
    \/ \E j \in Jobs : Claim(j)
    \/ StartAnswered \/ MarkFailed
    \/ \E j \in Jobs \cup {NoJob} : \E name \in Names : PrintBegins(j, name)
    \/ \E status \in Outcomes : PrintEnds(status)

Spec == Init /\ [][Next]_vars

\* The scheduler starts a cycle every minute, and a printer that is asked
\* again and again answers at some time.
FairSpec == Spec /\ WF_vars(SyncStep) /\ SF_vars(FetchHistory)

-----------------------------------------------------------------------------
(* Properties *)

\* A print of Moonraker's history is recorded once, and a job has one record,
\* though the same entries are fetched over and over (the cursor is coarse),
\* jobs share file names, and a job's status is overwritten by a late failure.
RecordsAreDistinct ==
    \A a, b \in DOMAIN history :
        a # b => history[a].entry # history[b].entry /\ history[a].job # history[b].job

\* Where the file name is the name of one job only, the record of a print is
\* the record of the job it was started for.
UnambiguousRecordIsRight ==
    \A k \in DOMAIN history :
        LET entry == entries[history[k].entry]
        IN (/\ entry.job # NoJob
            /\ \A j \in Jobs \ {entry.job} : filename[j] # entry.name)
           => history[k].job = entry.job

\* A printing job with an ended print of its file name that is still among the
\* newest Limit prints.
Recordable(j) ==
    /\ jobStatus[j] = "printing"
    /\ \E i \in DOMAIN entries :
        /\ entries[i].name = filename[j]
        /\ entries[i].status \notin {"in_progress", "unknown"}
        /\ i + Limit > Len(entries)

\* While the printer has no record at all, the sync does not leave such jobs
\* waiting for ever, whatever fetches fail: the first one asks without cursor.
FirstEndIsRecorded == []<>(history # <<>> \/ \A j \in Jobs : ~Recordable(j))

\* Claimed by the tests of run_history_sync_cycle: a job whose print has
\* completed gets its final status.  Here only for a job that shares its file
\* name with no other.
EndedJobIsRecorded ==
    \A j \in Jobs :
        (/\ \A k \in Jobs \ {j} : filename[k] # filename[j]
         /\ \E i \in DOMAIN entries : entries[i].job = j /\ entries[i].status = "completed")
        ~> jobStatus[j] # "printing"

-----------------------------------------------------------------------------
(* The inductive invariant behind the records *)

\* A record is of an ended entry of its job's file name, with its times or
\* without, and its job is never again one that could be matched.
RecordsAreFinal ==
    \A k \in DOMAIN history :
        /\ history[k].entry \in DOMAIN entries
        /\ LET entry == entries[history[k].entry]
           IN /\ entry.status # "in_progress"
              /\ filename[history[k].job] = entry.name
              /\ history[k].start \in Answered(entry.start)
              /\ history[k].end \in Answered(entry.end)
        /\ jobStatus[history[k].job] \in HistoryStatuses

\* Between its SELECTs and its INSERT the sync holds an entry and a job that
\* have no record, though the job may have been failed meanwhile.
MatchIsFresh ==
    pc = "record" =>
        /\ match.entry \in todo /\ match.job \in Jobs
        /\ entries[match.entry].status \in DOMAIN Canonical
        /\ entries[match.entry].name = filename[match.job]
        /\ jobStatus[match.job] # "queued"
        /\ \A k \in DOMAIN history :
            history[k].entry # match.entry /\ history[k].job # match.job

\* A printer prints one file at a time: a print begins when the one before has
\* ended, and what has no end yet is the last.
PrintsInTurn ==
    \A i \in DOMAIN entries :
        /\ entries[i].start <= now
        /\ entries[i].status = "in_progress" <=> entries[i].end = NoTime
        /\ entries[i].end # NoTime => entries[i].start <= entries[i].end /\ entries[i].end <= now
        /\ \A k \in DOMAIN entries :
            k < i => entries[k].end # NoTime /\ entries[k].end <= entries[i].start

\* All of it, which every step keeps.
IInv ==
    /\ TypeOK
    /\ PrintsInTurn
    /\ \A i \in todo : entries[i].status # "in_progress"
    /\ RecordsAreDistinct
    /\ RecordsAreFinal
    /\ MatchIsFresh
=============================================================================
