# Verification of the print farm service

TLA+ models of the service in `src/app`, checked with TLC on small instances,
and theorems about them that hold for every instance, proved with TLAPS.

The service keeps a farm of Klipper printers, each behind a Moonraker server.
It is one Python process: FastAPI request handlers and three background
schedulers share a SQLite database and call the printers over HTTP. Every
SELECT and every commit is atomic, and nothing is locked between them; what can
go wrong goes wrong there.

## 1. The system

| Component | State it keeps | Operations | Where |
|---|---|---|---|
| Dispatch | `jobs.status` | `run_dispatch_cycle` every 5 s: SELECT the idle, unlocked printers; per printer the next queued job, claim it, `start_uploaded_print`, mark it failed on error | `app/dispatch` |
| Job queue of a printer | rows of `jobs`; Moonraker's own queue where the printer has `job_queue` | upload (INSERT, HTTP, UPDATE), hand-over to Moonraker, reorder | `app/printers/service.py`, `router.py` |
| Heartbeat | `printers.status`, `is_held`, `consecutive_heartbeat_failures`, `next_heartbeat_at` | `run_heartbeat_cycle` every 5 s: poll the due printers one after the other, write each row back | `app/heartbeat` |
| Printer commands | `printers.status`, `is_held` | start, pause, resume, cancel, emergency stop, power on/off (command, poll, write); `GET /printers` (poll and write all); confirm (release the hold) | `app/printers/service.py` |
| History sync | `job_history`, `jobs.status` | `run_history_sync_cycle` every 60 s: cursor, fetch, match by file name, record | `app/history` |
| Moonraker client and drivers | none | HTTP calls; every transport or HTTP error is a `MoonrakerClientError`, a malformed body is some other exception | `app/moonraker`, `app/drivers/base.py` |
| Driver registry | registrations for version ranges and for models | register, resolve in three tiers | `app/drivers/registry.py` |
| Printer registry | which rows of `printers` there are | create (probe, INSERT), update, delete | `app/printers/service.py` |
| Auto-assign | none | SELECT the idle and the printing candidates, choose one, upload to it | `app/printers/auto_assign.py` |
| Realtime | state store, one task per printer | websocket subscriptions, reconnects, SSE stream | `app/realtime` |
| Alerts | `events`, last status seen | compare snapshots of the store every 5 s | `app/realtime/alerts.py` |
| Reports | none | totals over `job_history` | `app/reports` |
| Spools, pages | none | reads | `app/spools`, `app/main.py` |
| Moonraker simulator | - | test double | `tools/moonraker_simulator` |

How they meet:

- through the rows of `printers`: the heartbeat, the listing and the commands
  write them, dispatch and auto-assign choose printers by them;
- through the rows of `jobs`: uploads insert and queue, reorders set the
  priority, dispatch claims and fails, the history sync finishes;
- through the printers' ids: handlers, the heartbeat, jobs, events and websocket
  tasks keep them while rows of `printers` come and go;
- through the printers: a command or a started print changes what the next poll
  finds, and what Moonraker's history will contain;
- `deploy/qidi-farm.service` restarts the process when it dies
  (`Restart=always`); rows stay, threads and what they had read are gone.

What is hard here is listed, line by line, under `hazards` in `PROJECT.json`:
rows used after they went stale (heartbeat, reorder, dispatch), updates that do
not look at what they overwrite, answers that come late or never, exceptions
that end a cycle in the middle, a crash between a commit and the request that
follows it, and a cursor that compares two different clocks.

What makes the components correct:

- dispatch: a job is started at most once; no queued job is forgotten; jobs are
  taken in their order; a locked printer gets none;
- heartbeat: rows converge to their printers' statuses; an end of print locks
  the printer; a lock goes only for the reasons the code names;
- history: a print is recorded once, a job gets one record, of its own print,
  and every ended job gets one; reports count each print once;
- registry: an id never comes to name another
  printer, a job keeps its printer; auto-assign's choice is still one of the
  shortest queues when the file is sent;
- driver registry: which driver a printer gets depends on its model, its version
  and the order of its model's registrations, and on nothing else.

Where the code does not have the property, the property is a run that TLC must
find violated, and a finding in `PROJECT.json` quotes the manual or the test
that promises it.

## 2. The modules

| Module | What it models |
|---|---|
| `PrintFarmTypes` | the value sets of the schema's CHECK constraints and the subsets the services test for |
| `JobLifecycle` | abstract specification: what the farm promises about one job |
| `Dispatch` | the rows of `jobs`: upload, reorder, dispatch, and the history sync as two steps |
| `PrinterRow` | the mutable part of the rows of `printers`: heartbeat, commands, listing, confirmation |
| `Farm` | `Dispatch` and `PrinterRow` composed; `candidate` becomes "status = 'IDLE' AND is_held = 0" of the rows |
| `HistorySync` | the history sync of one printer in detail: clock, cursor, entries, match |
| `Reports` | what `compute_report_summary` makes of the history of `HistorySync` |
| `Realtime` | websocket tasks, their listeners, the state store, the alert watcher |
| `Registry` | registration and deletion of printers among everything that holds a row or an id; auto-assign |
| `DriverRegistry` | version comparison, ranges, registrations and lookup of drivers |
| `DispatchProofs`, `PrinterRowProofs`, `FarmProofs`, `HistorySyncProofs`, `ReportsProofs`, `RealtimeProofs`, `RegistryProofs`, `DriverRegistryProofs` | theorems and proofs |
| `MCDispatch`, `MCPrinterRow`, `MCFarm`, `MCHistorySync`, `MCRealtime`, `MCRegistry`, `MCDriverRegistry` | the modules TLC is run on, and their model values |

The grain is one SQL statement or transaction, or one HTTP exchange. A start
request is three steps (sent, taken by the printer, answered), since its answer
may be lost when the request was not. A definition named `...Unguarded`,
`...NewestFirst` and so on, with a comment that begins "Mutant of", is a
plausible bug of the definition after it; `PROJECT.json` pairs each with the
property it must violate. No specification uses one.

### Dispatch

One row of `jobs` is four functions: `jobStatus`, `printerOf`, `priority`,
`created`. A dispatcher is a thread that may run `run_dispatch_cycle`. One
scheduler runs one cycle at a time, but a cycle runs in a thread of its own
(`asyncio.to_thread`), and a service that is stopped abandons that thread while
the next service starts; so two dispatchers are the case to check. `pc` follows
the loop: `BeginCycle` takes the snapshot of candidates, `SkipPrinter` and
`PickJob` are the SELECT for the next of them, `ClaimJob` / `LoseClaim` the
guarded UPDATE with its rowcount, `SendStart` / `StartSucceeds` / `StartFails` /
the HTTP call and its outcomes. `CycleAborts` is any other exception, which the
scheduler logs before it goes on with the next cycle: it may come at every step of
a cycle, be it a locked database, `resolve_driver` or an answer that is no JSON. One
that comes after the commit of a claim leaves the row 'printing', whether or not the
printer has anything, and no code looks at it again unless the history sync finds a
print of its name; so the model says nothing of what such a row means.
`NextQueued` is a set because
`created_at` has a grain of one second and no further sort key follows.

The upload route is a coroutine that calls the service synchronously, so there
is one upload at a time (`upPc`); reorders run in the thread pool, one per
operator. The rows of `printers` appear through `candidate` alone and may change
at any time.

`JobLifecycle` knows none of this. `Dispatch` implements it with
`phase <- jobStatus`, `sent <-` the jobs with a start request, `recorded <-` the
jobs with a record.

### PrinterRow

`status`, `held`, `failures` are columns; `due` says that `next_heartbeat_at`
has passed. A heartbeat reads the due rows into `hbRead` (as the SELECT
does), then polls and writes one after the other. A printer is what a poll would
find (`dev`) and how it answers (`link`): as expected, not at all or with an
HTTP error, or with a body that is not the expected JSON, which no handler
catches. A request handler is a record: it sends its command, polls, writes the
status; or reads the row and releases the hold. `GET /printers` is modelled as
one handler step per printer. `MaxExponent` stands for 1023, the largest n for
which `2.0 ** n` is a finite float.

### Farm

`Farm` lets both sides step, with `Candidate` in the place of `candidate`, and
joins `PrinterAccepts` with the printer's change to PRINTING. Printers with a
queue of their own are left out (`JobQueuePrinters = {}`): dispatch passes them
over. What the composition can get wrong is between the parts: which printers
dispatch passes over, for how long, and on the strength of which rows.
`LockedPrinterGetsNoJob` and `IdlePrinterIsFed` are the two sides of that: a printer
locked since before a cycle began gets no job from it, and one that is free in
the end gets every job that waits for it. A printer that is locked after the snapshot was
taken may still be sent a job; the code does not look again. That `Farm` allows
nothing that one of its parts does not (`ImplementsJobSide`, `ImplementsPrinterSide`)
holds by the way it is composed; it is stated for `FarmProofs`, where it carries the
theorems about the parts over.

### HistorySync

One printer; the others are independent of it. `entries` is Moonraker's history,
the position being Moonraker's job id; `job` in an entry tells the properties
for which row the print was started, the code never sees it. `updatedAt` and the
cursor have the grain of the clock.

### Reports

Operators over `history`, one per total of the summary, sums being folds over sets
of rows. A record has the start and the end of its entry, or NULL where Moonraker's
answer had none (`Answered`): a record without a start counts in the error rate of all time
and in no period and no week, one without either time has no run time.
A report counts the whole duration of a print in
the period in which it started, so that periods add up but the run time of one
period may be longer than the period.

### Realtime

All of it runs on one event loop and the lock of the store is never held across
an `await`, so a step goes from one `await` of the websocket library to the next.
`pc` follows `_run_printer_connection` and the `connect()` it calls; `ws`,
`disconnected` and `connectedOnce` are the connection object's; `session` and
`told` are the printer's side of the websocket. What a printer reports is its
canonical status: `_compute_state` derives it from the merged deltas, and the
progress, the file name and the temperatures beside it take no part in any
decision. A watch cycle is one step, since nothing in it waits. The library is
external: it may run `on_notification` before it resumes the task that waits for
the reply to its subscription (`overtaken`), it may give up on a reply that the
printer has sent, and it notices a dead websocket at some time. The state store
and the rows of `printers` share nothing: the heartbeat does not feed the alerts.

### Registry

A row of `printers` is `host` (`NoHost` where there is none), `status` and `held`;
`lastId` is SQLite's memory of the ids it gave. Request handlers and the
heartbeat read copies of rows (`Copy`, an id and an address), poll the address and
write by the id; an UPDATE of a row that is gone changes nothing, and the listing
ends with an exception when it reads that row again. `DeleteRow` is the DELETE with
SQLite's check of the foreign keys: a row that jobs or events refer to stays, and
the request is a 409. The websocket pool and the alert watcher know the printers
of the service's start, and the watcher's connection does not check foreign keys,
so events may be stored for printers that are gone. What a status or a lock means
is the matter of `PrinterRow`: here a poll finds any status, and a confirmation is
one step.

The upload routes are coroutines that call the service synchronously, so that
there is one upload at a time (`upPc`). Auto-assign makes two SELECTs
(`AutoReadIdle`, and `AutoSelect` with the look into the state store, whose lock is
never contended, so that the coroutine is not suspended in between), chooses,
and goes on as an upload does; heartbeats, dispatch and thread-pool requests step
between its statements.

### DriverRegistry

A version is the tuple of numbers `_parse_version` finds, or `Garbled`, for which
it raises; a range is the sequence of its constraints or `Any`. `Resolve` is
`resolve_driver_class`, with `ValueError` as one of its results. `Before` is the
lexicographic order of the padded tuples, which is what Python's comparison of
them computes.

## 3. The runs

| Run | Instance | What it shows |
|---|---|---|
| `MCDispatchClaims` | 1 printer, 2 jobs, 2 dispatchers, 1 crash, fair | the ownership invariant; one start and one record per job, records that agree with the row, upload order, no job forgotten though cycles overlap and end anywhere; the refinement of `JobLifecycle` with a crash |
| `MCDispatchMixed` | 2 printers, one with its own queue, 2 jobs, 1 dispatcher, 1 operator | the inductive invariant; a reorder puts the jobs it names first, though the queue changed since it was validated; the refinement of `JobLifecycle` with Moonraker's queue |
| `MCHold` | 1 printer, all requests, all answers, 1 restart | the write back hides no lock; locks go only by a confirmation or a new print |
| `MCHeartbeatLive` | 2 printers, listing, outages, malformed answers of the first, fair | rows converge |
| `MCFarm` | 1 printer, 1 job, confirmations, outages, 1 crash, fair | a cycle gives no job to a printer locked since before it began; a free printer gets the jobs that wait for it |
| `MCHistory` | 2 jobs, 2 prints, 1 of them nobody's at most, 2 names, 2 times, 1 missing at most, 2 outcomes, 1 restart, fair | the inductive invariant; records are distinct, unambiguous ones are right, the first end of print is recorded; reports count each print once and add up but for the prints without a start |
| `MCRealtime` | 1 printer, 3 statuses, 2 changes, 1 restart, fair | no task sleeps on a lost websocket; the store catches up; lasting alerts are recorded, and again only after a change or a restart |
| `MCRegistry` | 2 addresses, 2 ids, 2 jobs, 2 request threads, 1 restart | the inductive invariant; no id for two printers, no job without its printer, auto-assign's choice still a shortest queue |
| `MCDriverRegistry` | 2 models, 2 drivers, 6 versions, 6 ranges | equal versions resolve alike, ranges are intervals, models do not disturb each other, what a range has decided stays |
| `MCHoldMissed` | *violation* | `GET /printers` hides the end of a print from the heartbeat |
| `MCDoubleDispatch` | *violation* | later cycles dispatch to a printer that is already printing |
| `MCHistoryLost` | *violation* | a print that overlaps a record's creation is never recorded |

A run has one model and asks of it every question the model can answer; there
are no two runs of one model that differ in properties alone.

Bounds. Every bound is a constant: `MaxJobs`, `MaxNativeRuns`, `MaxCrashes`,
`MaxRestarts`, `MaxExponent`, `MaxPrints`, `MaxLocal`, `MaxTime`, `Limit`, and the sets of
threads; constraints of the runs are named below. Two dispatchers and two jobs are the least with which two threads can
want one job, and one thread can lose one and take the other; a third adds
only repetition, and the theorems cover any number. One printer is enough where
the property is about one row and rows share nothing; two where an order among
rows matters (`MCHeartbeatLive`, `MCDispatchMixed`). With
`MaxExponent` = 1 the second failure in a row overflows. `MCHold` leaves out the
status ERROR, which `HeldAfter` treats as FINISHED; the violation
`MCHoldMissed` has it. In `MCHeartbeatLive` the first printer alone gives malformed
answers (`OddFirst`): it is the one whose exceptions keep the heartbeat from the
other. `MCFarm` has the statuses IDLE, PRINTING and FINISHED (and OFFLINE in the row of a
printer that cannot be reached), no reorders (`MCDispatchMixed` has them) and no
malformed answers (`MCHold` has them); `FarmProofs` covers all of that for the
safety property. With one printer it does not show that the printers behind a failing one
are served by later cycles, and they are not if it fails in every cycle. `MCDispatchClaims`
has the crash and the overlap of cycles, `MCDispatchMixed` neither, but the second kind of
printer and the reorders; `DispatchProofs` covers them together. Two constraints keep these
runs small: no print is cancelled in `MCDispatchClaims` (`NoneCancelled`; a cancelled print
is to every definition what a finished one is), and the printer with a queue of
its own is always a candidate in `MCDispatchMixed` (`QueuePrintersIdle`), since dispatch
passes it over.
`MCHistory` has a completed print and a failed one, and in its initial states
the first job has the first name, since names are interchangeable (`FirstNameFixed`);
at most one time is missing in all of its records (`OneTimeMissing`). Its
`Limit` = 2 is as long as its history: that older entries drop out of the page is in the
model and in the proofs, and `FirstEndIsRecorded` speaks of the jobs
that stay in it. `MaxTime` = 1 gives equal and unequal times; `MCHistoryLost`
needs one more. In `MCRealtime` two changes of status take a printer into one
alert status and on to the other, or back to a normal one; with `MaxExponent` = 1
the second failure in a row overflows.

`MCRegistry` has a constraint, too: the jobs uploaded, the restarts and the
requests in progress are `Budget` = 2 at most together. Each property needs
two of them: a registration and a deletion; a deletion and an upload; a
request across a restart. Addresses and request threads are symmetric (no
definition orders them; ids are numbers and are not permuted). Two ids suffice
for a deletion and the registration that follows it. `RegistryProofs` needs none
of these bounds. The ranges of `MCDriverRegistry` are one of each kind: an interval,
two half-lines, a point written with a trailing zero, one whose second constraint is
malformed, and "*"; the versions are all tuples of one or two numbers below 2, among
which 1 and 1.0 are the same and 0.1 lies between 0 and 1. It is the one run that
does not check for deadlock: after `MaxRanges` registrations and one driver per
model nothing more happens.

Fairness. `Dispatch!FairSpec`: each dispatcher keeps stepping, because the
scheduler loops for ever, catches every exception and each HTTP call ends by an
answer or a timeout. Since an exception may end a cycle anywhere, that alone would
allow cycles that all end before they do anything: a SELECT of a job and a claim that
can be tried again and again succeed at some time (strong fairness of `PickJob` and
of `ClaimJob` or `LoseClaim`), that is, the database is not locked at each of
these moments and the rows can be read. `PrinterRow!FairSpec`: the same for the heartbeat, and time
passes. `HistorySync!FairSpec`: the same, and a printer that is asked again and
again answers at some time (strong fairness of `FetchHistory`). `Farm!FairSpec`: what
`Dispatch` and `PrinterRow` assume; nothing of confirmations.
`Realtime!FairSpec`: the event loop runs what can run, the watcher wakes up, what
a connected printer sends arrives, a lost websocket is noticed, and a printer that
is tried again and again can be connected to at some time. Beyond that nothing is
assumed of printers, operators or clients: properties that need a printer to
answer say so.

## 4. The proofs

`tlapm` checks the eight proof modules. Every invariant and every action property
that a passing run checks is a theorem there, and so is the refinement of `JobLifecycle`. They assume only the named assumptions of
the modules they extend: finitely many printers; bounds that are natural numbers;
sets of requests, answers and statuses that are subsets of those the code has; and
values that stand for "none" (`NoPrinter`, `NoHost` and so on) that are not among
those they are told from. Nothing is assumed of how many printers, jobs, threads,
versions or ranges there are.

`DispatchProofs`. `StartedAtMostOnce` is not inductive: a step that sends a start
request must know that none was sent. The strengthening `IInv` says who owns a
job: the upload while it is 'uploading' (`UploadOwnsItsJob`); the queue, so that
nothing was sent or recorded while the row is unclaimed
(`UnclaimedIsUntouched`); and once the guarded UPDATE has returned rowcount 1,
exactly one dispatcher (`ClaimIsExclusive`), which knows whether its request is
out. `MatchIsFresh` carries the history sync across its two steps: the job it
matched has no record yet, even if it was failed meanwhile. `OwnershipInvariant`
proves `Spec => []IInv`, one lemma per group of actions; `StartedOnce`,
`RecordedOnce`, `RecordAgrees` and `TypeCorrect` follow. `LifecycleRefinement`
uses the invariant to map each step to a step of `JobLifecycle` or a stutter.

A dispatcher claims a job it chose by an earlier SELECT;
that the claim is in upload order (`UploadOrderIsKept`) needs that nothing older
was queued in between (`ChoiceIsOldest`), and that in turn that uploads are queued
in the order of their ids and times (`UploadsAreInOrder`, `RunningUploadIsLast`).
`ReordersAreObeyed` needs that whatever a validated request does not name has
priority 0 (`OthersAreNew`), since jobs that were never queued have it
(`FreshJobsHaveNoPriority`). It is proved for one operator, and true for one
only: of two requests validated before either writes, the later writes numbers
that were counted without the jobs the other named besides, and these may come first.

`PrinterRowProofs`. The heartbeat writes a lock back from a row it read earlier,
so that `HoldIsNeverLost` needs to know that a lock which is there now was there
when it was read. `IInv` is that (`LockWasRead`), its companion for the
failure counter, and types: nobody but the heartbeat locks, and nobody but the
heartbeat counts. `RowInvariant` proves it inductive, `HoldsAreKept` the action
property from it.

`RealtimeProofs`. `NoLostWakeup` speaks of a task that waits; to be inductive it
must hold on the whole way from the open websocket to the wait, and needs that
the loss of an open websocket counts (`_connected_once`). `IInv` says both;
`RealtimeInvariant` proves it, `WakeupsKept` follows. `AlertsAreNews` needs that the
watcher remembers the status of a printer's last event for as long as the store
keeps it (`AlertsAreRemembered`).

`FarmProofs`. `LockedPrinterGetsNoJob` speaks of a claim, but the lock is looked
at when the cycle begins; `CyclesAvoidLocks` carries it from the snapshot through
the printers that still wait their turn to the claim. `JobsHavePrinters` says that
what is on its way to a printer is a row that names one; without it a started
print could not be mapped to a change of a device of the farm.
`FarmImplementsJobSide` and `FarmImplementsPrinterSide` then map each step of the
farm to a step of a side or a stutter: a step of the printer side writes one row
at most (`PrinterSideWritesOneRow`), so to dispatch it is one candidate that
appears or goes. What was proved of the sides then
holds of the farm: `FarmStartsJobsOnce`, `FarmClaimsInOrder`,
`FarmImplementsLifecycle` and `FarmKeepsHolds` take the theorems of
`DispatchProofs` and `PrinterRowProofs` for the farm's tables (`JobProofs`,
`RowProofs`). For that the farm's own assumptions must yield theirs
(`PartsAssumptions`), and each side and the instance its theorems are about must be
shown to be one specification (`SameJobSide`, `SameRows`).

`HistorySyncProofs`. The record is inserted two statements after the print was
found to have none. `MatchIsFresh` says that it still has none then, and
neither has the job, though the job may have been failed meanwhile;
`RecordsAreFinal` that a recorded job is in a final status, so that no later match
finds it, and that its file name is the print's. `RecordsAreDistinctAlways` is a part
of the invariant; `UnambiguousRecordsAreRight` follows from the names. `PrintsInTurn`
says what a printer's history looks like: a print begins when the one before has
ended, and only the last has no end yet.

`ReportsProofs`. The totals of a report are folds over sets of rows. What such a
sum is, is shown by an induction over the subsets of a finite set
(`SubsetInduction`, which speaks of a set of good subsets where the library's theorem
takes an operator): it exists, is one, is a number, and splits where its set splits
(`SumExists`, `SumIsUnique`, `SumType`, `SumSplits`). `ReportedRunTimeHasPassed`
then takes away the latest print (`LatestPrint`), whose start the others have ended
by, and so finds that prints which have ended by a moment fit into the time before
it (`TurnsFitIn`). That needs `PrintsInTurn` of the printer and `RecordsAreDistinct`
of the records. A record that has both times has those of its
entry (`TimesOfRows`). `PeriodsAddUp` splits the rows at the moment
where the periods meet, with those that have no start as a third part, and the finished
prints by their weeks (`WeeksAddUp`).

`RegistryProofs`. `IdsWereGiven` bounds all ids that anybody holds by `lastId`, so
that the next INSERT names nobody's printer: that is what AUTOINCREMENT is for.
`UploadOwnsItsJob` keeps the job of the running upload out of every queue, and
`CountsOnlyShrink` says that between the SELECT and the choice queues only
lose jobs, since only an upload adds one and there is one at a time; from the two
follows `ChosenQueueIsShortest`. `JobsHaveTheirPrinter` needs both sides of the
foreign key: the INSERT that checks it and the DELETE that does. `HostsAreDistinct` is
UNIQUE(ip), which no step but the INSERT touches, and no result of its own.

`DriverRegistryProofs`. `Before` is shown to be asymmetric and transitive for
versions of any length, and not to see trailing zeros; from that follow
`RangesNeverHaveGaps`, as each constraint admits an interval, and
`SameVersionsAlways`. `OthersNeverMatter` and `DecisionsStay`
look at the first registration that hits.

Only model-checked: what depends on fairness (`QueuedJobIsDispatched`,
`IdlePrinterIsFed`, `StatusConverges`, `FirstEndIsRecorded`, `ReachableIsShown`, `AlertIsRecorded`),
which is beyond TLAPS, and the three violations.

## 5. What is left out, and what was seen

- Not modelled: spools (a request passed on to Spoolman, without any state), the
  simulator (a test double), the pages. Partly: the JSON of the Moonraker client
  and the base driver that forwards calls to it; the orderly shutdown of the
  service; the routes that only read. `PATCH /printers/{id}` writes columns that no
  other state depends on. In `Reports` the rounding to hundredths of an hour and
  the filter by printer are left out.
- `start_print` inserts no row of `jobs`; in `PrinterRow` it is a command, in
  `HistorySync` one of the prints that no row stands for.
- A reorder also sets `updated_at` of a job that was claimed since it was
  validated, which may change which of two jobs with one name the history sync
  takes. Two jobs with one file name can get each other's records without it
  too, since the match is by name: `RecordsAreDistinct` and
  `UnambiguousRecordIsRight` say what is left.
- A print that begins and ends between two heartbeats is not seen by the service
  and locks nothing. `HoldIsNeverLost` speaks of the locks that were set.
- A job of a printer with Moonraker's own queue never leaves 'queued', so a
  reorder queues it again after it was printed; `Dispatch` has these steps
  (`NativeStart`, `ReorderNative`), and nothing is claimed of how often they occur.
- A confirmation given while a heartbeat polls is overwritten by the row the
  heartbeat read before, and must be given again; `PrinterRow` has these steps.
- Printers registered while the service runs get no websocket before it is
  restarted: the pool reads the table once, at its start (`pool` in `Registry`).
- SQLite's write lock: a statement that waits longer than 5 s raises, which ends
  a dispatch cycle as any other exception does (`CycleAborts`).
- A row 'printing' need not be on any printer: an exception between the commit of the
  claim and the answer (`app/dispatch/service.py:75-87`), or a crash there, leaves it so for good. No
  document or test says what becomes of it.
- What a printer does (`DeviceMoves`, `CommandMoves`, Moonraker's queue and
  history) is external: modelled from the statuses the client maps and from how
  the services use them. In particular `get_history_list` and
  `get_file_metadata` read their fields at the top level of the answer, as the
  simulator serves them, and so does the model.

Seen on the way, and in the models, though no promise of the repository is broken
by it or the properties have to except it:

- The overflow of `2.0 ** n` (`app/heartbeat/service.py:46-47`) ends the heartbeat
  cycle at its row in every cycle, so that the rows after it are not polled any
  more. `StatusConverges` therefore assumes that every printer answers in the end.
- A printer that is switched off changes nothing in the state store, so that no
  alert is raised, although the manual lists lost connections among the events.
- A firmware string as Moonraker reports it begins with a letter
  (`v0.12.0-simulated` in `tests/printers/test_router.py:77`), which `_parse_version`
  does not read. For a model with any range but "*" the lookup of its driver would
  then raise `ValueError` and not fall through to the driver of the model. Nothing is
  registered in `default_registry` so far. `OthersDoNotMatter` says that no other
  model is drawn into it.
- A printer with any row in `events` cannot be deleted, although the manual and the
  message of the 409 speak of jobs alone. The status that a deletion is refused for
  is read in a statement before the DELETE: a printer may be deleted that has
  begun to print in between.
- Auto-assign may miss a printer that goes from PRINTING to IDLE between its two
  SELECTs, and refuse a file that it could have sent. The jobs that are on their way to a
  printer or printing there do not count in the length of its queue.
- A listing of the printers ends with an error when one of them is deleted
  meanwhile: `_row_to_response` is given no row.

## 6. Plan

Done, in this order: `Dispatch` with its abstract specification and proofs;
`PrinterRow` and its proofs; `Farm`; `HistorySync`; `Realtime` and its proofs;
`Registry`, with auto-assign in it, and its proofs; `DriverRegistry` and its proofs;
`Reports`; the proofs of `HistorySync` and `Farm`; the proofs of the order of claims;
those of `Reports`; the theorems about the parts carried over to the farm; the liveness
of dispatch in the farm; records without times.

Left:

1. `HeartbeatSchedule`: `next_heartbeat_at` and the back-off with real numbers of
   seconds, which `PrinterRow` reduces to `due`.
2. More of `Farm` in TLC: two printers, of which one fails in some cycles.
