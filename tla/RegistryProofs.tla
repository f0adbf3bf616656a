--------------------------- MODULE RegistryProofs ---------------------------
(***************************************************************************)
(* Proofs about Registry: whoever reads, writes, registers and deletes     *)
(* printers at the same time, an id names one printer for ever, jobs keep  *)
(* their printer, and auto-assign's choice is still a good one when the    *)
(* file is sent.                                                           *)
(***************************************************************************)
EXTENDS Registry, FiniteSetTheorems, TLAPS

\* Waiting jobs are finitely many.
LEMMA QueueIsFinite ==
    ASSUME NEW p
    PROVE  IsFiniteSet(Queue(p)) /\ Cardinality(Queue(p)) \in Nat
<1>1. IsFiniteSet(Jobs)
  BY FS_Interval, RegistryAssumption DEF Jobs
<1>2. Queue(p) \in SUBSET Jobs
  BY DEF Queue
<1> QED  BY <1>1, <1>2, FS_Subset, FS_CardinalityType

\* A queue that no job enters gets no longer.
LEMMA QueueShrinks ==
    ASSUME NEW p, Queue(p)' \subseteq Queue(p)
    PROVE  /\ Cardinality(Queue(p)') \in Nat
           /\ Cardinality(Queue(p)') <= Cardinality(Queue(p))
BY QueueIsFinite, FS_Subset, FS_CardinalityType

\* The states the service starts in satisfy the invariant.
LEMMA InitEstablishes == Init => IInv
<1> SUFFICES ASSUME Init PROVE IInv
  OBVIOUS
<1> USE RegistryAssumption DEF Init
<1>1. TypeOK
  BY DEF TypeOK, Idle, Doing, Handler, Ids, Jobs, PrinterStatuses, JobStates
<1>2. Registered = {} /\ Copies = {}
  BY DEF Registered, Copies, Idle, Doing
<1>3. JobsHaveTheirPrinter
  BY DEF JobsHaveTheirPrinter
<1> QED
  BY <1>1, <1>2, <1>3 DEF IInv, HostsAreDistinct, IdsWereGiven, IdsNameOnePrinter,
     UploadOwnsItsJob, CountsOnlyShrink, ChosenQueueIsShortest

-----------------------------------------------------------------------------
(* Types *)

\* A copy of a row that is there is well-formed.
LEMMA CopiesAreCopies ==
    ASSUME TypeOK
    PROVE  /\ \A p \in Registered : CopyOf(p) \in Copy
           /\ Readable \subseteq SUBSET Copy
BY DEF TypeOK, Registered, CopyOf, Copy, Readable

\* What a request does keeps the types.
LEMMA ClientTypes == ASSUME TypeOK, NEW c \in Clients, ClientStep(c) PROVE TypeOK'
<1> USE RegistryAssumption DEF TypeOK, printers, jobs, uploader
<1>1. Idle \in Handler /\ Handler = [pc : {"idle", "insert", "delete", "poll", "answer"},
            todo : SUBSET Copy, id : Ids \cup {NoId}, host : Hosts \cup {NoHost}]
  BY DEF Idle, Doing, Handler
<1> USE DEF Doing
<1>2. ASSUME NEW h \in Hosts, Probe(c, h) PROVE TypeOK'
  BY <1>1, <1>2 DEF Probe
<1>3. CASE Insert(c)
  <2>1. lastId' \in Ids /\ lastId' \in 0 .. MaxPrinters
    BY <1>3 DEF Insert, Ids
  <2>2. client[c].host \in Hosts \cup {NoHost}
    BY <1>1
  <2>3. host' \in [Ids -> Hosts \cup {NoHost}] /\ client' \in [Clients -> Handler]
    BY <1>1, <1>3, <2>1, <2>2 DEF Insert
  <2> QED  BY <1>3, <2>1, <2>3 DEF Insert
<1>4. CASE InsertRefused(c)
  BY <1>1, <1>4 DEF InsertRefused
<1>5. ASSUME NEW p \in Ids, DeleteRead(c, p) PROVE TypeOK'
  BY <1>1, <1>5 DEF DeleteRead
<1>6. CASE DeleteRow(c)
  <2>1. host' \in [Ids -> Hosts \cup {NoHost}]
    BY <1>6 DEF DeleteRow
  <2>2. status' \in [Ids -> PrinterStatuses]
    BY <1>6 DEF DeleteRow, PrinterStatuses
  <2>3. held' \in [Ids -> BOOLEAN]
    <3>1. CASE held' = held
      BY <3>1
    <3>2. CASE held' = [held EXCEPT ![client[c].id] = FALSE]
      BY <3>2
    <3> QED  BY <1>6, <3>1, <3>2 DEF DeleteRow
  <2>4. client' \in [Clients -> Handler]
    BY <1>1, <1>6 DEF DeleteRow
  <2> QED  BY <1>6, <2>1, <2>2, <2>3, <2>4 DEF DeleteRow
<1>7. ASSUME NEW copies \in Readable, CommandRead(c, copies) PROVE TypeOK'
  BY <1>1, <1>7, CopiesAreCopies DEF CommandRead
<1>8. CASE PollAndWrite(c)
  <2>1. PICK k \in First(client[c].todo), s \in Statuses :
          /\ status' = IF k.id \in Registered THEN [status EXCEPT ![k.id] = s] ELSE status
          /\ client' = [client EXCEPT ![c] =
                        IF client[c].todo = {k}
                        THEN Idle
                        ELSE Doing("answer", client[c].todo \ {k}, k.id, NoHost)]
    BY <1>8 DEF PollAndWrite
  <2>2. k \in client[c].todo /\ client[c].todo \subseteq Copy /\ k.id \in Ids
    BY <1>1, <2>1 DEF First, Copy
  <2>3. status' \in [Ids -> PrinterStatuses]
    BY <2>1, <2>2
  <2>4. client' \in [Clients -> Handler]
    BY <1>1, <2>1, <2>2
  <2> QED  BY <1>8, <2>3, <2>4 DEF PollAndWrite
<1>9. CASE PollFails(c)
  BY <1>1, <1>9 DEF PollFails
<1>10. CASE Answer(c)
  <2>1. client' \in [Clients -> Handler]
    BY <1>1, <1>10 DEF Answer
  <2> QED  BY <1>10, <2>1 DEF Answer
<1> QED
  BY <1>2, <1>3, <1>4, <1>5, <1>6, <1>7, <1>8, <1>9, <1>10 DEF ClientStep

\* What the uploads do keeps the types.
LEMMA UploadTypes == ASSUME TypeOK, UploadStep PROVE TypeOK'
<1> USE RegistryAssumption DEF TypeOK, printers, jobs, uploader
<1>1. CASE AutoReadIdle
  <2>1. idleRead' \subseteq Candidate
    BY <1>1, QueueIsFinite DEF AutoReadIdle, Candidate, Registered
  <2> QED  BY <1>1, <2>1 DEF AutoReadIdle
<1>2. CASE AutoSelect
  <2>1. chosen' \in Ids \cup {NoId}
    BY <1>2 DEF AutoSelect, Candidate, Registered
  <2>2. upPc' \in {"select", "idle"}
    BY <1>2 DEF AutoSelect
  <2>3. UNCHANGED <<printers, jobs, events, pool, beat, client, idleRead, upJob, restarts>>
    BY <1>2 DEF AutoSelect
  <2> QED  BY <2>1, <2>2, <2>3
<1>3. ASSUME NEW p \in Ids, UploadTo(p) PROVE TypeOK'
  BY <1>3 DEF UploadTo
<1>4. CASE UploadSelect
  BY <1>4 DEF UploadSelect, UploadOver
<1>5. CASE UploadInsert
  <2>1. PICK j \in Jobs :
          /\ jobPrinter' = [jobPrinter EXCEPT ![j] = chosen]
          /\ jobStatus' = [jobStatus EXCEPT ![j] = "uploading"]
          /\ upJob' = j
    BY <1>5 DEF UploadInsert
  <2>2. "uploading" \in JobStates
    BY DEF JobStates, JobStatuses
  <2> QED  BY <1>5, <2>1, <2>2 DEF UploadInsert
<1>6. CASE UploadInsertRefused
  BY <1>6 DEF UploadInsertRefused, UploadOver
<1>7. CASE UploadEnds
  <2>1. {"queued", "failed", "uploading"} \subseteq JobStates
    BY DEF JobStates, JobStatuses, HistoryStatuses
  <2> QED  BY <1>7, <2>1 DEF UploadEnds, UploadOver
<1> QED  BY <1>1, <1>2, <1>3, <1>4, <1>5, <1>6, <1>7 DEF UploadStep

\* So does every step.
LEMMA TypesKept == ASSUME TypeOK, [Next]_vars PROVE TypeOK'
<1> USE RegistryAssumption DEF TypeOK, printers, jobs, uploader
<1>1. ASSUME NEW p \in Ids, Confirm(p) PROVE TypeOK'
  BY <1>1 DEF Confirm
<1>2. CASE HeartbeatRead
  <2>1. beat' \subseteq Copy
    BY <1>2, CopiesAreCopies DEF HeartbeatRead
  <2> QED  BY <1>2, <2>1 DEF HeartbeatRead
<1>3. CASE HeartbeatWrite
  <2>1. PICK k \in First(beat), s \in Statuses, lock \in BOOLEAN :
          /\ beat' = beat \ {k}
          /\ IF k.id \in Registered
             THEN /\ status' = [status EXCEPT ![k.id] = s]
                  /\ held' = [held EXCEPT ![k.id] = lock]
             ELSE UNCHANGED <<status, held>>
    BY <1>3 DEF HeartbeatWrite
  <2>2. beat' \subseteq Copy
    BY <2>1
  <2>3. status' \in [Ids -> PrinterStatuses]
    BY <2>1
  <2>4. held' \in [Ids -> BOOLEAN]
    <3>1. CASE held' = held
      BY <3>1
    <3>2. CASE held' = [held EXCEPT ![k.id] = lock]
      BY <3>2
    <3> QED  BY <2>1, <3>1, <3>2
  <2> QED  BY <1>3, <2>2, <2>3, <2>4 DEF HeartbeatWrite
<1>4. CASE HeartbeatAborts
  BY <1>4 DEF HeartbeatAborts
<1>5. CASE RecordAlert
  <2>1. events' \subseteq Copy
    BY <1>5 DEF RecordAlert
  <2> QED  BY <1>5, <2>1 DEF RecordAlert
<1>6. ASSUME NEW j \in Jobs, JobMoves(j) PROVE TypeOK'
  <2>1. HistoryStatuses \cup {"printing"} \subseteq JobStates
    BY DEF JobStates, JobStatuses
  <2>2. jobStatus' \in [Jobs -> JobStates]
    BY <1>6, <2>1 DEF JobMoves
  <2> QED  BY <1>6, <2>2 DEF JobMoves
<1>7. CASE Restart
  <2>1. pool' \subseteq Copy
    BY <1>7, CopiesAreCopies DEF Restart
  <2>2. client' \in [Clients -> Handler]
    BY <1>7 DEF Restart, Idle, Doing, Handler
  <2> QED  BY <1>7, <2>1, <2>2 DEF Restart, UploadOver
<1>8. CASE UNCHANGED vars
  BY <1>8 DEF vars
<1> QED
  BY <1>1, <1>2, <1>3, <1>4, <1>5, <1>6, <1>7, <1>8, ClientTypes, UploadTypes DEF Next

-----------------------------------------------------------------------------
(* Rows and what is remembered of them *)

\* The conjuncts of the invariant that are about which printers there are.
IdsOK == HostsAreDistinct /\ IdsWereGiven /\ IdsNameOnePrinter

\* What is remembered, as a quantified formula.
LEMMA CopiesAre ==
    /\ \A k : k \in Copies <=> \/ k \in events \/ k \in pool \/ k \in beat
                               \/ \E c \in Clients : k \in client[c].todo
    /\ \A k : k \in Copies' <=> \/ k \in events' \/ k \in pool' \/ k \in beat'
                                \/ \E c \in Clients : k \in client'[c].todo
BY DEF Copies

\* As long as the rows stay, what is newly read of them may be remembered.
LEMMA RememberingKeeps ==
    ASSUME TypeOK, IdsOK, UNCHANGED <<host, lastId>>,
           \A k \in Copies' : k \in Copies \/ \E p \in Registered : k = CopyOf(p)
    PROVE  IdsOK'
<1>1. Registered' = Registered
  BY DEF Registered
<1>2. \A k \in Copies' : /\ k.id <= lastId
                         /\ k.id \in Registered => host[k.id] = k.host
  BY DEF IdsOK, IdsWereGiven, IdsNameOnePrinter, CopyOf
<1> QED
  BY <1>1, <1>2 DEF IdsOK, HostsAreDistinct, IdsWereGiven, IdsNameOnePrinter

\* When a handler goes on, the rows it has to do are some of those it had.
LEMMA HandlerKeeps ==
    ASSUME TypeOK, IdsOK, UNCHANGED <<host, lastId, events, pool, beat>>,
           NEW c \in Clients, NEW h, client' = [client EXCEPT ![c] = h],
           h.todo \subseteq client[c].todo \cup {CopyOf(p) : p \in Registered}
    PROVE  IdsOK'
<1>1. \A k \in Copies' : k \in Copies \/ \E p \in Registered : k = CopyOf(p)
  BY CopiesAre DEF TypeOK
<1> QED  BY <1>1, RememberingKeeps

\* What a request does to the rows.
LEMMA ClientIds == ASSUME TypeOK, IdsOK, NEW c \in Clients, ClientStep(c) PROVE IdsOK'
<1> USE RegistryAssumption DEF printers, jobs, uploader
<1>0. Idle.todo = {} /\ (\A pc, todo, id, h : Doing(pc, todo, id, h).todo = todo)
  BY DEF Idle, Doing
<1>1. ASSUME NEW h \in Hosts, Probe(c, h) PROVE IdsOK'
  BY <1>0, <1>1, HandlerKeeps DEF Probe
<1>2. CASE Insert(c)
  <2> DEFINE p == lastId + 1
  <2>1. p \in Ids /\ p \notin Registered /\ (\A k \in Copies : k.id # p)
    BY <1>2 DEF Insert, Ids, TypeOK, IdsOK, IdsWereGiven, Copies, Copy, Registered
  <2>2. lastId' = p /\ host' = [host EXCEPT ![p] = client[c].host]
    BY <1>2 DEF Insert
  <2>3. Registered' \subseteq Registered \cup {p}
    BY <2>1, <2>2 DEF Registered, TypeOK
  <2>4. \A q \in Registered : q \in Ids /\ host'[q] = host[q] /\ host[q] # client[c].host
    BY <1>2, <2>1, <2>2 DEF Insert, Registered, TypeOK
  <2>5. \A k \in Copies' : k \in Copies
    BY <1>0, <1>2, CopiesAre DEF Insert, TypeOK
  <2>6. HostsAreDistinct'
    BY <2>1, <2>2, <2>3, <2>4 DEF HostsAreDistinct, IdsOK, TypeOK
  <2>7. IdsWereGiven'
    <3>1. \A q \in Registered : q <= p
      BY <2>4 DEF IdsOK, IdsWereGiven, Ids, TypeOK
    <3>2. \A k \in Copies : k \in Copy /\ k.id \in Ids
      BY CopiesAre DEF TypeOK, Handler, Copy
    <3>3. \A k \in Copies : k.id <= p
      BY <3>2 DEF IdsOK, IdsWereGiven, Ids, TypeOK
    <3>4. p <= p
      BY <2>1 DEF Ids
    <3> QED  BY <2>2, <2>3, <2>5, <3>1, <3>3, <3>4 DEF IdsWereGiven
  <2>8. IdsNameOnePrinter'
    BY <2>1, <2>2, <2>3, <2>4, <2>5 DEF IdsNameOnePrinter, IdsOK
  <2> QED  BY <2>6, <2>7, <2>8 DEF IdsOK
<1>3. CASE InsertRefused(c)
  BY <1>0, <1>3, HandlerKeeps DEF InsertRefused
<1>4. ASSUME NEW p \in Ids, DeleteRead(c, p) PROVE IdsOK'
  BY <1>0, <1>4, HandlerKeeps DEF DeleteRead
<1>5. CASE DeleteRow(c)
  <2>1. Registered' \subseteq Registered /\ \A q \in Registered' : host'[q] = host[q]
    <3>1. CASE host' = host
      BY <3>1 DEF Registered
    <3>2. CASE host' = [host EXCEPT ![client[c].id] = NoHost]
      BY <3>2 DEF Registered, TypeOK
    <3> QED  BY <1>5, <3>1, <3>2 DEF DeleteRow
  <2>2. \A k \in Copies' : k \in Copies
    BY <1>0, <1>5, CopiesAre DEF DeleteRow, TypeOK
  <2>3. lastId' = lastId
    BY <1>5 DEF DeleteRow
  <2> QED
    BY <2>1, <2>2, <2>3 DEF IdsOK, HostsAreDistinct, IdsWereGiven, IdsNameOnePrinter
<1>6. ASSUME NEW copies \in Readable, CommandRead(c, copies) PROVE IdsOK'
  <2>1. copies \subseteq {CopyOf(p) : p \in Registered}
    BY DEF Readable
  <2> QED  BY <1>0, <1>6, <2>1, HandlerKeeps DEF CommandRead
<1>7. CASE PollAndWrite(c)
  <2>1. PICK k \in First(client[c].todo) :
          client' = [client EXCEPT ![c] =
                        IF client[c].todo = {k}
                        THEN Idle
                        ELSE Doing("answer", client[c].todo \ {k}, k.id, NoHost)]
    BY <1>7 DEF PollAndWrite
  <2>2. UNCHANGED <<host, lastId, events, pool, beat>>
    BY <1>7 DEF PollAndWrite
  <2>3. CASE client[c].todo = {k}
    BY <1>0, <2>1, <2>2, <2>3, HandlerKeeps
  <2>4. CASE client[c].todo # {k}
    <3> DEFINE h == Doing("answer", client[c].todo \ {k}, k.id, NoHost)
    <3>1. h.todo \subseteq client[c].todo
      BY DEF Doing
    <3>2. client' = [client EXCEPT ![c] = h]
      BY <2>1, <2>4
    <3> HIDE DEF h
    <3> QED  BY <2>2, <3>1, <3>2, HandlerKeeps
  <2> QED  BY <2>3, <2>4
<1>8. CASE PollFails(c)
  BY <1>0, <1>8, HandlerKeeps DEF PollFails
<1>9. CASE Answer(c)
  <2>1. CASE client[c].id \in Registered
    <3> DEFINE h == Doing("poll", client[c].todo, NoId, NoHost)
    <3>1. h.todo \subseteq client[c].todo
      BY DEF Doing
    <3>2. client' = [client EXCEPT ![c] = h]
      BY <1>9, <2>1 DEF Answer
    <3> HIDE DEF h
    <3> QED  BY <1>9, <3>1, <3>2, HandlerKeeps DEF Answer
  <2>2. CASE client[c].id \notin Registered
    BY <1>0, <1>9, <2>2, HandlerKeeps DEF Answer
  <2> QED  BY <2>1, <2>2
<1> QED
  BY <1>1, <1>2, <1>3, <1>4, <1>5, <1>6, <1>7, <1>8, <1>9 DEF ClientStep

\* So does every step.
LEMMA IdsKept == ASSUME TypeOK, IdsOK, [Next]_vars PROVE IdsOK'
<1> USE DEF printers, jobs, uploader
<1>1. ASSUME UNCHANGED <<host, lastId>>,
             \A k \in Copies' : k \in Copies \/ \E p \in Registered : k = CopyOf(p)
      PROVE  IdsOK'
  BY <1>1, RememberingKeeps
<1>2. CASE HeartbeatRead
  BY <1>1, <1>2, CopiesAre DEF HeartbeatRead
<1>3. CASE HeartbeatWrite
  BY <1>1, <1>3, CopiesAre DEF HeartbeatWrite
<1>4. CASE HeartbeatAborts
  BY <1>1, <1>4, CopiesAre DEF HeartbeatAborts
<1>5. CASE RecordAlert
  BY <1>1, <1>5, CopiesAre DEF RecordAlert
<1>6. CASE Restart
  <2>1. \A c \in Clients : client'[c].todo = {}
    BY <1>6 DEF Restart, Idle, Doing
  <2> QED  BY <1>1, <1>6, <2>1, CopiesAre DEF Restart
<1>7. ASSUME UNCHANGED <<host, lastId, events, pool, beat, client>> PROVE IdsOK'
  BY <1>1, <1>7, CopiesAre
<1>8. CASE UploadStep
  BY <1>7, <1>8 DEF UploadStep, AutoReadIdle, AutoSelect, UploadTo, UploadSelect,
     UploadInsert, UploadInsertRefused, UploadEnds
<1>9. ASSUME NEW p \in Ids, Confirm(p) PROVE IdsOK'
  BY <1>7, <1>9 DEF Confirm
<1>10. ASSUME NEW j \in Jobs, JobMoves(j) PROVE IdsOK'
  BY <1>7, <1>10 DEF JobMoves
<1>11. CASE UNCHANGED vars
  BY <1>7, <1>11 DEF vars
<1> QED
  BY <1>2, <1>3, <1>4, <1>5, <1>6, <1>8, <1>9, <1>10, <1>11, ClientIds DEF Next

-----------------------------------------------------------------------------
(* Jobs and their printers *)

\* The conjuncts of the invariant that are about jobs.
JobsOK == JobsHaveTheirPrinter /\ UploadOwnsItsJob

\* A row is deleted only while no job refers to it, a job inserted only while
\* its row is there.
LEMMA JobsKept == ASSUME TypeOK, IdsOK, JobsOK, [Next]_vars PROVE JobsOK'
<1> USE DEF JobsOK, JobsHaveTheirPrinter, UploadOwnsItsJob, printers, jobs, uploader
<1>1. ASSUME Registered \subseteq Registered', UNCHANGED <<jobs, upPc, upJob>>
      PROVE  JobsOK'
  BY <1>1
<1>2. ASSUME UNCHANGED host PROVE Registered' = Registered
  BY <1>2 DEF Registered
<1>3. ASSUME NEW c \in Clients, Insert(c) PROVE JobsOK'
  <2>1. lastId + 1 \notin Registered
    BY DEF TypeOK, IdsOK, IdsWereGiven
  <2>2. Registered \subseteq Registered'
    BY <1>3, <2>1 DEF Insert, Registered, TypeOK
  <2> QED  BY <1>1, <1>3, <2>2 DEF Insert
<1>4. ASSUME NEW c \in Clients, DeleteRow(c) PROVE JobsOK'
  <2>1. CASE Referenced(client[c].id)
    BY <1>1, <1>2, <1>4, <2>1 DEF DeleteRow
  <2>2. CASE ~Referenced(client[c].id)
    <3>1. \A j \in Jobs : jobPrinter[j] # client[c].id
      BY <2>2 DEF Referenced
    <3>2. host' = [host EXCEPT ![client[c].id] = NoHost]
      BY <1>4, <2>2 DEF DeleteRow
    <3>3. \A p \in Registered : p # client[c].id => p \in Registered'
      BY <3>2 DEF Registered, TypeOK
    <3> QED  BY <1>4, <3>1, <3>3 DEF DeleteRow
  <2> QED  BY <2>1, <2>2
<1>5. ASSUME NEW c \in Clients, ClientStep(c) PROVE JobsOK'
  <2>1. CASE Insert(c) \/ DeleteRow(c)
    BY <1>3, <1>4, <2>1
  <2>2. CASE \/ \E h \in Hosts : Probe(c, h)
             \/ \E p \in Ids : DeleteRead(c, p)
             \/ \E copies \in Readable : CommandRead(c, copies)
             \/ InsertRefused(c) \/ PollAndWrite(c) \/ PollFails(c) \/ Answer(c)
    BY <1>1, <1>2, <2>2 DEF Probe, DeleteRead, CommandRead, InsertRefused, PollAndWrite,
       PollFails, Answer
  <2> QED  BY <1>5, <2>1, <2>2 DEF ClientStep
<1>6. CASE HeartbeatRead \/ HeartbeatWrite \/ HeartbeatAborts \/ RecordAlert
  BY <1>1, <1>2, <1>6 DEF HeartbeatRead, HeartbeatWrite, HeartbeatAborts, RecordAlert
<1>7. ASSUME NEW p \in Ids, Confirm(p) PROVE JobsOK'
  BY <1>1, <1>2, <1>7 DEF Confirm
<1>8. ASSUME UNCHANGED <<host, jobs>>, upPc' # "http" PROVE JobsOK'
  BY <1>2, <1>8
<1>9. CASE \/ AutoReadIdle \/ AutoSelect \/ (\E p \in Ids : UploadTo(p))
           \/ UploadSelect \/ UploadInsertRefused \/ Restart
  BY <1>8, <1>9 DEF AutoReadIdle, AutoSelect, UploadTo, UploadSelect,
     UploadInsertRefused, UploadOver, Restart
<1>10. CASE UploadInsert
  <2>1. PICK j \in Jobs :
          /\ jobPrinter' = [jobPrinter EXCEPT ![j] = chosen]
          /\ jobStatus' = [jobStatus EXCEPT ![j] = "uploading"]
          /\ upJob' = j
    BY <1>10 DEF UploadInsert
  <2>2. chosen \in Registered /\ UNCHANGED host
    BY <1>10 DEF UploadInsert
  <2> QED  BY <1>2, <2>1, <2>2 DEF TypeOK
<1>11. CASE UploadEnds
  <2>1. PICK s \in {"queued", "failed", "uploading"} :
          jobStatus' = [jobStatus EXCEPT ![upJob] = s]
    BY <1>11 DEF UploadEnds
  <2>2. /\ jobStatus[upJob] # "none" /\ upPc' = "idle"
        /\ UNCHANGED <<host, jobPrinter>>
    BY <1>11 DEF UploadEnds, UploadOver
  <2> QED  BY <1>2, <2>1, <2>2 DEF TypeOK
<1>12. ASSUME NEW j \in Jobs, JobMoves(j) PROVE JobsOK'
  <2>1. PICK s \in HistoryStatuses \cup {"printing"} :
          jobStatus' = [jobStatus EXCEPT ![j] = s]
    BY <1>12, RegistryAssumption DEF JobMoves
  <2>2. jobStatus[j] \notin {"none", "uploading"}
    BY <1>12 DEF JobMoves
  <2>3. UNCHANGED <<host, jobPrinter, upPc, upJob>>
    BY <1>12 DEF JobMoves
  <2> QED  BY <1>2, <2>1, <2>2, <2>3 DEF TypeOK
<1>13. CASE UNCHANGED vars
  BY <1>1, <1>2, <1>13 DEF vars
<1> QED
  BY <1>5, <1>6, <1>7, <1>9, <1>10, <1>11, <1>12, <1>13 DEF Next, UploadStep

-----------------------------------------------------------------------------
(* The choice of auto-assign *)

\* The conjuncts of the invariant that are about it.
ChoiceOK == CountsOnlyShrink /\ ChosenQueueIsShortest

\* Only the end of an upload makes a queue longer.
LEMMA QueuesOnlyShrink ==
    ASSUME TypeOK, [Next]_vars, ~UploadEnds, NEW p
    PROVE  Queue(p)' \subseteq Queue(p)
<1> USE DEF printers, jobs, uploader
<1>1. CASE UNCHANGED jobs
  BY <1>1 DEF Queue
<1>2. CASE UploadInsert
  <2>1. PICK j \in Jobs :
          /\ jobPrinter' = [jobPrinter EXCEPT ![j] = chosen]
          /\ jobStatus' = [jobStatus EXCEPT ![j] = "uploading"]
    BY <1>2 DEF UploadInsert
  <2> QED  BY <2>1 DEF Queue, TypeOK
<1>3. ASSUME NEW j \in Jobs, JobMoves(j) PROVE Queue(p)' \subseteq Queue(p)
  <2>1. PICK s \in HistoryStatuses \cup {"printing"} :
          jobStatus' = [jobStatus EXCEPT ![j] = s]
    BY <1>3, RegistryAssumption DEF JobMoves
  <2>2. s # "queued" /\ UNCHANGED jobPrinter
    BY <1>3, <2>1 DEF JobMoves, HistoryStatuses
  <2> QED  BY <2>1, <2>2 DEF Queue, TypeOK
<1>4. ASSUME NEW c \in Clients, ClientStep(c) PROVE UNCHANGED jobs
  BY <1>4 DEF ClientStep, Probe, Insert, InsertRefused, DeleteRead, DeleteRow,
     CommandRead, PollAndWrite, PollFails, Answer
<1>5. CASE \/ AutoReadIdle \/ AutoSelect \/ (\E q \in Ids : UploadTo(q) \/ Confirm(q))
           \/ UploadSelect \/ UploadInsertRefused \/ Restart
           \/ HeartbeatRead \/ HeartbeatWrite \/ HeartbeatAborts \/ RecordAlert
           \/ UNCHANGED vars
  BY <1>1, <1>5 DEF AutoReadIdle, AutoSelect, UploadTo, Confirm, UploadSelect,
     UploadInsertRefused, Restart, HeartbeatRead, HeartbeatWrite, HeartbeatAborts,
     RecordAlert, vars
<1> QED  BY <1>1, <1>2, <1>3, <1>4, <1>5 DEF Next, UploadStep

\* What was counted is an upper bound until the file is sent.
LEMMA ChoiceKept == ASSUME TypeOK, ChoiceOK, [Next]_vars PROVE ChoiceOK'
<1> USE DEF ChoiceOK, CountsOnlyShrink, ChosenQueueIsShortest, printers, jobs, uploader
<1>1. CASE UploadEnds
  BY <1>1 DEF UploadEnds, UploadOver
<1>2. ASSUME ~UploadEnds, NEW p
      PROVE  /\ Cardinality(Queue(p)) \in Nat /\ Cardinality(Queue(p)') \in Nat
             /\ Cardinality(Queue(p)') <= Cardinality(Queue(p))
  BY <1>2, QueuesOnlyShrink, QueueShrinks, QueueIsFinite
<1>3. \A r \in idleRead : r.queue \in Nat
  BY DEF TypeOK, Candidate
<1>4. ASSUME ~UploadEnds, UNCHANGED uploader PROVE ChoiceOK'
  <2>1. ASSUME NEW r \in idleRead, NEW p, Cardinality(Queue(p)) <= r.queue
        PROVE  Cardinality(Queue(p)') <= r.queue
    BY <1>2, <1>3, <1>4, <2>1
  <2>2. CountsOnlyShrink'
    BY <1>4, <2>1
  <2>3. ChosenQueueIsShortest'
    BY <1>4, <2>1
  <2> QED  BY <2>2, <2>3
<1>5. CASE AutoReadIdle
  <2>1. \A r \in idleRead' : r.queue = Cardinality(Queue(r.id))
    BY <1>5 DEF AutoReadIdle
  <2>2. \A p : Queue(p)' = Queue(p)
    BY <1>5 DEF AutoReadIdle, Queue
  <2>3. upPc' = "printing"
    BY <1>5 DEF AutoReadIdle
  <2>4. \A r \in idleRead' : Cardinality(Queue(r.id)') <= r.queue
    BY <2>1, <2>2, QueueIsFinite
  <2> QED  BY <2>3, <2>4
<1>6. CASE AutoSelect
  <2>1. \A p : Queue(p)' = Queue(p)
    BY <1>6 DEF AutoSelect, Queue
  <2>2. idleRead' = idleRead
    BY <1>6 DEF AutoSelect
  <2>3. CASE idleRead = {}
    <3>1. upPc' \in {"select", "idle"}
      BY <1>6 DEF AutoSelect
    <3> QED  BY <2>2, <2>3, <3>1
  <2>4. CASE idleRead # {}
    <3>1. PICK r \in idleRead : BestIdle(r) /\ chosen' = r.id
      BY <1>6, <2>4 DEF AutoSelect
    <3>2. upPc' = "select" /\ Cardinality(Queue(r.id)) <= r.queue
      BY <1>6, <2>4 DEF AutoSelect
    <3>3. \A s \in idleRead : r.queue <= s.queue
      BY <1>3, <3>1 DEF BestIdle
    <3>4. \A s \in idleRead : Cardinality(Queue(r.id)) <= s.queue
      BY <1>3, <3>2, <3>3, QueueIsFinite
    <3>5. Queue(chosen)' = Queue(r.id)
      BY <2>1, <3>1 DEF Queue
    <3> QED  BY <2>2, <3>2, <3>4, <3>5
  <2> QED  BY <2>3, <2>4
<1>7. ASSUME NEW p \in Ids, UploadTo(p) PROVE ChoiceOK'
  BY <1>7 DEF UploadTo
<1>8. ASSUME upPc' = "idle", idleRead' = {} PROVE ChoiceOK'
  BY <1>8
<1>9. CASE UploadInsertRefused \/ Restart
  BY <1>8, <1>9 DEF UploadInsertRefused, Restart, UploadOver
<1>10. CASE UploadSelect \/ UploadInsert
  <2>1. CASE upPc' = "idle"
    BY <1>8, <1>10, <2>1 DEF UploadSelect, UploadInsert, UploadOver
  <2>2. CASE upPc' # "idle"
    <3>1. /\ upPc \in {"select", "insert"} /\ upPc' \in {"insert", "http"}
          /\ UNCHANGED <<idleRead, chosen>>
      BY <1>10, <2>2 DEF UploadSelect, UploadInsert, UploadOver
    <3>2. ~UploadEnds
      BY <3>1 DEF UploadEnds
    <3>3. PICK p \in Ids \cup {NoId} : p = chosen
      BY DEF TypeOK
    <3>4. \A r \in idleRead : Cardinality(Queue(p)) <= r.queue
      BY <3>1, <3>3
    <3>5. \A r \in idleRead : Cardinality(Queue(p)') <= r.queue
      BY <1>2, <1>3, <3>2, <3>4
    <3> QED  BY <3>1, <3>3, <3>5
  <2> QED  BY <2>1, <2>2
<1>11. ASSUME NEW c \in Clients, ClientStep(c) PROVE UNCHANGED uploader
  BY <1>11 DEF ClientStep, Probe, Insert, InsertRefused, DeleteRead, DeleteRow,
     CommandRead, PollAndWrite, PollFails, Answer
<1>12. CASE \/ (\E p \in Ids : Confirm(p)) \/ (\E j \in Jobs : JobMoves(j))
            \/ HeartbeatRead \/ HeartbeatWrite \/ HeartbeatAborts \/ RecordAlert
            \/ UNCHANGED vars
  <2>1. UNCHANGED uploader
    BY <1>12 DEF Confirm, JobMoves, HeartbeatRead, HeartbeatWrite, HeartbeatAborts,
       RecordAlert, vars
  <2> QED  BY <1>1, <1>4, <2>1
<1> QED
  BY <1>1, <1>4, <1>5, <1>6, <1>7, <1>9, <1>10, <1>11, <1>12 DEF Next, UploadStep

-----------------------------------------------------------------------------
(* Theorems *)

\* The invariant is inductive, for any number of addresses, printers, jobs,
\* requests and restarts.
THEOREM RegistryInvariant == Spec => []IInv
<1>1. ASSUME IInv, [Next]_vars PROVE IInv'
  BY <1>1, TypesKept, IdsKept, JobsKept, ChoiceKept DEF IInv, IdsOK, JobsOK, ChoiceOK
<1> QED  BY <1>1, InitEstablishes, PTL DEF Spec

\* delete_printer and register_printer: an id read or recorded anywhere names
\* the same printer for ever, or none.
THEOREM IdsNameOnePrinterAlways == Spec => []IdsNameOnePrinter
<1>1. IInv => IdsNameOnePrinter
  BY DEF IInv
<1> QED  BY <1>1, RegistryInvariant, PTL

\* delete_printer and upload_file_to_printer: no job is left without a printer.
THEOREM JobsKeepTheirPrinter == Spec => []JobsHaveTheirPrinter
<1>1. IInv => JobsHaveTheirPrinter
  BY DEF IInv
<1> QED  BY <1>1, RegistryInvariant, PTL

\* auto_assign_and_upload: no idle printer had fewer jobs waiting than wait at
\* the chosen one, from the choice until the file is stored.
THEOREM ChoiceStaysShortest == Spec => []ChosenQueueIsShortest
<1>1. IInv => ChosenQueueIsShortest
  BY DEF IInv
<1> QED  BY <1>1, RegistryInvariant, PTL
=============================================================================
