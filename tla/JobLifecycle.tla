---------------------------- MODULE JobLifecycle ----------------------------
(***************************************************************************)
(* What the farm promises about one job, with no dispatcher threads,       *)
(* database statements or HTTP calls: a job is uploaded, waits, is claimed *)
(* once, is sent to its printer at most once, and gets at most one history *)
(* record.  Dispatch.tla is shown to implement this specification.         *)
(***************************************************************************)
EXTENDS PrintFarmTypes

CONSTANT Jobs

VARIABLES
    phase,      \* [Jobs -> JobStates]
    sent,       \* jobs whose start request has left for the printer
    recorded    \* jobs with a job_history record

vars == <<phase, sent, recorded>>

Init ==
    /\ phase = [j \in Jobs |-> "none"]
    /\ sent = {}
    /\ recorded = {}

Move(j, from, to) ==
    /\ phase[j] \in from
    /\ phase' = [phase EXCEPT ![j] = to]

Submit(j) == Move(j, {"none"}, "uploading") /\ UNCHANGED <<sent, recorded>>
Store(j)  == Move(j, {"uploading"}, "queued") /\ UNCHANGED <<sent, recorded>>
Reject(j) == Move(j, {"uploading"}, "failed") /\ UNCHANGED <<sent, recorded>>
Claim(j)  == Move(j, {"queued"}, "printing") /\ UNCHANGED <<sent, recorded>>

\* The one start request of a job leaves after the claim.
Send(j) ==
    /\ phase[j] \notin UnclaimedStates
    /\ j \notin sent
    /\ sent' = sent \cup {j}
    /\ UNCHANGED <<phase, recorded>>

\* The start request of a job was answered with an error, or never answered.
Fail(j) ==
    /\ j \in sent
    /\ phase[j] \notin UnclaimedStates
    /\ phase' = [phase EXCEPT ![j] = "failed"]
    /\ UNCHANGED <<sent, recorded>>

\* The outcome of the print is recorded, once.
Record(j, outcome) ==
    /\ j \notin recorded
    /\ Move(j, {"printing", "failed"}, outcome)
    /\ recorded' = recorded \cup {j}
    /\ UNCHANGED sent

Next ==
    \E j \in Jobs :
        \/ Submit(j) \/ Store(j) \/ Reject(j) \/ Claim(j) \/ Send(j) \/ Fail(j)
        \/ \E outcome \in HistoryStatuses : Record(j, outcome)

Spec == Init /\ [][Next]_vars
=============================================================================
