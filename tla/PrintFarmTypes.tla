--------------------------- MODULE PrintFarmTypes ---------------------------
(***************************************************************************)
(* The closed vocabularies of the print farm's database: the values the    *)
(* CHECK constraints of app/db/schema.py admit, and the subsets of them    *)
(* that the services test for.  Every module of the project uses these.    *)
(***************************************************************************)

\* printers.status, the "canonical" status of a printer.
PrinterStatuses ==
    {"IDLE", "PRINTING", "PAUSED", "FINISHED",
     "STOPPED", "ERROR", "OFFLINE", "UNKNOWN"}

\* Statuses under which a print is in progress on the printer.
ActiveJobStatuses == {"PRINTING", "PAUSED"}

\* Statuses that make the heartbeat lock a printer that was active before.
HoldTriggerStatuses == {"FINISHED", "ERROR"}

\* job_history.status: how a print ended.
HistoryStatuses == {"finished", "failed", "cancelled"}

\* jobs.status.
JobStatuses == {"uploading", "queued", "printing"} \cup HistoryStatuses

\* What jobs.status says of a row, or "none" while the row does not exist.
JobStates == JobStatuses \cup {"none"}

\* States of a job that dispatch has not claimed (yet).
UnclaimedStates == {"none", "uploading", "queued"}
=============================================================================
