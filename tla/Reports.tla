------------------------------- MODULE Reports -------------------------------
(***************************************************************************)
(* compute_report_summary: what GET /reports/summary makes of job_history, *)
(* here of the history that HistorySync.tla lets arise for one printer.    *)
(* The start and end times of a row are those of Moonraker's entry, or     *)
(* NULL where the entry had none.                                          *)
(***************************************************************************)
EXTENDS HistorySync, Functions

CONSTANT SecondsPerWeek

ASSUME WeekAssumption == SecondsPerWeek \in Nat \ {0}

Starts(k) == history[k].start
Ends(k) == history[k].end

\* Mutant of Selected: before is inclusive.
SelectedInclusive(from, before) ==
    {k \in DOMAIN history :
        /\ from # NoTime => Starts(k) # NoTime /\ Starts(k) >= from
        /\ before # NoTime => Starts(k) # NoTime /\ Starts(k) <= before}

\* SELECT ... WHERE start_time >= ? AND start_time < ?; None leaves a bound out,
\* and a NULL start_time is in no period that has one.
Selected(from, before) ==
    {k \in DOMAIN history :
        /\ from # NoTime => Starts(k) # NoTime /\ Starts(k) >= from
        /\ before # NoTime => Starts(k) # NoTime /\ Starts(k) < before}

\* The rows without a start: no week has them (missing_start_time_finished_count).
Undated(rows) == {k \in rows : Starts(k) = NoTime}

Count(rows, status) == Cardinality({k \in rows : history[k].status = status})

\* Mutant of RunTime: a print lasts until its row is created.
RunTimeUntilCreated(rows) ==
    SumFunctionOnSet([k \in DOMAIN history |-> history[k].created - Starts(k)],
                     rows \ Undated(rows))

Duration == [k \in DOMAIN history |-> Ends(k) - Starts(k)]

\* total_run_hours, in seconds; rows without both times are left out.
RunTime(rows) ==
    SumFunctionOnSet(Duration, {k \in rows : Starts(k) # NoTime /\ Ends(k) # NoTime})

\* error_rate, as a fraction; <<0, 0>> is None.  Cancelled prints do not count.
ErrorRate(rows) == <<Count(rows, "failed"), Count(rows, "failed") + Count(rows, "finished")>>

\* weekly_production: finished prints by the week in which they started.
Weeks == {t \div SecondsPerWeek : t \in 0 .. MaxTime}
WeeklyCount(rows, week) ==
    Cardinality({k \in rows : /\ history[k].status = "finished"
                              /\ Starts(k) # NoTime
                              /\ Starts(k) \div SecondsPerWeek = week})

-----------------------------------------------------------------------------
(* Properties *)

\* A printer prints one file at a time, and each print is counted once: the
\* run time reported for all time is no longer than the time that has passed,
\* whatever was fetched again, failed late or interrupted by a restart.
RunTimeHasPassed == RunTime(Selected(NoTime, NoTime)) <= now

\* The finished prints that the weeks of a report hold.
WeeklySum(rows) == SumFunction([w \in Weeks |-> WeeklyCount(rows, w)])

\* Reports of periods that follow each other add up to the report of both: a
\* print that starts at the moment of the change is in exactly one of them, and
\* what the report of all time has besides are the prints whose start is not
\* known, which add to its error rate and to none of the rest.  Likewise the
\* weeks of any of these reports hold the finished prints it is reckoned from,
\* but for those.
ReportsAddUp ==
    \A t \in 0 .. MaxTime :
        LET all == Selected(NoTime, NoTime)
            earlier == Selected(NoTime, t)
            later == Selected(t, NoTime)
        IN /\ RunTime(all) = RunTime(earlier) + RunTime(later)
           /\ \A i \in 1 .. 2 :
                ErrorRate(all)[i] = ErrorRate(earlier)[i] + ErrorRate(later)[i]
                                        + ErrorRate(Undated(all))[i]
           /\ \A rows \in {all, earlier, later} :
                Count(rows, "finished") = WeeklySum(rows) + Count(Undated(rows), "finished")
=============================================================================
