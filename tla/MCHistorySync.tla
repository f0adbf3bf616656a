---------------------------- MODULE MCHistorySync ----------------------------
(***************************************************************************)
(* Instances of HistorySync, and of Reports about it, for TLC.             *)
(***************************************************************************)
EXTENDS Reports

CONSTANTS n1, n2

\* File names are interchangeable, so that the name of one job may be fixed.
\* (TLC's SYMMETRY would say so, too, but is unsound for liveness.)
FirstNameFixed == filename[1] = n1

\* At most one time is missing in the whole history.  A record can always be
\* written without another, so that fairness is not affected.
OneTimeMissing ==
    Cardinality({k \in DOMAIN history : history[k].start = NoTime})
      + Cardinality({k \in DOMAIN history : history[k].end = NoTime}) <= 1
=============================================================================
