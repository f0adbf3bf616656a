----------------------------- MODULE MCDispatch -----------------------------
(***************************************************************************)
(* Instances of Dispatch for TLC: model values for printers (p), dispatcher *)
(* threads (d) and operators (o).                                          *)
(***************************************************************************)
EXTENDS Dispatch

CONSTANTS p1, p2, d1, d2, o1

\* A printer with a queue of its own is a candidate all the time; dispatch
\* passes it over and the rest of the model does not look at that.
QueuePrintersIdle == \A p \in JobQueuePrinters : candidate[p]

\* No print is cancelled: no definition tells it from a finished one.
NoneCancelled == \A j \in Jobs : history[j] = <<>> \/ Head(history[j]) # "cancelled"
=============================================================================
