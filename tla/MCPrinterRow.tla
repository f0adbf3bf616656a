---------------------------- MODULE MCPrinterRow ----------------------------
(***************************************************************************)
(* Instances of PrinterRow for TLC.                                        *)
(***************************************************************************)
EXTENDS PrinterRow

CONSTANTS c1, c2

\* Only the first printer gives malformed answers.  What fairness asks for does
\* not depend on how a link changes.
OddFirst == \A p \in Printers \ {1} : link[p] # "odd"
=============================================================================
