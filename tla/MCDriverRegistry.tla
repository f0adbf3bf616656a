-------------------------- MODULE MCDriverRegistry --------------------------
(***************************************************************************)
(* An instance of DriverRegistry for TLC.                                  *)
(***************************************************************************)
EXTENDS DriverRegistry

\* Versions of up to two numbers: 1 and 1.0 among them.
SomeVersions == UNION {[1 .. n -> 0 .. 1] : n \in 1 .. 2}

\* "*", ">=0.1,<1.1", ">=1", "<=1", "==1.0", ">0.1, nonsense".
SomeRanges ==
    {Any,
     <<[op |-> ">=", bound |-> <<0, 1>>], [op |-> "<", bound |-> <<1, 1>>]>>,
     <<[op |-> ">=", bound |-> <<1>>]>>,
     <<[op |-> "<=", bound |-> <<1>>]>>,
     <<[op |-> "==", bound |-> <<1, 0>>]>>,
     <<[op |-> ">", bound |-> <<0, 1>>], [op |-> "malformed", bound |-> <<0>>]>>}
=============================================================================
