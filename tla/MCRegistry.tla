------------------------------ MODULE MCRegistry ------------------------------
(***************************************************************************)
(* Instances of Registry for TLC.                                          *)
(***************************************************************************)
EXTENDS Registry, TLC

CONSTANTS h1, h2, c1, c2, Budget

\* Addresses and threads take part symmetrically.
Interchangeable == Permutations({h1, h2}) \cup Permutations({c1, c2})

\* Bound: jobs uploaded, restarts, and requests in progress at a time.
WithinBudget ==
    Cardinality({j \in Jobs : jobStatus[j] # "none"}) + restarts
        + Cardinality({c \in Clients : client[c].pc # "idle"}) <= Budget
=============================================================================
