------------------------- MODULE MCStoreTransactions -------------------------
(***************************************************************************)
(* A small instance of StoreTransactions for TLC.                          *)
(***************************************************************************)
EXTENDS StoreTransactions, TLC

MCRefLists == {<<l, d>> : l \in AuthLogs, d \in Diagnostics}
MCReasons == {[text |-> "restore", padded |-> FALSE]}

\* What starts a plan comes first, what ends it later; sessions are asked for
\* and read until the end.
MCLastArrival ==
    [op \in Operations |->
        CASE op \in {"diagnostic", "prepare", "reset", "reject", "verify"} -> 0
          [] op \in {"create", "incident"} -> 2
          [] OTHER -> 1]

\* Two requests in progress are interchangeable.
Symmetry == Permutations(Requests)
=============================================================================
