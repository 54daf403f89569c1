--------------------------- MODULE MCRecoveryStore ---------------------------
(***************************************************************************)
(* Small instances of RecoveryStore for TLC.                               *)
(***************************************************************************)
EXTENDS RecoveryRefinement, TLC

\* Evidence lists: a complete pair, and lists the rules refuse (incomplete,
\* unsupported, repeated).
MCRefLists ==
    LET logs == AuthLogs \cup OtherLogs
    IN  {<<l, d>> : l \in logs, d \in Diagnostics}
        \cup {<<l>> : l \in logs}
        \cup {<<d, l, d>> : l \in AuthLogs, d \in Diagnostics}

\* A padded acceptable reason and one that is blank once trimmed.
MCReasons == [text : {"restore", "blank"}, padded : {TRUE}]

\* The ids are interchangeable.
Symmetry ==
    Permutations(Sessions) \cup Permutations(Plans) \cup Permutations(Diagnostics)
=============================================================================
