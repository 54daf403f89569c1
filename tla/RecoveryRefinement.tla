-------------------------- MODULE RecoveryRefinement --------------------------
(***************************************************************************)
(* RecoveryStore implements RecoveryAuthority: the authority of a session  *)
(* is what its active plan allows.                                         *)
(***************************************************************************)
EXTENDS RecoveryStore

HasPlan(s, status) == \E p \in Plans : plan[p].session = s /\ Status(p) = status

AuthorityOf(s) ==
    IF session[s].status # "live" THEN "closed"
    ELSE IF HasPlan(s, "approved") THEN "granted"
    ELSE IF HasPlan(s, "prepared") THEN "proposed"
    ELSE "idle"

OutcomeOf(s) == IF production[s].incident = "active" THEN "broken" ELSE "recovered"

Authority == INSTANCE RecoveryAuthority WITH
    authority <- [s \in Sessions |-> AuthorityOf(s)],
    outcome <- [s \in Sessions |-> OutcomeOf(s)]

\* Every operation of the store is one step of the abstract lifecycle or none:
\* production recovers only by spending a granted authority, once.
AuthorityImplemented == Authority!Spec
=============================================================================
