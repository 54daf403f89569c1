-------------------------- MODULE RecoveryAuthority --------------------------
(***************************************************************************)
(* What the recovery lifecycle promises, without plans, clocks or tables:  *)
(* a session's production is recovered only by spending an authority that  *)
(* a human granted to a proposal, and only once.                           *)
(***************************************************************************)
CONSTANT Sessions

VARIABLES
    authority,  \* "closed", or what the session's active plan allows
    outcome     \* whether the session's production is still broken

vars == <<authority, outcome>>

TypeOK ==
    /\ authority \in [Sessions -> {"closed", "idle", "proposed", "granted"}]
    /\ outcome \in [Sessions -> {"broken", "recovered"}]

Init ==
    /\ authority = [s \in Sessions |-> "closed"]
    /\ outcome = [s \in Sessions |-> "broken"]

\* A new session opens; some others end with it and are forgotten.
Open(s, ended) ==
    /\ s \in ended \/ authority[s] = "closed"
    /\ authority' = [t \in Sessions |->
                       IF t = s THEN "idle" ELSE IF t \in ended THEN "closed"
                       ELSE authority[t]]
    /\ outcome' = [t \in Sessions |->
                     IF t = s \/ t \in ended THEN "broken" ELSE outcome[t]]

\* A session is revoked with whatever authority it held, and replaced.
Replace(s, r) ==
    /\ authority[s] # "closed" /\ authority[r] = "closed"
    /\ authority' = [authority EXCEPT ![s] = "closed", ![r] = "idle"]
    /\ outcome' = [outcome EXCEPT ![r] = "broken"]

\* A proposal supersedes what was there; only a broken production has one.
Propose(s) ==
    /\ authority[s] # "closed" /\ outcome[s] = "broken"
    /\ authority' = [authority EXCEPT ![s] = "proposed"]
    /\ UNCHANGED outcome

Grant(s) ==
    /\ authority[s] = "proposed"
    /\ authority' = [authority EXCEPT ![s] = "granted"]
    /\ UNCHANGED outcome

\* Rejection and expiry.
Withdraw(s) ==
    /\ authority[s] \in {"proposed", "granted"}
    /\ authority' = [authority EXCEPT ![s] = "idle"]
    /\ UNCHANGED outcome

Recover(s) ==
    /\ authority[s] = "granted" /\ outcome[s] = "broken"
    /\ authority' = [authority EXCEPT ![s] = "idle"]
    /\ outcome' = [outcome EXCEPT ![s] = "recovered"]

Next ==
    \E s \in Sessions :
        \/ \E ended \in SUBSET Sessions : Open(s, ended)
        \/ \E r \in Sessions : Replace(s, r)
        \/ Propose(s) \/ Grant(s) \/ Withdraw(s) \/ Recover(s)

Spec == Init /\ [][Next]_vars
=============================================================================
