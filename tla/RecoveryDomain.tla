--------------------------- MODULE RecoveryDomain ---------------------------
(***************************************************************************)
(* The pure rules of crates/domain: which facts make a recovery plan, what *)
(* a human decision does to it, when an approved plan may be executed and  *)
(* what verification compares.  Nothing here holds state.                  *)
(*                                                                         *)
(* An instant is an integer.  A SHA-256 fingerprint is the tuple of facts  *)
(* it digests: the encoder length-prefixes every field, so two plans have  *)
(* one encoding only when they agree on every fact.                        *)
(***************************************************************************)
EXTENDS Integers, Sequences, FiniteSets

CONSTANTS
    AuthLogs,       \* ids of the seeded DB_AUTH_METHOD_MISMATCH log events
    OtherLogs,      \* ids of the other seeded log events
    PlanLifetime,   \* PLAN_LIFETIME: ten minutes, in units of the model clock
    MaxEvidence,    \* MAX_EVIDENCE_RECORDS
    NoFingerprint,  \* SQL NULL in the approved_fingerprint column
    NoSession,      \* SQL NULL / no row, where a session id is expected
    NoPlan          \* SQL NULL in diagnostic_contexts.plan_id

ASSUME DomainAssumption ==
    /\ PlanLifetime \in Nat \ {0}
    /\ MaxEvidence \in Nat \ {0}
    /\ AuthLogs \cap OtherLogs = {}

Logs == AuthLogs \cup OtherLogs
NoTime == -1

-----------------------------------------------------------------------------
\* The seeded scenario.  A release without a row has no state.

Releases == {"release_283", "release_284", "release_285"}
SeededService == "checkout-api"
SeededIncident == "inc_checkout_500s"
SeededGeneration == 1
PolicyVersion == 1
SeededProduction ==
    [release |-> "release_284", health |-> "critical", incident |-> "active"]

ReleaseState(release) ==
    CASE release = "release_283" -> "healthy_baseline"
      [] release = "release_284" -> "deployed_faulty"
      [] release = "release_285" -> "staged"
      [] OTHER -> "none"

LogCode(log) == IF log \in AuthLogs THEN "DB_AUTH_METHOD_MISMATCH" ELSE "OTHER"

DatabaseConnectivityDiagnostic(release) ==
    IF release = "release_284"
    THEN [status |-> "failed", code |-> "DB_AUTH_METHOD_MISMATCH"]
    ELSE [status |-> "passed", code |-> "DB_CONNECTION_OK"]

-----------------------------------------------------------------------------
\* A list of <<condition, error>> checks made in order; the first that applies
\* decides, as a sequence of early returns does.

FirstFailure(checks) ==
    LET failed == {i \in DOMAIN checks : checks[i][1]}
    IN  IF failed = {}
        THEN "ok"
        ELSE checks[CHOOSE i \in failed : \A j \in failed : i <= j][2]

-----------------------------------------------------------------------------
\* Evidence and preparation.

EvidenceKinds == {"log", "diagnostic"}

\* Only two records support a recovery: a log of the authentication mismatch,
\* and a failed connectivity diagnostic with the same code.
Supported(item) ==
    /\ item.code = "DB_AUTH_METHOD_MISMATCH"
    /\ item.kind = "diagnostic" => item.status = "failed"

ItemChecks(item, repeated, cmd) ==
    << <<~Supported(item), "unsupported_evidence">>,
       <<repeated, "duplicate_evidence">>,
       <<item.session # cmd.session, "evidence_session_mismatch">>,
       <<item.service # cmd.service, "evidence_service_mismatch">>,
       <<item.release # cmd.expected, "evidence_release_mismatch">>,
       <<item.generation # cmd.generation, "evidence_generation_mismatch">> >>

\* An earlier record of the list has the same id, whatever its kind.
\* Mutated forms: ids are compared within a kind; with the whole list.
Repeated_SameKind(list, i) ==
    \E j \in 1 .. i - 1 : list[j].id = list[i].id /\ list[j].kind = list[i].kind
Repeated_Anywhere(list, i) == \E j \in DOMAIN list \ {i} : list[j].id = list[i].id
Repeated(list, i) == \E j \in 1 .. i - 1 : list[j].id = list[i].id

\* The error of RecoveryEvidenceSet::try_new on a list of records, or "ok".
EvidenceListError(list, cmd) ==
    LET ItemError(i) == FirstFailure(ItemChecks(list[i], Repeated(list, i), cmd))
        Lacks(kind) == \A i \in DOMAIN list : list[i].kind # kind
        perItem == [i \in DOMAIN list |-> <<ItemError(i) # "ok", ItemError(i)>>]
    IN  FirstFailure(<< <<Len(list) > MaxEvidence, "too_many_evidence">> >>
                     \o perItem
                     \o << <<Lacks("log"), "missing_log_evidence">>,
                           <<Lacks("diagnostic"), "missing_diagnostic_evidence">> >>)

\* What try_new accepts, said of the set the list stands for.
EvidenceAccepted(items, cmd) ==
    /\ Cardinality(items) <= MaxEvidence
    /\ \A item \in items : FirstFailure(ItemChecks(item, FALSE, cmd)) = "ok"
    /\ \A kind \in EvidenceKinds : \E item \in items : item.kind = kind

\* A raw reason is padded text; trim drops the padding, and the text left is
\* "blank", "oversize" (more than MAX_REASON_BYTES) or acceptable.
Trimmed(reason) == reason.text
ReasonAccepted(reason) == Trimmed(reason) \notin {"blank", "oversize"}

\* The checks of prepare_recovery that precede the evidence.
CommandError(cmd) ==
    FirstFailure(
      << <<cmd.generation <= 0, "invalid_generation">>,
         <<\/ cmd.target = cmd.expected
           \/ cmd.target_service # cmd.service
           \/ cmd.target_state # "healthy_baseline", "invalid_target">>,
         <<~ReasonAccepted(cmd.reason), "invalid_reason">> >>)

PrepareError(cmd, list) ==
    IF CommandError(cmd) # "ok" THEN CommandError(cmd) ELSE EvidenceListError(list, cmd)

\* The normalized facts.  Sorting by kind and id makes the stored list a
\* function of the set of records alone.
PlanSpec(cmd, items) ==
    [plan |-> cmd.plan, session |-> cmd.session, incident |-> cmd.incident,
     service |-> cmd.service, generation |-> cmd.generation,
     expected |-> cmd.expected, target |-> cmd.target,
     reason |-> Trimmed(cmd.reason), policy |-> PolicyVersion,
     evidence |-> items, created_at |-> cmd.created_at,
     expires_at |-> cmd.created_at + PlanLifetime]

Fingerprint(spec) ==
    << spec.plan, spec.session, spec.incident, spec.service, spec.generation,
       spec.expected, spec.target, spec.reason, spec.policy,
       spec.created_at, spec.expires_at, spec.evidence >>

-----------------------------------------------------------------------------
\* The lifecycle of one plan.

\* Mutated form: an approved plan is no longer counted as active.
ActiveStatus_NotApproved == {"prepared", "executing"}
ActiveStatus == {"prepared", "approved", "executing"}
TerminalStatus == {"executed", "rejected", "expired", "invalidated"}
PlanStatus == ActiveStatus \cup TerminalStatus

\* A lifecycle state, with the columns state_columns writes for it: the
\* approval pair survives into executing and executed and nowhere else.
Bare(status) ==
    [status |-> status, approved_at |-> NoTime,
     approved_fingerprint |-> NoFingerprint, executed_at |-> NoTime]
Approved(at, fingerprint) ==
    [status |-> "approved", approved_at |-> at,
     approved_fingerprint |-> fingerprint, executed_at |-> NoTime]

\* Mutated form: the deadline itself is still inside the window.
Overdue_Late(spec, state, now) ==
    now > spec.expires_at /\ state.status \in {"prepared", "approved"}
Overdue(spec, state, now) ==
    now >= spec.expires_at /\ state.status \in {"prepared", "approved"}

ExpireRecovery(spec, state, now) ==
    IF Overdue(spec, state, now) THEN Bare("expired") ELSE state

\* A decision is [kind |-> "approve", fingerprint |-> f] or [kind |-> "reject"].
\* Mutated form: a rejection is accepted in every state.
DecisionChecks_RejectAlways(spec, state, decision, now) ==
    << <<Overdue(spec, state, now), "expired">>,
       <<decision.kind = "approve" /\ decision.fingerprint # Fingerprint(spec),
         "fingerprint_mismatch">>,
       <<decision.kind = "approve" /\ state.status \notin {"prepared", "approved"},
         "invalid_transition">> >>
DecisionChecks(spec, state, decision, now) ==
    << <<Overdue(spec, state, now), "expired">>,
       <<decision.kind = "approve" /\ decision.fingerprint # Fingerprint(spec),
         "fingerprint_mismatch">>,
       <<decision.kind = "approve" /\ state.status \notin {"prepared", "approved"},
         "invalid_transition">>,
       <<decision.kind = "reject"
           /\ state.status \notin {"prepared", "approved", "rejected"},
         "invalid_transition">> >>
DecisionError(spec, state, decision, now) ==
    FirstFailure(DecisionChecks(spec, state, decision, now))

DecidedState(spec, state, decision, now) ==
    CASE decision.kind = "approve" /\ state.status = "prepared" ->
            Approved(now, Fingerprint(spec))
      [] decision.kind = "approve" /\ state.status = "approved" -> state
      [] decision.kind = "reject" -> Bare("rejected")

\* Mutated forms: only an approval is revoked; a status the schema lost in
\* migration 0004.
InvalidateRecovery_ApprovedOnly(state) ==
    IF state.status = "approved" THEN Bare("invalidated") ELSE state
InvalidateRecovery_Failed(state) ==
    IF state.status \in ActiveStatus THEN Bare("failed") ELSE state
InvalidateRecovery(state) ==
    IF state.status \in ActiveStatus THEN Bare("invalidated") ELSE state

\* Every precondition of execution, in the order validate_execution tests them.
\* Mutated form: the stored facts are checked, the approval is not.
ExecutionChecks_NoApproval(spec, state, facts, now) ==
    << <<state.status \in TerminalStatus, "not_approved">>,
       <<facts.session # spec.session, "cross_session">>,
       <<now >= spec.expires_at, "expired">>,
       <<facts.incident_status # "active", "incident_not_active">>,
       <<facts.release # spec.expected, "stale_active_release">>,
       <<facts.target_state # "healthy_baseline", "target_ineligible">>,
       <<facts.stored_fingerprint # Fingerprint(spec), "stored_fingerprint_mismatch">> >>
ExecutionChecks(spec, state, facts, now) ==
    << <<state.status = "executed", "already_executed">>,
       <<state.status = "invalidated", "invalidated">>,
       <<state.status = "expired", "expired">>,
       <<state.status # "approved", "not_approved">>,
       <<facts.session # spec.session, "cross_session">>,
       <<now >= spec.expires_at, "expired">>,
       <<facts.generation # spec.generation, "stale_generation">>,
       <<facts.incident # spec.incident, "active_incident_mismatch">>,
       <<facts.incident_status # "active", "incident_not_active">>,
       <<facts.release # spec.expected, "stale_active_release">>,
       <<facts.target # spec.target, "target_release_mismatch">>,
       <<facts.target_service # spec.service, "target_service_mismatch">>,
       <<facts.target_state # "healthy_baseline", "target_ineligible">>,
       <<state.approved_fingerprint # Fingerprint(spec), "approved_fingerprint_mismatch">>,
       <<facts.stored_fingerprint # Fingerprint(spec), "stored_fingerprint_mismatch">> >>
ExecutionError(spec, state, facts, now) ==
    FirstFailure(ExecutionChecks(spec, state, facts, now))

ClaimedState(state) == [state EXCEPT !.status = "executing"]
\* Mutated form: the claim is never completed.
CompleteExecution_LeftClaimed(state, now) == [state EXCEPT !.executed_at = now]
CompleteExecution(state, now) ==
    [status |-> "executed", approved_at |-> state.approved_at,
     approved_fingerprint |-> state.approved_fingerprint, executed_at |-> now]

\* The names of the persisted facts that do not match the executed plan.  The
\* telemetry facts are columns of the execution row itself, so their checks
\* repeat the ones on that row; there is one service and one generation.
VerificationMismatches(spec, state, facts) ==
    {check[2] : check \in {c \in
      { <<facts.execution_plan # spec.plan, "execution_plan">>,
        <<facts.generation # spec.generation, "scenario_generation">>,
        <<facts.previous # spec.expected, "previous_release">>,
        <<facts.current # spec.target, "current_release">>,
        <<facts.service # spec.service, "service">>,
        <<facts.health # "healthy", "health">>,
        <<facts.incident # spec.incident, "incident">>,
        <<facts.incident_status # "resolved", "incident_status">>,
        <<facts.diagnostic.plan # spec.plan, "diagnostic_plan">>,
        <<facts.diagnostic.release # spec.target, "diagnostic_release">>,
        <<facts.diagnostic.result.status # "passed", "diagnostic_status">>,
        <<facts.diagnostic.result.code # "DB_CONNECTION_OK", "diagnostic_code">>,
        <<\/ facts.stored_fingerprint # Fingerprint(spec)
          \/ state.approved_fingerprint # Fingerprint(spec), "fingerprint">> } : c[1]}}
=============================================================================
