---------------------------- MODULE RecoveryStore ----------------------------
(***************************************************************************)
(* The recovery tables of crates/persistence and the operations of Store   *)
(* that write them.  Every operation is one SQLite transaction that takes  *)
(* the writer lock before it reads (lock_active_session updates the        *)
(* session row first), so one committed transaction is one step; a         *)
(* transaction that fails or crashes before COMMIT leaves the tables as    *)
(* they were and is a stuttering step.                                     *)
(*                                                                         *)
(* The caller reads the clock BEFORE the transaction waits for a pooled    *)
(* connection and for the writer lock.  The instant `now' of a step is     *)
(* therefore any instant of the last MaxDelay, and steps may commit in an  *)
(* order other than that of their instants.                                *)
(*                                                                         *)
(* A caller learns an id from a response sent after its row was committed. *)
(* The rows of sessions, plans and diagnostics carry that instant, since,  *)
(* which is no column: a request naming the id read the clock no earlier.  *)
(*                                                                         *)
(* An id whose row was deleted may be minted again: it stands for a fresh  *)
(* UUID, which no remaining row mentions either.                           *)
(***************************************************************************)
EXTENDS RecoveryDomain

CONSTANTS
    Sessions, Plans, Diagnostics,   \* the ids that can be minted
    RefLists,           \* the evidence_refs lists a request may carry
    Reasons,            \* the raw reasons a request may carry
    SessionLifetime,    \* 24 hours, in units of the model clock
    MaxActiveSessions,  \* MAX_ACTIVE_SESSIONS
    AuditLimit,         \* the page size audit_events is asked for
    MaxDelay,           \* bound: longest wait between reading the clock and commit
    MaxTime,            \* bound: last instant of the model clock
    MaxDiagnostics      \* bound: requested diagnostics of one session

ASSUME StoreAssumption ==
    /\ SessionLifetime \in Nat \ {0}
    /\ MaxActiveSessions \in Nat \ {0}
    /\ AuditLimit \in Nat
    /\ MaxDelay \in Nat /\ MaxTime \in Nat /\ MaxDiagnostics \in Nat
    /\ RefLists \subseteq Seq(Logs \cup Diagnostics)
    /\ NoSession \notin Sessions /\ NoPlan \notin Plans
    /\ Logs \cap Diagnostics = {} /\ Plans \cap Sessions = {}

VARIABLES
    clock,        \* the wall clock
    session,      \* demo_sessions: status and created_at
    production,   \* services and incidents: active release, health, incident
    plan,         \* recovery_plans with recovery_plan_evidence
    diagnostic,   \* diagnostic_results with diagnostic_contexts
    executions,   \* recovery_plan_executions
    audit,        \* audit_events
    resets        \* session_resets

vars == <<clock, session, production, plan, diagnostic, executions, audit, resets>>
recoveryVars == <<plan, diagnostic, executions>>

-----------------------------------------------------------------------------
\* Rows.  A row that does not exist has status "absent" or session NoSession.

AbsentSession == [status |-> "absent", created_at |-> 0, since |-> 0]
AbsentPlan ==
    [session |-> NoSession, expected |-> "", target |-> "", reason |-> "",
     evidence |-> {}, created_at |-> 0, fingerprint |-> NoFingerprint,
     state |-> Bare("absent"), since |-> 0]
AbsentDiagnostic ==
    [session |-> NoSession, release |-> "", result |-> [status |-> "", code |-> ""],
     plan |-> NoPlan, since |-> 0]
LiveSession(at) == [status |-> "live", created_at |-> at, since |-> clock]

DiagnosticRow(s, release, p) ==
    [session |-> s, release |-> release,
     result |-> DatabaseConnectivityDiagnostic(release), plan |-> p, since |-> clock]

\* Mutated form: a request keeps an instant read one tick too early.
Instants_Early == {t \in 0 .. clock : t >= clock - MaxDelay - 1}
Instants == {t \in 0 .. clock : t >= clock - MaxDelay}

SessionExpiry(s) == session[s].created_at + SessionLifetime
PlanExpiry(p) == plan[p].created_at + PlanLifetime

\* lock_active_session: the session is neither revoked nor expired at `now'.
LockActive(s, now) ==
    /\ session[s].status = "live" /\ now >= session[s].since
    /\ now < SessionExpiry(s)

\* Mutated form: the session is missing from the WHERE clause.
PlansOf_AnySession(s) == {p \in Plans : plan[p].session # NoSession}
PlansOf(s) == {p \in Plans : plan[p].session = s}
ActivePlans(s) == {p \in PlansOf(s) : plan[p].state.status \in ActiveStatus}

\* insert_audit: INSERT OR IGNORE under a deduplication key of the session,
\* the event and its subject.
\* Mutated form: the event of an approval carries the plan's deadline.
Event_Deadline(s, event, subject, at) ==
    [session |-> s, event |-> event, subject |-> subject,
     at |-> IF event = "human_approval" THEN PlanExpiry(subject) ELSE at]
Event(s, event, subject, at) ==
    [session |-> s, event |-> event, subject |-> subject, at |-> at]
\* Mutated form: a deduplication key of the session and the event alone.
Recorded_PerSession(s, event, subject) ==
    \E e \in audit : e.session = s /\ e.event = event
Recorded(s, event, subject) ==
    \E e \in audit : e.session = s /\ e.event = event /\ e.subject = subject
Audit(s, event, subject, at) ==
    IF Recorded(s, event, subject) THEN {} ELSE {Event(s, event, subject, at)}

-----------------------------------------------------------------------------
\* Evidence and stored plans.

\* A reference resolves when one record of the session has that id.
Resolves(s, ref, now) ==
    \/ ref \in Logs
    \/ /\ ref \in Diagnostics /\ diagnostic[ref].session = s
       /\ now >= diagnostic[ref].since

\* The record a reference stands for.  Log rows carry no release of their
\* own: they are read as facts of the release the plan is about.
EvidenceRecord(s, ref, release) ==
    IF ref \in Logs
    THEN [id |-> ref, kind |-> "log", session |-> s, service |-> SeededService,
          release |-> release, generation |-> SeededGeneration,
          status |-> "none", code |-> LogCode(ref)]
    ELSE [id |-> ref, kind |-> "diagnostic", session |-> s, service |-> SeededService,
          release |-> diagnostic[ref].release, generation |-> SeededGeneration,
          status |-> diagnostic[ref].result.status,
          code |-> diagnostic[ref].result.code]

Command(s, p, expected, target, reason, at) ==
    [plan |-> p, session |-> s, incident |-> SeededIncident,
     service |-> SeededService, generation |-> SeededGeneration,
     expected |-> expected, target |-> target, target_service |-> SeededService,
     target_state |-> ReleaseState(target), reason |-> reason, created_at |-> at]

\* load_plan rebuilds the reviewed facts from the stored rows ...
LoadedCommand(p) ==
    Command(plan[p].session, p, plan[p].expected, plan[p].target,
            [text |-> plan[p].reason], plan[p].created_at)
\* Mutated form: logs read as facts of the release that is active now.
LoadedEvidence_ActiveRelease(p) ==
    {EvidenceRecord(plan[p].session, ref, production[plan[p].session].release) :
       ref \in plan[p].evidence}
LoadedEvidence(p) ==
    {EvidenceRecord(plan[p].session, ref, plan[p].expected) : ref \in plan[p].evidence}
LoadedSpec(p) == PlanSpec(LoadedCommand(p), LoadedEvidence(p))

\* ... and prepares them again: a plan that no longer passes cannot be loaded.
Loads(p) ==
    /\ CommandError(LoadedCommand(p)) = "ok"
    /\ EvidenceAccepted(LoadedEvidence(p), LoadedCommand(p))

\* current_recovery returns the plan with the greatest created_at; plans of one
\* instant are ordered by their random ids, so any of them may come first.
NewestPlans(s) ==
    {p \in PlansOf(s) : \A q \in PlansOf(s) : plan[q].created_at <= plan[p].created_at}

\* The plans of `s' that expire_active_plan expires at `now'.  It takes one of
\* them (LIMIT 1); the unique index of migration 0004 leaves no second one.
OverduePlans(s, now) ==
    {p \in PlansOf(s) : now >= PlanExpiry(p) /\ plan[p].state.status \in {"prepared", "approved"}}
ExpiredAudit(s, overdue, now) ==
    UNION {Audit(s, "recovery_expired", p, now) : p \in overdue}
Expire(overdue, now) ==
    [p \in Plans |->
        IF p \in overdue
        THEN [plan[p] EXCEPT !.state = ExpireRecovery(LoadedSpec(p), plan[p].state, now)]
        ELSE plan[p]]

-----------------------------------------------------------------------------
Init ==
    /\ clock = 0
    /\ session = [s \in Sessions |-> AbsentSession]
    /\ production = [s \in Sessions |-> SeededProduction]
    /\ plan = [p \in Plans |-> AbsentPlan]
    /\ diagnostic = [d \in Diagnostics |-> AbsentDiagnostic]
    /\ executions = {}
    /\ audit = {}
    /\ resets = {}

Tick ==
    /\ clock < MaxTime
    /\ clock' = clock + 1
    /\ UNCHANGED <<session, production, recoveryVars, audit, resets>>

\* create_session deletes every revoked or expired session with the rows that
\* depend on it, then inserts the seeded scenario unless the ceiling is met.
Removable(now) ==
    {s \in Sessions : \/ session[s].status = "revoked"
                      \/ session[s].status = "live" /\ SessionExpiry(s) <= now}
Remaining(now) ==
    {s \in Sessions : session[s].status = "live"} \ Removable(now)

\* Mutated form: the ceiling is off by one.
HasCapacity_OffByOne(now) == Cardinality(Remaining(now)) <= MaxActiveSessions
HasCapacity(now) == Cardinality(Remaining(now)) < MaxActiveSessions

\* The diagnostics left once those of the removed sessions are deleted.
\* Mutated form: diagnostics no execution links are deleted in every session.
KeptDiagnostics_LinkedOnly(gone) ==
    [d \in Diagnostics |->
        IF diagnostic[d].session \in gone \/ diagnostic[d].plan = NoPlan
        THEN AbsentDiagnostic ELSE diagnostic[d]]
KeptDiagnostics(gone) ==
    [d \in Diagnostics |->
        IF diagnostic[d].session \in gone THEN AbsentDiagnostic ELSE diagnostic[d]]

CreateSession(s, now) ==
    LET gone == Removable(now)
    IN  /\ s \notin Remaining(now)
        /\ HasCapacity(now)
        /\ session' = [t \in Sessions |->
                         IF t = s THEN LiveSession(now)
                         ELSE IF t \in gone THEN AbsentSession ELSE session[t]]
        /\ production' = [t \in Sessions |->
                            IF t = s \/ t \in gone
                            THEN SeededProduction ELSE production[t]]
        /\ plan' = [p \in Plans |->
                      IF plan[p].session \in gone THEN AbsentPlan ELSE plan[p]]
        /\ diagnostic' = KeptDiagnostics(gone)
        /\ executions' = {e \in executions : e.session \notin gone}
        /\ audit' = {e \in audit : e.session \notin gone}
        /\ resets' = {r \in resets : r.original \notin gone /\ r.replacement \notin gone}
        /\ UNCHANGED clock

\* run_database_diagnostic checks the release that is active when it commits:
\* its read snapshot is upgraded to a write, which SQLite refuses when another
\* transaction committed after the read.
RequestedDiagnostics(s) ==
    {d \in Diagnostics : diagnostic[d].session = s /\ diagnostic[d].plan = NoPlan}

RunDatabaseDiagnostic(s, d, now) ==
    /\ LockActive(s, now)
    /\ diagnostic[d].session = NoSession
    /\ Cardinality(RequestedDiagnostics(s)) < MaxDiagnostics
    /\ diagnostic' = [diagnostic EXCEPT ![d] =
                        DiagnosticRow(s, production[s].release, NoPlan)]
    /\ UNCHANGED <<clock, session, production, plan, executions, audit, resets>>

\* The records the request's references resolve to, and the facts prepared
\* from them about the release that is active now.
EvidenceList(s, refs) ==
    [i \in DOMAIN refs |-> EvidenceRecord(s, refs[i], production[s].release)]
PreparedCommand(s, p, target, reason, now) ==
    Command(s, p, production[s].release, target, reason, now)
PreparedSpec(s, p, target, refs, reason, now) ==
    PlanSpec(PreparedCommand(s, p, target, reason, now),
             {EvidenceList(s, refs)[i] : i \in DOMAIN refs})
PreparedRow(spec, refs) ==
    [session |-> spec.session, expected |-> spec.expected, target |-> spec.target,
     reason |-> spec.reason, evidence |-> {refs[i] : i \in DOMAIN refs},
     created_at |-> spec.created_at, fingerprint |-> Fingerprint(spec),
     state |-> Bare("prepared"), since |-> clock]

\* prepare_recovery: an overdue plan is expired first, and that expiry is
\* kept only when the new plan is stored too.
PrepareRecovery(s, p, target, refs, reason, now) ==
    LET overdue == OverduePlans(s, now)
    IN  /\ LockActive(s, now)
        /\ plan[p].session = NoSession
        /\ \A q \in overdue : Loads(q)
        /\ production[s].incident = "active"
        /\ ActivePlans(s) \subseteq overdue
        /\ \A i \in DOMAIN refs : Resolves(s, refs[i], now)
        /\ PrepareError(PreparedCommand(s, p, target, reason, now),
                        EvidenceList(s, refs)) = "ok"
        /\ plan' = [Expire(overdue, now) EXCEPT ![p] =
                      PreparedRow(PreparedSpec(s, p, target, refs, reason, now), refs)]
        /\ audit' = audit \cup ExpiredAudit(s, overdue, now)
                          \cup Audit(s, "recovery_prepared", p, now)
        /\ UNCHANGED <<clock, session, production, diagnostic, executions, resets>>

\* current_recovery persists an expiry whose deadline has passed, unless the
\* plan it is to return cannot be loaded.
CurrentRecovery(s, now) ==
    LET overdue == OverduePlans(s, now)
    IN  /\ LockActive(s, now)
        /\ \A q \in overdue : Loads(q)
        /\ PlansOf(s) # {} => \E p \in NewestPlans(s) : Loads(p)
        /\ plan' = Expire(overdue, now)
        /\ audit' = audit \cup ExpiredAudit(s, overdue, now)
        /\ UNCHANGED <<clock, session, production, diagnostic, executions, resets>>

\* load_plan under the lock: the plan is the session's and still loads.
Locked(s, p, now) ==
    /\ LockActive(s, now)
    /\ plan[p].session = s
    /\ now >= plan[p].since
    /\ Loads(p)

\* A late decision or execution is refused, but first commits the expiry.
ExpireInstead(s, p, now) ==
    /\ plan' = [plan EXCEPT ![p].state = Bare("expired")]
    /\ audit' = audit \cup Audit(s, "recovery_expired", p, now)
    /\ UNCHANGED <<clock, session, production, diagnostic, executions, resets>>

DecideLate(s, p, now) ==
    /\ Locked(s, p, now)
    /\ Overdue(LoadedSpec(p), plan[p].state, now)
    /\ ExpireInstead(s, p, now)

\* decide_recovery: a repeated decision changes and records nothing.
DecideRecovery(s, p, decision, now) ==
    LET next == DecidedState(LoadedSpec(p), plan[p].state, decision, now)
        event == IF next.status = "approved" THEN "human_approval" ELSE "human_rejection"
    IN  /\ Locked(s, p, now)
        /\ DecisionError(LoadedSpec(p), plan[p].state, decision, now) = "ok"
        /\ plan' = [plan EXCEPT ![p].state = next]
        /\ audit' = IF next = plan[p].state
                    THEN audit ELSE audit \cup Audit(s, event, p, now)
        /\ UNCHANGED <<clock, session, production, diagnostic, executions, resets>>

LateExecution(p, now) ==
    now >= LoadedSpec(p).expires_at /\ plan[p].state.status = "approved"

ExecuteLate(s, p, now) ==
    /\ Locked(s, p, now)
    /\ LateExecution(p, now)
    /\ ExpireInstead(s, p, now)

\* The facts execute_recovery rereads inside its transaction.
ExecutionFacts(s, p) ==
    [session |-> s, generation |-> SeededGeneration, incident |-> SeededIncident,
     incident_status |-> production[s].incident, release |-> production[s].release,
     target |-> plan[p].target, target_service |-> SeededService,
     target_state |-> ReleaseState(plan[p].target),
     stored_fingerprint |-> plan[p].fingerprint]

\* The diagnostic stored with an execution describes the restored release.
\* Mutated form: it describes the release read before the change.
AfterStateDiagnostic_Before(s, p) == DiagnosticRow(s, production[s].release, p)
AfterStateDiagnostic(s, p) == DiagnosticRow(s, plan[p].target, p)

\* execute_recovery: claim the approved plan, change the service, resolve the
\* incident, store the after-state and its diagnostic, complete the plan.
ExecuteRecovery(s, p, d, now) ==
    /\ Locked(s, p, now)
    /\ ~LateExecution(p, now)
    /\ ExecutionError(LoadedSpec(p), plan[p].state, ExecutionFacts(s, p), now) = "ok"
    /\ diagnostic[d].session = NoSession
    /\ production' = [production EXCEPT ![s] =
                        [release |-> plan[p].target, health |-> "healthy",
                         incident |-> "resolved"]]
    /\ diagnostic' = [diagnostic EXCEPT ![d] = AfterStateDiagnostic(s, p)]
    /\ executions' = executions \cup
         {[session |-> s, plan |-> p, previous |-> plan[p].expected,
           current |-> plan[p].target, diagnostic |-> d, executed_at |-> now]}
    /\ plan' = [plan EXCEPT ![p].state =
                  CompleteExecution(ClaimedState(plan[p].state), now)]
    /\ audit' = audit \cup Audit(s, "recovery_execution", p, now)
    /\ UNCHANGED <<clock, session, resets>>

\* verify_recovery compares the plan with the persisted after-state.
VerificationFacts(s, p, e) ==
    [execution_plan |-> e.plan, generation |-> SeededGeneration,
     previous |-> e.previous, current |-> e.current, service |-> SeededService,
     health |-> production[s].health, incident |-> SeededIncident,
     incident_status |-> production[s].incident,
     diagnostic |-> diagnostic[e.diagnostic],
     stored_fingerprint |-> plan[p].fingerprint]
VerificationOutcome(s, p, e) ==
    IF VerificationMismatches(LoadedSpec(p), plan[p].state, VerificationFacts(s, p, e)) = {}
    THEN "verified_healthy" ELSE "verified_mismatch"

VerifyRecovery(s, p, now) ==
    /\ Locked(s, p, now)
    /\ plan[p].state.status = "executed"
    /\ \E e \in executions :
         /\ e.session = s /\ e.plan = p
         /\ audit' = audit \cup Audit(s, VerificationOutcome(s, p, e), p, now)
    /\ UNCHANGED <<clock, session, production, recoveryVars, resets>>

\* reset_session: a seeded replacement, every active plan invalidated, the
\* lineage recorded and the original revoked.  The ceiling is not consulted:
\* one active session replaces another.
ResetSession(s, r, now) ==
    /\ LockActive(s, now)
    /\ session[r].status = "absent"
    /\ session' = [session EXCEPT ![r] = LiveSession(now),
                                  ![s].status = "revoked"]
    /\ production' = [production EXCEPT ![r] = SeededProduction]
    /\ plan' = [p \in Plans |->
                  IF plan[p].session = s
                  THEN [plan[p] EXCEPT !.state = InvalidateRecovery(@)]
                  ELSE plan[p]]
    /\ resets' = resets \cup {[original |-> s, replacement |-> r]}
    /\ audit' = audit \cup Audit(s, "session_reset", r, now)
    /\ UNCHANGED <<clock, diagnostic, executions>>

-----------------------------------------------------------------------------
Decisions ==
    [kind : {"approve"}, fingerprint : {plan[p].fingerprint : p \in Plans}]
    \cup {[kind |-> "reject"]}

\* The requests that carry the cookie of session `s', with the instant their
\* handler read; the creation of `s' is the one that mints it.
Operation(s, now) ==
    \/ CreateSession(s, now)
    \/ \E r \in Sessions : ResetSession(s, r, now)
    \/ \E d \in Diagnostics : RunDatabaseDiagnostic(s, d, now)
    \/ CurrentRecovery(s, now)
    \/ \E p \in Plans, target \in Releases, refs \in RefLists, reason \in Reasons :
         PrepareRecovery(s, p, target, refs, reason, now)
    \/ \E p \in Plans : DecideLate(s, p, now)
    \/ \E p \in Plans, decision \in Decisions : DecideRecovery(s, p, decision, now)
    \/ \E p \in Plans : ExecuteLate(s, p, now)
    \/ \E p \in Plans, d \in Diagnostics : ExecuteRecovery(s, p, d, now)
    \/ \E p \in Plans : VerifyRecovery(s, p, now)

Next == Tick \/ \E s \in Sessions, now \in Instants : Operation(s, now)

Spec == Init /\ [][Next]_vars

-----------------------------------------------------------------------------
\* Reads.

\* audit_events(limit): the first `limit' rows in ascending recorded_at; rows
\* of one instant come in any order.
AuditOf(s) == {e \in audit : e.session = s}
AuditEvents(s, limit) ==
    {page \in SUBSET AuditOf(s) :
        /\ Cardinality(page) = IF Cardinality(AuditOf(s)) < limit
                               THEN Cardinality(AuditOf(s)) ELSE limit
        /\ \A shown \in page, hidden \in AuditOf(s) \ page : shown.at <= hidden.at}
-----------------------------------------------------------------------------
\* Types.

EvidenceIds == Logs \cup Diagnostics
Events ==
    {"recovery_prepared", "human_approval", "human_rejection", "recovery_expired",
     "recovery_execution", "verified_healthy", "verified_mismatch", "session_reset"}
ReasonTexts == {Trimmed(reason) : reason \in Reasons}
Texts(S) == S \cup {""}
EvidenceType ==
    [id : EvidenceIds, kind : EvidenceKinds, session : Sessions,
     service : {SeededService}, release : Texts(Releases),
     generation : {SeededGeneration}, status : {"none", "passed", "failed", ""},
     code : {"DB_AUTH_METHOD_MISMATCH", "DB_CONNECTION_OK", "OTHER", ""}]
Digests ==
    Plans \X Sessions \X {SeededIncident} \X {SeededService} \X {SeededGeneration}
      \X Releases \X Releases \X ReasonTexts \X {PolicyVersion}
      \X Int \X Int \X SUBSET EvidenceType
FingerprintType == Digests \cup {NoFingerprint}

\* NULL is no digest.
ASSUME NullAssumption == NoFingerprint \notin Digests

SessionType == [status : {"absent", "live", "revoked"}, created_at : Nat, since : Nat]
ProductionType == [release : Releases, health : {"critical", "healthy"},
                   incident : {"active", "resolved"}]
StateType ==
    [status : PlanStatus \cup {"absent"}, approved_at : Int,
     approved_fingerprint : FingerprintType, executed_at : Int]
PlanType ==
    [session : Sessions \cup {NoSession}, expected : Texts(Releases),
     target : Texts(Releases), reason : Texts(ReasonTexts),
     evidence : SUBSET EvidenceIds, created_at : Nat, fingerprint : FingerprintType,
     state : StateType, since : Nat]
DiagnosticType ==
    [session : Sessions \cup {NoSession}, release : Texts(Releases),
     result : [status : Texts({"passed", "failed"}),
               code : Texts({"DB_AUTH_METHOD_MISMATCH", "DB_CONNECTION_OK"})],
     plan : Plans \cup {NoPlan}, since : Nat]
ExecutionType ==
    [session : Sessions, plan : Plans, previous : Texts(Releases),
     current : Texts(Releases), diagnostic : Diagnostics, executed_at : Nat]
AuditType ==
    [session : Sessions, event : Events, subject : Plans \cup Sessions, at : Nat]

\* Every table holds rows of its declared columns: a plan keeps the trimmed
\* reason, a CHECKed status and 64-digit fingerprints or NULL.
TypeOK ==
    /\ clock \in Nat
    /\ session \in [Sessions -> SessionType]
    /\ production \in [Sessions -> ProductionType]
    /\ plan \in [Plans -> PlanType]
    /\ diagnostic \in [Diagnostics -> DiagnosticType]
    /\ executions \subseteq ExecutionType
    /\ audit \subseteq AuditType
    /\ resets \subseteq [original : Sessions, replacement : Sessions]

-----------------------------------------------------------------------------
\* Safety.

Exists(p) == plan[p].session # NoSession
Status(p) == plan[p].state.status

\* A session never has two plans that could still be approved or executed,
\* whatever expiries, rejections and resets came between the preparations;
\* and "executing" is never a committed state.
OneActivePlan ==
    \A p, q \in Plans :
        /\ Status(p) # "executing"
        /\ /\ Exists(p) /\ plan[p].session = plan[q].session
           /\ Status(p) \in {"prepared", "approved"}
           /\ Status(q) \in {"prepared", "approved"}
           => p = q

\* The after-state is all or nothing: the active release, the service health,
\* the incident, the executed plan and its execution row change together, and
\* a session is recovered by at most one plan.
RecoveredTogether ==
    \A s \in Sessions :
        LET executed == {p \in Plans : plan[p].session = s /\ Status(p) = "executed"}
            rows == {e \in executions : e.session = s}
            now == production[s]
        IN  IF executed = {}
            THEN now = SeededProduction /\ rows = {}
            ELSE \E p \in executed, e \in rows :
                   /\ executed = {p} /\ rows = {e}
                   /\ now = [release |-> plan[p].target, health |-> "healthy",
                             incident |-> "resolved"]
                   /\ e.plan = p /\ e.previous = plan[p].expected
                   /\ e.current = plan[p].target
                   /\ e.executed_at = plan[p].state.executed_at
                   /\ diagnostic[e.diagnostic].plan = p

\* What a human approved is what the stored rows still say: the fingerprint
\* recomputed from the plan, its evidence rows and the diagnostics they point
\* at equals the stored one and the approved one.
ApprovalBindsFacts ==
    \A p \in Plans : Exists(p) =>
        /\ plan[p].fingerprint = Fingerprint(LoadedSpec(p))
        /\ plan[p].state.approved_fingerprint # NoFingerprint
             => plan[p].state.approved_fingerprint = Fingerprint(LoadedSpec(p))
        /\ Status(p) \in {"approved", "executed"}
             <=> plan[p].state.approved_fingerprint # NoFingerprint

\* A stored plan can always be loaded again: no deletion and no later write
\* makes its evidence fail the validation load_plan repeats.
PlansReload == \A p \in Plans : Exists(p) => Loads(p)

\* An approved plan whose window is open can be executed: nothing another
\* operation commits makes an execution precondition fail.
ApprovedCanExecute ==
    \A p \in Plans :
        LET s == plan[p].session
        IN  /\ Exists(p) /\ Status(p) = "approved" /\ clock < PlanExpiry(p)
            /\ session[s].status = "live"
            => ExecutionError(LoadedSpec(p), plan[p].state, ExecutionFacts(s, p), clock) = "ok"

\* The audit trail and the plan agree in both directions: every transition a
\* plan made is recorded once, under the plan's session, and nothing else is.
AuditMatchesPlans ==
    LET Logged(p, event) == \E e \in audit : e.event = event /\ e.subject = p
    IN  /\ \A p \in Plans :
             /\ Exists(p) <=> Logged(p, "recovery_prepared")
             /\ Status(p) = "executed" <=> Logged(p, "recovery_execution")
             /\ Status(p) = "rejected" <=> Logged(p, "human_rejection")
             /\ Status(p) = "expired" <=> Logged(p, "recovery_expired")
             /\ Status(p) \in {"approved", "executed"} => Logged(p, "human_approval")
             /\ Status(p) = "prepared" => ~Logged(p, "human_approval")
        /\ \A e \in audit :
             /\ e.subject \in Plans => plan[e.subject].session = e.session
             /\ \A f \in audit : e.event = f.event /\ e.subject = f.subject => e = f

\* Revocation ends every authority of a session and leaves its lineage: a
\* revoked session has no active plan and exactly one replacement; a session
\* that was not reset has none.
RevokedHasNoAuthority ==
    \A s \in Sessions :
        LET lineage == {r \in resets : r.original = s}
        IN  IF session[s].status = "revoked"
            THEN /\ \A p \in Plans : plan[p].session = s => Status(p) \in TerminalStatus
                 /\ \E r \in lineage : /\ lineage = {r}
                                       /\ session[r.replacement].status # "absent"
            ELSE lineage = {}

\* The sessions that are not revoked stay within the ceiling, whatever mix of
\* creations, expiries and resets led there.
SessionCeiling ==
    Cardinality({s \in Sessions : session[s].status = "live"}) <= MaxActiveSessions

\* Every approval and execution carries an instant inside the plan's window.
DecisionsInWindow ==
    \A p \in Plans : \A at \in {plan[p].state.approved_at, plan[p].state.executed_at} :
        at # NoTime => plan[p].created_at <= at /\ at < PlanExpiry(p)

\* current_recovery returns the plan with the greatest instant, the control room
\* the one it returns: no plan of the session is younger than the one the session
\* could still act on by more than a request waits.
ActivePlanIsNearlyCurrent ==
    \A s \in Sessions : \A p, q \in PlansOf(s) :
        Status(p) \in {"prepared", "approved"}
          => plan[q].created_at <= plan[p].created_at + MaxDelay

\* Ordered by their instants, the events of a plan tell its story: prepared,
\* then decided, then executed, then verified.  An event of the story carries an
\* instant before that of an earlier one by no more than a request waits.
AuditNearlyInOrder ==
    LET Rank(e) == CASE e.event = "recovery_prepared" -> 0
                     [] e.event = "human_approval" -> 1
                     [] e.event = "recovery_execution" -> 2
                     [] OTHER -> 3
    IN  \A e, f \in audit :
          e.subject = f.subject /\ Rank(e) < Rank(f) => e.at <= f.at + MaxDelay

\* Verification of an executed plan never finds a mismatch: no operation that
\* follows the execution disturbs the facts it compares.
VerificationPasses == \A e \in audit : e.event # "verified_mismatch"

-----------------------------------------------------------------------------
\* What the repository's documents and comments say, and the code does not do.

\* crates/persistence/src/lib.rs:374: "Returns the newest audit events for one
\* session in chronological display order."
AuditPageIsNewest ==
    \A s \in Sessions : \A page \in AuditEvents(s, AuditLimit) :
        \A shown \in page, hidden \in AuditOf(s) \ page : hidden.at <= shown.at

\* docs/superpowers/specs/2026-08-26-phase-4-6-design.md:94: "A retry with the
\* old cookie returns the same replacement."  The retry passes the same lock as
\* the first request, or it answers SESSION_INACTIVE.
ResetRetryIsAnswered ==
    \A r \in resets :
        session[r.original].status = "revoked" => LockActive(r.original, clock)

\* docs/phase-reports/05-reliability-and-security.md:66: "The application
\* ceiling bounds storage".
StoredSessionsBounded ==
    Cardinality({s \in Sessions : session[s].status # "absent"}) <= MaxActiveSessions

\* docs/TECHNICAL_SPEC.md:54-59: the execution transaction checks that "The
\* current time is before `expires_at`".
ExecutionBeforeDeadline ==
    [][\A p \in Plans :
         Status(p) = "approved" /\ Status(p)' = "executed" => clock < PlanExpiry(p)]_vars

-----------------------------------------------------------------------------
\* What a step may never do.

\* A terminal plan never changes again, and no plan's reviewed facts do; a
\* plan row disappears only with its session.
Facts(p) == [column \in DOMAIN plan[p] \ {"state"} |-> plan[p][column]]
PlanStepAllowed(p) ==
    \/ ~Exists(p)
    \/ plan'[p] = AbsentPlan /\ session[plan[p].session] # session'[plan[p].session]
    \/ /\ Facts(p)' = Facts(p)
       /\ Status(p) \in TerminalStatus => plan'[p].state = plan[p].state
TerminalPlansAreFinal == [][\A p \in Plans : PlanStepAllowed(p)]_vars

\* Production recovers only by executing a plan of that session that was
\* approved, with exactly the facts then stored, before the step.
RecoveryStepAllowed(s) ==
    \E p \in Plans :
        /\ plan[p].session = s
        /\ Status(p) = "approved" /\ Status(p)' = "executed"
        /\ plan[p].state.approved_fingerprint = Fingerprint(LoadedSpec(p))
        /\ production'[s].release = plan[p].target
        /\ \E e \in audit : e.event = "human_approval" /\ e.subject = p
RecoveryNeedsApproval ==
    [][\A s \in Sessions :
         production[s].incident = "active" /\ production'[s].incident = "resolved"
           => RecoveryStepAllowed(s)]_vars

RowsOf(s) ==
    << production[s], {<<p, plan[p]>> : p \in {x \in Plans : plan[x].session = s}},
       {<<d, diagnostic[d]>> : d \in {x \in Diagnostics : diagnostic[x].session = s}},
       {e \in executions : e.session = s}, {e \in audit : e.session = s} >>
Alive(s) == session[s].status = "live" /\ clock < SessionExpiry(s)
Disturbed(s) == session'[s] # session[s] \/ RowsOf(s)' # RowsOf(s)

\* An operation of one session leaves every other live session alone: neither a
\* creation, whatever it prunes, nor a reset, an expiry, a decision or an
\* execution asked for by one browser changes a row of a session another uses.
SessionsIsolated ==
    [][\A s, t \in Sessions :
         s # t /\ Alive(t) /\ Disturbed(t) => \A now \in Instants : ~Operation(s, now)]_vars
=============================================================================
