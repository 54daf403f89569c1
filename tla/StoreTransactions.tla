-------------------------- MODULE StoreTransactions --------------------------
(***************************************************************************)
(* The handlers of crates/api over the SQLite transactions of              *)
(* crates/persistence, one step per awaited statement.  The tables of      *)
(* RecoveryStore are the committed ones; the connection that holds the     *)
(* writer lock works on a draft of them, COMMIT publishes the draft, and   *)
(* an error, a panic or a crash drops it.  Queries outside a transaction   *)
(* each read what is committed at that moment.                             *)
(*                                                                         *)
(* A request waits for a pooled connection and for the writer lock without *)
(* order, for at most MaxDelay; either wait may run into its timeout.  No  *)
(* handler holds one connection while it waits for another.  The few       *)
(* milliseconds a transaction holds the writer lock pass within one        *)
(* instant of the clock.                                                   *)
(***************************************************************************)
EXTENDS RecoveryStore

CONSTANTS
    Requests,     \* the requests that can be in progress together
    LastArrival,  \* bound: the last instant at which each operation is asked for
    NoRequest,    \* the writer lock is free
    NoDraft       \* nothing is written ahead of a COMMIT

ASSUME TransactionAssumption ==
    /\ NoRequest \notin Requests
    /\ MaxDelay <= PlanLifetime   \* 5 s and 30 s of waiting against ten minutes
    /\ MaxDelay < SessionLifetime

VARIABLES
    request,      \* the handler's progress with each request, and its answer
    writer,       \* the request whose connection holds the writer lock
    draft         \* the tables as that connection sees them

tables == <<session, production, plan, diagnostic, executions, audit, resets>>
storeVars == <<clock, tables>>
txVars == <<storeVars, request, writer, draft>>

Committed ==
    [session |-> session, production |-> production, plan |-> plan,
     diagnostic |-> diagnostic, executions |-> executions, audit |-> audit,
     resets |-> resets]

NotSeen == [service |-> "", incident |-> "", telemetry |-> ""]
Idle ==
    [op |-> "none", at |-> "idle", session |-> NoSession, plan |-> NoPlan,
     now |-> 0, fresh |-> NoSession, deadline |-> 0, release |-> "",
     moved |-> FALSE, seen |-> NotSeen, answer |-> "none"]

Pending(r) == request[r].at \notin {"idle", "answered"}

-----------------------------------------------------------------------------
\* Answers.

\* The code a refusal of the recovery rules is sent under.
RecoveryErrorCode(error) ==
    CASE error = "invalid_target" -> "INVALID_TARGET_RELEASE"
      [] error = "fingerprint_mismatch" -> "PLAN_FINGERPRINT_MISMATCH"
      [] error = "not_approved" -> "PLAN_NOT_APPROVED"
      [] error = "expired" -> "PLAN_EXPIRED"
      [] error \in {"stale_generation", "active_incident_mismatch", "incident_not_active",
                    "stale_active_release", "target_release_mismatch",
                    "target_service_mismatch", "target_ineligible"} -> "PLAN_STALE"
      [] error = "cross_session" -> "PLAN_NOT_FOUND"
      [] error = "already_executed" -> "PLAN_ALREADY_EXECUTED"
      [] error = "invalidated" -> "PLAN_INVALIDATED"
      [] error \in {"invalid_transition", "not_executed"} -> "INVALID_PLAN_TRANSITION"
      [] error \in {"approved_fingerprint_mismatch", "stored_fingerprint_mismatch"}
           -> "RECOVERY_INTEGRITY_ERROR"
      [] OTHER -> "INVALID_PLAN_INPUT"

\* The code a StoreError is sent under.  An inactive session and a missing one
\* are told apart by the store and not by the client.
ErrorCode(error) ==
    CASE error \in {"session_not_found", "session_inactive"} -> "SESSION_NOT_FOUND"
      [] error = "not_found" -> "PLAN_NOT_FOUND"
      [] error = "unresolved_evidence" -> "INVALID_RECOVERY_EVIDENCE"
      [] error = "active_exists" -> "PLAN_ALREADY_ACTIVE"
      [] error = "capacity" -> "SESSION_CAPACITY_REACHED"
      [] error \in {"busy", "busy_snapshot", "row_missing"} -> "INTERNAL_ERROR"
      [] OTHER -> RecoveryErrorCode(error)

\* What remains of a request once its response is on its way.
Answered(r, answer) ==
    [Idle EXCEPT !.op = request[r].op, !.at = "answered", !.answer = answer,
                 !.session = request[r].session, !.plan = request[r].plan]

\* A step of `r' that changes its own progress and no table.
Advance(r, next) ==
    /\ request' = [request EXCEPT ![r] = next]
    /\ UNCHANGED <<storeVars, writer, draft>>
Answer(r, answer) == Advance(r, Answered(r, answer))

\* Dropping the transaction rolls it back and frees the writer lock.
Refuse(r, error) ==
    /\ request' = [request EXCEPT ![r] = Answered(r, error)]
    /\ writer' = NoRequest
    /\ draft' = NoDraft
    /\ UNCHANGED storeVars

\* COMMIT frees the lock, and every snapshot another transaction reads from
\* is no longer the newest.
AfterCommit(r, next) ==
    /\ request' = [q \in Requests |->
                     IF q = r THEN next
                     ELSE [request[q] EXCEPT !.moved = @ \/ request[q].at = "upgrade"]]
    /\ writer' = NoRequest
    /\ draft' = NoDraft

Publish(r, next) ==
    /\ session' = draft.session
    /\ production' = draft.production
    /\ plan' = draft.plan
    /\ diagnostic' = draft.diagnostic
    /\ executions' = draft.executions
    /\ audit' = draft.audit
    /\ resets' = draft.resets
    /\ AfterCommit(r, next)
    /\ UNCHANGED clock

-----------------------------------------------------------------------------
\* Arrivals.

\* The first awaited step of each handler, and how the id it may mint is kept.
Operations ==
    {"create", "incident", "reset", "diagnostic", "prepare", "current",
     "approve", "reject", "execute", "verify"}
FirstStep(op, s) ==
    CASE op = "create" /\ s # NoSession -> "session"
      [] op = "incident" -> "check"
      [] op = "diagnostic" -> "open"
      [] OTHER -> "lock"
OnPlan(op) == op \in {"approve", "reject", "execute", "verify"}

InUse(id) == \E q \in Requests : id \in {request[q].session, request[q].plan, request[q].fresh}
MintedIds(op) ==
    CASE op \in {"create", "reset"} ->
           {s \in Sessions : session[s].status = "absent" /\ ~InUse(s)}
      [] op \in {"diagnostic", "execute"} ->
           {d \in Diagnostics : diagnostic[d].session = NoSession /\ ~InUse(d)}
      [] op = "prepare" -> {p \in Plans : plan[p].session = NoSession /\ ~InUse(p)}
      [] OTHER -> {NoSession}

\* A request names a session, and a plan, its client has been told of.  Which
\* fresh id it would mint makes no difference.
Arrive(r, op, s, p) ==
    /\ request[r].at = "idle"
    /\ s = NoSession => op = "create"
    /\ s # NoSession => /\ session[s].status # "absent"
                        /\ \A q \in Requests : Pending(q) => request[q].fresh # s
    /\ IF OnPlan(op) THEN p \in PlansOf(s) ELSE p = NoPlan
    /\ MintedIds(op) # {}
    /\ clock <= LastArrival[op]
    /\ op = "diagnostic" =>
         /\ Cardinality(RequestedDiagnostics(s)) < MaxDiagnostics
         /\ \A q \in Requests : request[q].op # "diagnostic"
    /\ request' = [request EXCEPT ![r] =
         [Idle EXCEPT !.op = op, !.at = FirstStep(op, s), !.session = s, !.plan = p,
                      !.now = clock, !.fresh = CHOOSE id \in MintedIds(op) : TRUE]]
    /\ UNCHANGED <<storeVars, writer, draft>>

\* The response is received or lost; either way the client may ask again.
Receive(r) == request[r].at = "answered" /\ Advance(r, Idle)

\* The process stops: every request, the lock and the draft are gone.
Crash ==
    /\ \E r \in Requests : Pending(r)
    /\ request' = [r \in Requests |-> Idle]
    /\ writer' = NoRequest
    /\ draft' = NoDraft
    /\ UNCHANGED storeVars

\* The clock moves while no transaction writes and no request is overdue.
Elapse ==
    /\ writer = NoRequest
    /\ \A r \in Requests : Pending(r) => clock - request[r].now < MaxDelay
    /\ Tick
    /\ UNCHANGED <<request, writer, draft>>

-----------------------------------------------------------------------------
\* load_snapshot: one query per table, each on its own pooled connection.
\* The rows of releases never change.

\* Mutated form: the incident is read before the service.
NextRead_IncidentFirst(at) ==
    CASE at = "session" -> "incident" [] at = "incident" -> "service"
      [] at = "service" -> "telemetry" [] OTHER -> "done"
NextRead(at) ==
    CASE at = "session" -> "service" [] at = "service" -> "incident"
      [] at = "incident" -> "telemetry" [] OTHER -> "done"

\* No snapshot: the cookie's session is replaced by a new one, any other
\* handler answers that there is none.
WithoutSession(r) ==
    IF request[r].op = "create"
    THEN Advance(r, [request[r] EXCEPT !.at = "lock", !.now = clock, !.seen = NotSeen])
    ELSE Answer(r, "session_not_found")

CheckActive(r) ==
    LET s == request[r].session
    IN  /\ request[r].at = "check"
        /\ IF session[s].status = "live" /\ SessionExpiry(s) > request[r].now
           THEN Advance(r, [request[r] EXCEPT !.at = "session"])
           ELSE Answer(r, "session_not_found")

\* The session a snapshot is about: the replacement once a reset committed.
\* Mutated form: always the session of the cookie.
Shown_Original(r) == request[r].session
Shown(r) == IF request[r].op = "reset" THEN request[r].fresh ELSE request[r].session

ReadSession(r) ==
    /\ request[r].at = "session"
    /\ IF session[Shown(r)].status = "live"
       THEN Advance(r, [request[r] EXCEPT !.at = NextRead("session"),
                                          !.deadline = SessionExpiry(Shown(r))])
       ELSE WithoutSession(r)

RowSeen(s, table) ==
    LET after == CASE table = "service" -> production[s].health = "healthy"
                   [] table = "incident" -> production[s].incident = "resolved"
                   [] table = "telemetry" -> \E e \in executions : e.session = s
    IN  IF session[s].status = "absent" THEN "missing"
        ELSE IF after THEN "after" ELSE "before"

\* create_or_resume and current_incident read the clock once more at the end.
\* Mutated form: the comparison is turned round.
Lapsed_Swapped(r) == request[r].deadline > clock
Lapsed(r) == request[r].deadline <= clock

FinishSnapshot(r, seen) ==
    IF request[r].op # "reset" /\ Lapsed(r)
    THEN WithoutSession(r)
    ELSE Advance(r, [Answered(r, "ok") EXCEPT !.seen = seen])

ReadRow(r) ==
    LET at == request[r].at
        seen == [request[r].seen EXCEPT ![at] = RowSeen(Shown(r), at)]
    IN  /\ at \in DOMAIN NotSeen
        /\ IF session[Shown(r)].status = "absent" /\ at # "telemetry"
           THEN Answer(r, "row_missing")
           ELSE IF NextRead(at) = "done"
                THEN FinishSnapshot(r, seen)
                ELSE Advance(r, [request[r] EXCEPT !.at = NextRead(at), !.seen = seen])

-----------------------------------------------------------------------------
\* Transactions.  The first statement of every write waits for the writer
\* lock and then reads the newest committed tables.

TakeWriterLock(r) ==
    /\ request[r].at = "lock"
    /\ writer = NoRequest
    /\ request' = [request EXCEPT ![r].at =
                     IF request[r].op = "create" THEN "executions" ELSE "begun"]
    /\ writer' = r
    /\ draft' = Committed
    /\ UNCHANGED storeVars

\* acquire_timeout of the pool, which every query outside a transaction and the
\* start of every transaction wait for, or busy_timeout of a first write.
TimesOut(r) == request[r].at \in {"check", "session", "open", "lock"} \cup DOMAIN NotSeen
TimeOut(r) == TimesOut(r) /\ Answer(r, "busy")

At(r, step) == writer = r /\ request[r].at = step

\* A statement writes the draft and leads to the next one.
Write(r, next, written) ==
    /\ draft' = written
    /\ request' = [request EXCEPT ![r].at = next]
    /\ UNCHANGED <<storeVars, writer>>

Begun(r, op) == At(r, "begun") /\ request[r].op = op
Done(r) == Answered(r, "ok")

LockError(r) ==
    IF LockActive(request[r].session, request[r].now) THEN "ok" ELSE "session_inactive"
PlanError(r) ==
    IF LockError(r) # "ok" THEN LockError(r)
    ELSE IF plan[request[r].plan].session # request[r].session THEN "not_found"
    ELSE "ok"

\* prepare_recovery: the checks between the lock and the insert.
PreparationError(r, target, refs, reason) ==
    LET s == request[r].session
        now == request[r].now
        invalid == PrepareError(PreparedCommand(s, request[r].fresh, target, reason, now),
                                EvidenceList(s, refs))
    IN  FirstFailure(
          << <<LockError(r) # "ok", LockError(r)>>,
             <<production[s].incident # "active", "invalid_transition">>,
             <<\E i \in DOMAIN refs : ~Resolves(s, refs[i], now), "unresolved_evidence">>,
             <<~(ActivePlans(s) \subseteq OverduePlans(s, now)), "active_exists">>,
             <<invalid # "ok", invalid>> >>)

\* The expiry, the plan with its evidence and both audit events, then COMMIT:
\* a refused preparation keeps nothing, the expiry neither.
InsertPlan(r) ==
    LET s == request[r].session
        p == request[r].fresh
        now == request[r].now
        overdue == OverduePlans(s, now)
    IN  /\ Begun(r, "prepare")
        /\ \E target \in Releases, refs \in RefLists, reason \in Reasons :
           \E error \in {PreparationError(r, target, refs, reason)} :
             IF error # "ok" THEN Refuse(r, error)
             ELSE \E spec \in {PreparedSpec(s, p, target, refs, reason, now)} :
                  Write(r, "prepared",
                    [draft EXCEPT !.plan = [Expire(overdue, now) EXCEPT
                                              ![p] = PreparedRow(spec, refs)],
                                  !.audit = @ \cup ExpiredAudit(s, overdue, now)
                                              \cup Audit(s, "recovery_prepared", p, now)])

CommitPlan(r) == At(r, "prepared") /\ Publish(r, Done(r))

Current(r) ==
    /\ Begun(r, "current")
    /\ IF LockError(r) = "ok"
       THEN CurrentRecovery(request[r].session, request[r].now) /\ AfterCommit(r, Done(r))
       ELSE Refuse(r, LockError(r))

\* A late decision or execution commits the expiry it answers with.
\* Mutated form: it returns before the COMMIT.
CommitExpiry_Dropped(r) == Refuse(r, "expired")
CommitExpiry(r) ==
    /\ ExpireInstead(request[r].session, request[r].plan, request[r].now)
    /\ AfterCommit(r, Answered(r, "expired"))

Decide(r) ==
    LET p == request[r].plan
        now == request[r].now
    IN  /\ Begun(r, "approve") \/ Begun(r, "reject")
        /\ \E decision \in {d \in Decisions : d.kind = request[r].op} :
             IF PlanError(r) # "ok" THEN Refuse(r, PlanError(r))
             ELSE IF Overdue(LoadedSpec(p), plan[p].state, now) THEN CommitExpiry(r)
             ELSE IF DecisionError(LoadedSpec(p), plan[p].state, decision, now) = "ok"
                  THEN /\ DecideRecovery(request[r].session, p, decision, now)
                       /\ AfterCommit(r, Done(r))
                  ELSE Refuse(r, DecisionError(LoadedSpec(p), plan[p].state, decision, now))

Verify(r) ==
    /\ Begun(r, "verify")
    /\ IF PlanError(r) # "ok" THEN Refuse(r, PlanError(r))
       ELSE IF Status(request[r].plan) = "executed"
       THEN /\ VerifyRecovery(request[r].session, request[r].plan, request[r].now)
            /\ AfterCommit(r, Done(r))
       ELSE Refuse(r, "not_executed")

-----------------------------------------------------------------------------
\* execute_recovery, statement by statement.

Claim(r) ==
    LET s == request[r].session
        p == request[r].plan
        now == request[r].now
        error == ExecutionError(LoadedSpec(p), plan[p].state, ExecutionFacts(s, p), now)
    IN  /\ Begun(r, "execute")
        /\ IF PlanError(r) # "ok" THEN Refuse(r, PlanError(r))
           ELSE IF LateExecution(p, now) THEN CommitExpiry(r)
           ELSE IF error # "ok" THEN Refuse(r, error)
           ELSE Write(r, "claimed", [draft EXCEPT !.plan[p].state = ClaimedState(@)])

\* UPDATE services ... WHERE current_release = the expected one.
ChangeService(r) ==
    LET s == request[r].session
        p == request[r].plan
    IN  /\ At(r, "claimed")
        /\ IF draft.production[s].release = plan[p].expected
           THEN Write(r, "changed", [draft EXCEPT !.production[s].release = plan[p].target,
                                                  !.production[s].health = "healthy"])
           ELSE Refuse(r, "stale_active_release")

\* UPDATE incidents ... WHERE status = 'active'.
ResolveIncident(r) ==
    LET s == request[r].session
    IN  /\ At(r, "changed")
        /\ IF draft.production[s].incident = "active"
           THEN Write(r, "resolved", [draft EXCEPT !.production[s].incident = "resolved"])
           ELSE Refuse(r, "incident_not_active")

StoreDiagnostic(r) ==
    LET s == request[r].session
    IN  /\ At(r, "resolved")
        /\ Write(r, "diagnosed",
             [draft EXCEPT !.diagnostic[request[r].fresh] =
                AfterStateDiagnostic(s, request[r].plan)])

\* The execution row carries the telemetry point inserted just before it.
StoreExecution(r) ==
    LET p == request[r].plan
    IN  /\ At(r, "diagnosed")
        /\ Write(r, "stored",
             [draft EXCEPT !.executions = @ \cup
                {[session |-> request[r].session, plan |-> p,
                  previous |-> plan[p].expected, current |-> plan[p].target,
                  diagnostic |-> request[r].fresh, executed_at |-> request[r].now]}])

CompletePlan(r) ==
    LET p == request[r].plan
    IN  /\ At(r, "stored")
        /\ IF draft.plan[p].state.status = "executing"
           THEN Write(r, "completed",
                  [draft EXCEPT !.plan[p].state = CompleteExecution(@, request[r].now),
                                !.audit = @ \cup Audit(request[r].session,
                                   "recovery_execution", p, request[r].now)])
           ELSE Refuse(r, "invalid_transition")

CommitExecution(r) == At(r, "completed") /\ Publish(r, Done(r))

-----------------------------------------------------------------------------
\* reset_session.

InsertReplacement(r) ==
    LET fresh == request[r].fresh
    IN  /\ Begun(r, "reset")
        /\ IF LockError(r) # "ok" THEN Refuse(r, LockError(r))
           ELSE Write(r, "inserted",
                  [draft EXCEPT !.session[fresh] = LiveSession(request[r].now),
                                !.production[fresh] = SeededProduction])

InvalidatePlans(r) ==
    /\ At(r, "inserted")
    /\ Write(r, "invalidated",
         [draft EXCEPT !.plan = [p \in Plans |->
            IF draft.plan[p].session = request[r].session
            THEN [draft.plan[p] EXCEPT !.state = InvalidateRecovery(@)]
            ELSE draft.plan[p]]])

RecordLineage(r) ==
    /\ At(r, "invalidated")
    /\ Write(r, "lineage",
         [draft EXCEPT !.resets = @ \cup
            {[original |-> request[r].session, replacement |-> request[r].fresh]}])

RevokeOriginal(r) ==
    /\ At(r, "lineage")
    /\ Write(r, "revoked",
         [draft EXCEPT !.session[request[r].session].status = "revoked",
                       !.audit = @ \cup Audit(request[r].session, "session_reset",
                                              request[r].fresh, request[r].now)])

\* The response is read after the COMMIT, outside the transaction.
CommitReset(r) ==
    At(r, "revoked") /\ Publish(r, [request[r] EXCEPT !.at = "session"])

-----------------------------------------------------------------------------
\* create_session: four deletions, each a statement whose foreign keys are
\* checked when it ends, then the count and the insert.

\* Mutated form: the plans go before the rows that reference them.
NextPruned_PlansFirst(at) ==
    CASE at = "executions" -> "plans" [] at = "plans" -> "contexts"
      [] at = "contexts" -> "sessions" [] OTHER -> "insert"
NextPruned(at) ==
    CASE at = "executions" -> "contexts" [] at = "contexts" -> "plans"
      [] at = "plans" -> "sessions" [] OTHER -> "insert"

\* The draft without the rows of `table' that belong to the sessions `gone'.
\* Deleting a session cascades to all its rows but plans and executions.
Without(table, gone) ==
    CASE table = "executions" ->
           [draft EXCEPT !.executions = {e \in @ : e.session \notin gone}]
      [] table = "contexts" ->
           [draft EXCEPT !.diagnostic = [d \in Diagnostics |->
              IF @[d].session \in gone
              THEN [@[d] EXCEPT !.release = "", !.plan = NoPlan] ELSE @[d]]]
      [] table = "plans" ->
           [draft EXCEPT !.plan = [p \in Plans |->
              IF @[p].session \in gone THEN AbsentPlan ELSE @[p]]]
      [] table = "sessions" ->
           [draft EXCEPT
              !.session = [s \in Sessions |-> IF s \in gone THEN AbsentSession ELSE @[s]],
              !.production = [s \in Sessions |->
                                IF s \in gone THEN SeededProduction ELSE @[s]],
              !.diagnostic = [d \in Diagnostics |->
                IF @[d].session \in gone THEN AbsentDiagnostic ELSE @[d]],
              !.audit = {e \in @ : e.session \notin gone},
              !.resets = {x \in @ : {x.original, x.replacement} \cap gone = {}}]

PruneTable(r) ==
    /\ request[r].op = "create"
    /\ request[r].at \in {"executions", "contexts", "plans", "sessions"}
    /\ Write(r, NextPruned(request[r].at),
             Without(request[r].at, Removable(request[r].now)))

InsertSession(r) ==
    LET fresh == request[r].fresh
        live == {s \in Sessions : draft.session[s].status = "live"}
    IN  /\ At(r, "insert")
        /\ IF Cardinality(live) >= MaxActiveSessions
           THEN Refuse(r, "capacity")
           ELSE Write(r, "seeded",
                  [draft EXCEPT !.session[fresh] = LiveSession(request[r].now),
                                !.production[fresh] = SeededProduction])

CommitCreation(r) == At(r, "seeded") /\ Publish(r, Done(r))

-----------------------------------------------------------------------------
\* run_database_diagnostic reads in a deferred transaction, then writes.

OpenDiagnostic(r) ==
    LET s == request[r].session
    IN  /\ request[r].at = "open"
        /\ IF LockActive(s, request[r].now)
           THEN Advance(r, [request[r] EXCEPT !.at = "upgrade",
                                              !.release = production[s].release])
           ELSE Answer(r, "session_inactive")

\* SQLite upgrades a read to a write only when no other connection writes and
\* the snapshot is still the newest; it does not wait for either.
\* Mutated form: the upgrade succeeds on a snapshot that is not the newest.
CanUpgrade_Stale(r) == writer = NoRequest
CanUpgrade(r) == writer = NoRequest /\ ~request[r].moved

UpgradeDiagnostic(r) ==
    LET s == request[r].session
        row == [DiagnosticRow(s, request[r].release, NoPlan) EXCEPT !.since = clock]
    IN  /\ request[r].at = "upgrade"
        /\ IF CanUpgrade(r)
           THEN /\ request' = [request EXCEPT ![r].at = "checked"]
                /\ writer' = r
                /\ draft' = [Committed EXCEPT !.diagnostic[request[r].fresh] = row]
                /\ UNCHANGED storeVars
           ELSE Answer(r, "busy_snapshot")

CommitDiagnostic(r) == At(r, "checked") /\ Publish(r, Done(r))

-----------------------------------------------------------------------------
TxInit ==
    /\ Init
    /\ request = [r \in Requests |-> Idle]
    /\ writer = NoRequest
    /\ draft = NoDraft

\* The steps a handler takes once it runs.
Step(r) ==
    \/ CheckActive(r) \/ ReadSession(r) \/ ReadRow(r)
    \/ TakeWriterLock(r) \/ TimeOut(r)
    \/ InsertPlan(r) \/ CommitPlan(r) \/ Current(r) \/ Decide(r) \/ Verify(r)
    \/ Claim(r) \/ ChangeService(r) \/ ResolveIncident(r) \/ StoreDiagnostic(r)
    \/ StoreExecution(r) \/ CompletePlan(r) \/ CommitExecution(r)
    \/ InsertReplacement(r) \/ InvalidatePlans(r) \/ RecordLineage(r)
    \/ RevokeOriginal(r) \/ CommitReset(r)
    \/ PruneTable(r) \/ InsertSession(r) \/ CommitCreation(r)
    \/ OpenDiagnostic(r) \/ UpgradeDiagnostic(r) \/ CommitDiagnostic(r)

TxNext ==
    \/ \E r \in Requests, op \in Operations :
         \E s \in Sessions \cup {NoSession}, p \in Plans \cup {NoPlan} : Arrive(r, op, s, p)
    \/ \E r \in Requests : Step(r) \/ Receive(r)
    \/ Elapse
    \/ Crash

TxSpec == TxInit /\ [][TxNext]_txVars

-----------------------------------------------------------------------------
\* Properties.

\* Statement by statement, with crashes, refused upgrades and lost responses,
\* the committed tables take only the steps of RecoveryStore.
StoreImplemented == Spec

RowsReferenced(t) ==
    /\ \A e \in t.executions :
         t.plan[e.plan].session = e.session /\ t.diagnostic[e.diagnostic].session = e.session
    /\ \A d \in Diagnostics :
         t.diagnostic[d].plan # NoPlan
           => t.plan[t.diagnostic[d].plan].session = t.diagnostic[d].session
    /\ \A p \in Plans : t.plan[p].session # NoSession =>
         /\ t.session[t.plan[p].session].status # "absent"
         /\ \A ref \in t.plan[p].evidence \cap Diagnostics :
              t.diagnostic[ref].session = t.plan[p].session
    /\ \A x \in t.resets :
         t.session[x.original].status # "absent" /\ t.session[x.replacement].status # "absent"

\* No statement fails on a foreign key: every deletion and insert leaves rows
\* that reference rows still there, whatever the removed sessions had done.
StatementsKeepReferences == writer # NoRequest => RowsReferenced(draft)

\* A snapshot torn by an execution shows the later tables recovered, never
\* the earlier ones: a page that reports a healthy service beside an incident
\* that is still active would invite another recovery.
SnapshotNeverAhead ==
    \A r \in Requests : request[r].at = "answered" =>
        /\ request[r].seen.service = "after" => request[r].seen.incident \in {"after", "missing"}
        /\ request[r].seen.incident = "after" => request[r].seen.telemetry \in {"after", "missing"}

Gone(s) == session[s].status # "live" \/ SessionExpiry(s) <= clock
\* What an answer claims is committed, and stays so while it is on its way:
\* a crash after the answer loses nothing the client was told.
Claimed(r) ==
    LET s == request[r].session
        p == request[r].plan
        op == request[r].op
        code == IF request[r].answer = "ok" THEN "OK" ELSE ErrorCode(request[r].answer)
        logged(event) == \E e \in audit : e.event = event /\ e.subject = p
    IN  CASE code = "OK" /\ op = "execute" -> Status(p) = "executed"
          [] code = "OK" /\ op = "approve" -> logged("human_approval")
          [] code = "OK" /\ op = "reject" -> Status(p) = "rejected"
          [] code = "OK" /\ op = "reset" -> s # NoSession /\ session[s].status = "revoked"
          [] code = "PLAN_EXPIRED" -> Status(p) = "expired"
          [] code = "PLAN_ALREADY_EXECUTED" -> Status(p) = "executed"
          [] code = "SESSION_NOT_FOUND" -> Gone(s)
          [] OTHER -> TRUE
AnswersAreCommitted ==
    \A r \in Requests : request[r].at = "answered" /\ request[r].session # NoSession =>
        Claimed(r) \/ session[request[r].session].status = "absent"

\* A query misses a row only of a session that was revoked and pruned between
\* two queries; the replacement of a committed reset is there to be read, so only
\* a timeout of those reads can keep the client from learning of it.
MissingMeansGone ==
    \A r \in Requests : request[r].at = "answered" =>
        /\ request[r].answer = "row_missing" => session[request[r].session].status = "absent"
        /\ request[r].op = "reset" => request[r].answer \notin {"row_missing", "session_not_found"}

\* A browser that still has a session gets no second one: a handler creates a
\* session for a cookie only when the cookie's own is revoked, expired or gone.
OneSessionPerCookie ==
    \A r \in Requests :
        /\ request[r].op = "create" /\ request[r].session # NoSession
        /\ request[r].at = "lock" \/ writer = r
        => Gone(request[r].session)
=============================================================================
