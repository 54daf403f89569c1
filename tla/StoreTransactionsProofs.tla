----------------------- MODULE StoreTransactionsProofs -----------------------
(***************************************************************************)
(* Theorems about the transactions of StoreTransactions: taken statement   *)
(* by statement, with crashes, timeouts and lost answers, they commit      *)
(* nothing but the steps of RecoveryStore.                                 *)
(***************************************************************************)
EXTENDS StoreTransactions, RecoveryLifecycleProofs

-----------------------------------------------------------------------------
\* The progress of one request.

Fields ==
    {"op", "at", "session", "plan", "now", "fresh", "deadline", "release", "moved",
     "seen", "answer"}

\* The statements that run under the writer lock.
ExecutionSteps == {"claimed", "changed", "resolved", "diagnosed", "stored", "completed"}
ResetSteps == {"inserted", "invalidated", "lineage", "revoked"}
CreationSteps == {"executions", "contexts", "plans", "sessions", "insert", "seeded"}
LockedSteps ==
    {"begun", "prepared", "checked"} \cup ExecutionSteps \cup ResetSteps \cup CreationSteps
ReadSteps == {"session", "service", "incident", "telemetry"}

\* The operations a request may be of while it awaits the step `at'.
OpsAt(at) ==
    CASE at = "idle" -> {"none"}
      [] at = "answered" -> Operations
      [] at = "lock" -> Operations \ {"incident", "diagnostic"}
      [] at = "begun" -> Operations \ {"incident", "diagnostic", "create"}
      [] at = "check" -> {"incident"}
      [] at \in ReadSteps -> {"create", "incident", "reset"}
      [] at \in CreationSteps -> {"create"}
      [] at \in ResetSteps -> {"reset"}
      [] at \in ExecutionSteps -> {"execute"}
      [] at = "prepared" -> {"prepare"}
      [] at \in {"open", "upgrade", "checked"} -> {"diagnostic"}
      [] OTHER -> {}

Formed(r) ==
    /\ DOMAIN request[r] = Fields
    /\ request[r].op \in OpsAt(request[r].at)
    /\ Pending(r) =>
         /\ request[r].now \in Nat
         /\ request[r].now <= clock /\ clock - request[r].now <= MaxDelay
         /\ request[r].op \in {"create", "incident"} \/ request[r].session \in Sessions
         /\ OnPlan(request[r].op) => request[r].plan \in Plans

\* The id a request may mint is free until its transaction commits.
MintsSession(r) ==
    /\ Pending(r) /\ request[r].op \in {"create", "reset"}
    /\ request[r].op = "reset" => request[r].at \notin ReadSteps
MintsDiagnostic(r) == Pending(r) /\ request[r].op \in {"diagnostic", "execute"}
MintsPlan(r) == Pending(r) /\ request[r].op = "prepare"
FreshIsFree(r) ==
    LET id == request[r].fresh
    IN  /\ MintsSession(r) => id \in Sessions /\ session[id].status = "absent"
        /\ MintsDiagnostic(r) => id \in Diagnostics /\ diagnostic[id].session = NoSession
        /\ MintsPlan(r) => id \in Plans /\ plan[id].session = NoSession
FreshIsDistinct(q, r) ==
    \/ MintsSession(q) /\ MintsSession(r)
    \/ MintsDiagnostic(q) /\ MintsDiagnostic(r)
    \/ MintsPlan(q) /\ MintsPlan(r)
    => request[q].fresh # request[r].fresh

\* The plan a request names was committed before the request read the clock,
\* and no other request is about to mint its id again.
PlanIsKnown(r) ==
    Pending(r) /\ OnPlan(request[r].op) => plan[request[r].plan].since <= request[r].now
PlanIsTaken(q, r) ==
    Pending(r) /\ OnPlan(request[r].op) /\ MintsPlan(q) => request[q].fresh # request[r].plan

\* A snapshot that is still the newest tells the truth.
SnapshotIsCurrent(r) ==
    request[r].at = "upgrade" /\ ~request[r].moved =>
        /\ LockActive(request[r].session, request[r].now)
        /\ request[r].release = production[request[r].session].release

\* One request asks for a diagnostic at a time, and there is room for it.
RoomForDiagnostic(r) ==
    MintsDiagnostic(r) /\ request[r].op = "diagnostic" =>
        Cardinality(RequestedDiagnostics(request[r].session)) < MaxDiagnostics
OneDiagnosticRequest(q, r) == ~(request[q].op = "diagnostic" /\ request[r].op = "diagnostic")

-----------------------------------------------------------------------------
\* What the connection that holds the lock has written so far: a function of the
\* committed tables, of what the request carries and of the step `at' it awaits.

PrepareGuards(s, target, refs, reason, p, now) ==
    /\ LockActive(s, now)
    /\ production[s].incident = "active"
    /\ ActivePlans(s) \subseteq OverduePlans(s, now)
    /\ \A i \in DOMAIN refs : Resolves(s, refs[i], now)
    /\ PrepareError(PreparedCommand(s, p, target, reason, now), EvidenceList(s, refs)) = "ok"
PreparationTables(s, target, refs, reason, p, now) ==
    [Committed EXCEPT
       !.plan = [Expire(OverduePlans(s, now), now) EXCEPT
                   ![p] = PreparedRow(PreparedSpec(s, p, target, refs, reason, now), refs)],
       !.audit = audit \cup ExpiredAudit(s, OverduePlans(s, now), now)
                       \cup Audit(s, "recovery_prepared", p, now)]

ExecuteGuards(s, p, now) ==
    /\ Locked(s, p, now)
    /\ ~LateExecution(p, now)
    /\ ExecutionError(LoadedSpec(p), plan[p].state, ExecutionFacts(s, p), now) = "ok"
ExecutionTables(s, p, d, now, at) ==
    [session |-> session,
     production |->
       IF at = "claimed" THEN production
       ELSE IF at = "changed"
       THEN [production EXCEPT ![s].release = plan[p].target, ![s].health = "healthy"]
       ELSE [production EXCEPT ![s] = [release |-> plan[p].target, health |-> "healthy",
                                       incident |-> "resolved"]],
     plan |->
       IF at = "completed"
       THEN [plan EXCEPT ![p].state = CompleteExecution(ClaimedState(plan[p].state), now)]
       ELSE [plan EXCEPT ![p].state = ClaimedState(plan[p].state)],
     diagnostic |->
       IF at \in {"claimed", "changed", "resolved"} THEN diagnostic
       ELSE [diagnostic EXCEPT ![d] = AfterStateDiagnostic(s, p)],
     executions |->
       IF at \in {"claimed", "changed", "resolved", "diagnosed"} THEN executions
       ELSE executions \cup
              {[session |-> s, plan |-> p, previous |-> plan[p].expected,
                current |-> plan[p].target, diagnostic |-> d, executed_at |-> now]},
     audit |->
       IF at = "completed" THEN audit \cup Audit(s, "recovery_execution", p, now) ELSE audit,
     resets |-> resets]

ResetTables(s, fresh, now, at) ==
    [session |->
       IF at = "revoked"
       THEN [session EXCEPT ![fresh] = LiveSession(now), ![s].status = "revoked"]
       ELSE [session EXCEPT ![fresh] = LiveSession(now)],
     production |-> [production EXCEPT ![fresh] = SeededProduction],
     plan |->
       IF at = "inserted" THEN plan
       ELSE [p \in Plans |-> IF plan[p].session = s
                             THEN [plan[p] EXCEPT !.state = InvalidateRecovery(@)]
                             ELSE plan[p]],
     diagnostic |-> diagnostic,
     executions |-> executions,
     audit |->
       IF at = "revoked" THEN audit \cup Audit(s, "session_reset", fresh, now) ELSE audit,
     resets |->
       IF at \in {"inserted", "invalidated"} THEN resets
       ELSE resets \cup {[original |-> s, replacement |-> fresh]}]

\* The tables after the deletions of create_session up to the step `at'.
CreationTables(fresh, now, at) ==
    LET gone == Removable(now)
        pruned == at \in {"insert", "seeded"}
        Born(s) == at = "seeded" /\ s = fresh
    IN  [session |->
           [s \in Sessions |-> IF Born(s) THEN LiveSession(now)
                               ELSE IF pruned /\ s \in gone THEN AbsentSession ELSE session[s]],
         production |->
           [s \in Sessions |-> IF Born(s) \/ (pruned /\ s \in gone)
                               THEN SeededProduction ELSE production[s]],
         plan |->
           [p \in Plans |-> IF at \notin {"executions", "contexts", "plans"}
                               /\ plan[p].session \in gone
                            THEN AbsentPlan ELSE plan[p]],
         diagnostic |->
           [d \in Diagnostics |->
              IF diagnostic[d].session \notin gone \/ at \in {"executions", "contexts"}
              THEN diagnostic[d]
              ELSE IF pruned THEN AbsentDiagnostic
              ELSE [diagnostic[d] EXCEPT !.release = "", !.plan = NoPlan]],
         executions |-> IF at = "executions" THEN executions
                        ELSE {e \in executions : e.session \notin gone},
         audit |-> IF pruned THEN {e \in audit : e.session \notin gone} ELSE audit,
         resets |->
           IF pruned THEN {x \in resets : x.original \notin gone /\ x.replacement \notin gone}
           ELSE resets]

DiagnosticTables(s, d) ==
    [Committed EXCEPT !.diagnostic =
       [diagnostic EXCEPT ![d] = DiagnosticRow(s, production[s].release, NoPlan)]]

Tables ==
    {"session", "production", "plan", "diagnostic", "executions", "audit", "resets"}

\* `t' has the tables of `u'.
Matches(t, u) ==
    /\ DOMAIN t = Tables
    /\ t.session = u.session /\ t.production = u.production
    /\ t.plan = u.plan /\ t.diagnostic = u.diagnostic
    /\ t.executions = u.executions /\ t.audit = u.audit /\ t.resets = u.resets

\* What the draft holds when `at' is the step the writer awaits.
DraftIs(at, s, p, fresh, now) ==
    /\ at = "begun" => Matches(draft, Committed)
    /\ at = "prepared" =>
         \E target \in Releases, refs \in RefLists, reason \in Reasons :
           /\ PrepareGuards(s, target, refs, reason, fresh, now)
           /\ Matches(draft, PreparationTables(s, target, refs, reason, fresh, now))
    /\ at \in ExecutionSteps =>
         ExecuteGuards(s, p, now) /\ Matches(draft, ExecutionTables(s, p, fresh, now, at))
    /\ at \in ResetSteps =>
         LockActive(s, now) /\ Matches(draft, ResetTables(s, fresh, now, at))
    /\ at \in CreationSteps =>
         /\ Matches(draft, CreationTables(fresh, now, at))
         /\ at = "seeded" => HasCapacity(now)
    /\ at = "checked" => LockActive(s, now) /\ Matches(draft, DiagnosticTables(s, fresh))
DraftMatches(r) ==
    DraftIs(request[r].at, request[r].session, request[r].plan, request[r].fresh,
            request[r].now)

\* Only the writer is between its first statement and its COMMIT.
WriterIsLocked ==
    /\ writer \in Requests \cup {NoRequest}
    /\ \A r \in Requests : request[r].at \in LockedSteps <=> writer = r
    /\ \A r \in Requests : writer = r => DraftMatches(r)

\* The invariants of the tables, which every step keeps as a step of RecoveryStore.
RequestedAreFinite == \A s \in Sessions : IsFiniteSet(RequestedDiagnostics(s))
PlansAreCommitted == \A p \in Plans : plan[p].since <= clock
TablesInv == LifecycleInv /\ CeilingInv /\ RequestedAreFinite /\ PlansAreCommitted

RequestInv(r) ==
    Formed(r) /\ FreshIsFree(r) /\ PlanIsKnown(r) /\ SnapshotIsCurrent(r) /\ RoomForDiagnostic(r)

PairInv(q, r) ==
    FreshIsDistinct(q, r) /\ PlanIsTaken(q, r) /\ OneDiagnosticRequest(q, r)

TxInv ==
    /\ TablesInv
    /\ DOMAIN request = Requests
    /\ WriterIsLocked
    /\ \A r \in Requests : RequestInv(r)
    /\ \A q, r \in Requests : q # r => PairInv(q, r)

-----------------------------------------------------------------------------
\* What is computed from the tables stays the same while they do.

\* While the tables stay, so do the sessions a statement asks about.
LEMMA SameSessions ==
    ASSUME UNCHANGED storeVars, NEW s, NEW now
    PROVE  /\ LockActive(s, now)' = LockActive(s, now)
           /\ ActivePlans(s)' = ActivePlans(s)
           /\ OverduePlans(s, now)' = OverduePlans(s, now)
           /\ RequestedDiagnostics(s)' = RequestedDiagnostics(s)
           /\ Removable(now)' = Removable(now)
           /\ Remaining(now)' = Remaining(now)
           /\ HasCapacity(now)' = HasCapacity(now)
           /\ LiveSession(now)' = LiveSession(now)
           /\ Committed' = Committed
<1>1. LockActive(s, now)' = LockActive(s, now)
  BY DEF LockActive, SessionExpiry, storeVars, tables
<1>2. ActivePlans(s)' = ActivePlans(s) /\ OverduePlans(s, now)' = OverduePlans(s, now)
  BY DEF ActivePlans, OverduePlans, PlansOf, PlanExpiry, storeVars, tables
<1>3. RequestedDiagnostics(s)' = RequestedDiagnostics(s)
  BY DEF RequestedDiagnostics, storeVars, tables
<1>4. Removable(now)' = Removable(now)
  BY DEF Removable, SessionExpiry, storeVars, tables
<1>5. Remaining(now)' = Remaining(now)
  BY <1>4 DEF Remaining, storeVars, tables
<1>6. HasCapacity(now)' = HasCapacity(now)
  BY <1>5 DEF HasCapacity
<1>7. LiveSession(now)' = LiveSession(now) /\ Committed' = Committed
  BY DEF LiveSession, Committed, storeVars, tables
<1> QED BY <1>1, <1>2, <1>3, <1>4, <1>5, <1>6, <1>7

\* While the tables stay, so does the event a statement would record.
LEMMA SameAudit ==
    ASSUME UNCHANGED storeVars, NEW s, NEW event, NEW subject, NEW at
    PROVE  Audit(s, event, subject, at)' = Audit(s, event, subject, at)
<1>1. Recorded(s, event, subject)' = Recorded(s, event, subject)
  BY DEF Recorded, storeVars, tables
<1> QED BY <1>1 DEF Audit, Event

\* While the tables stay, so does what a load of a plan computes.
LEMMA SamePlan ==
    ASSUME UNCHANGED storeVars, NEW s, NEW p, NEW now
    PROVE  /\ LoadedCommand(p)' = LoadedCommand(p)
           /\ LoadedSpec(p)' = LoadedSpec(p)
           /\ Loads(p)' = Loads(p)
           /\ LateExecution(p, now)' = LateExecution(p, now)
           /\ ExecutionFacts(s, p)' = ExecutionFacts(s, p)
           /\ AfterStateDiagnostic(s, p)' = AfterStateDiagnostic(s, p)
<1>1. LoadedCommand(p)' = LoadedCommand(p)
  BY DEF LoadedCommand, storeVars, tables
<1>2. ASSUME NEW ref, NEW release
      PROVE  EvidenceRecord(plan[p].session, ref, release)' =
             EvidenceRecord(plan[p].session, ref, release)
  BY DEF EvidenceRecord, storeVars, tables
<1>3. LoadedEvidence(p)' = LoadedEvidence(p)
  BY <1>2 DEF LoadedEvidence, storeVars, tables
<1>4. LoadedSpec(p)' = LoadedSpec(p)
  BY <1>1, <1>3 DEF LoadedSpec
<1>5. Loads(p)' = Loads(p)
  BY <1>1, <1>3 DEF Loads
<1>6. LateExecution(p, now)' = LateExecution(p, now)
  BY <1>4 DEF LateExecution, storeVars, tables
<1>7. ExecutionFacts(s, p)' = ExecutionFacts(s, p)
  BY DEF ExecutionFacts, storeVars, tables
<1>8. AfterStateDiagnostic(s, p)' = AfterStateDiagnostic(s, p)
  BY DEF AfterStateDiagnostic, DiagnosticRow, storeVars, tables
<1> QED BY <1>1, <1>4, <1>5, <1>6, <1>7, <1>8

\* The checks of an execution and its draft depend on the tables alone.
LEMMA SameExecution ==
    ASSUME UNCHANGED storeVars, NEW s, NEW p, NEW d, NEW now,
           NEW at
    PROVE  /\ ExecuteGuards(s, p, now)' = ExecuteGuards(s, p, now)
           /\ ExecutionTables(s, p, d, now, at)' = ExecutionTables(s, p, d, now, at)
<1>1. Locked(s, p, now)' = Locked(s, p, now)
  BY SameSessions, SamePlan DEF Locked, storeVars, tables
<1>2. ExecuteGuards(s, p, now)' = ExecuteGuards(s, p, now)
  BY <1>1, SamePlan DEF ExecuteGuards, storeVars, tables
<1>3. /\ AfterStateDiagnostic(s, p)' = AfterStateDiagnostic(s, p)
      /\ Audit(s, "recovery_execution", p, now)' = Audit(s, "recovery_execution", p, now)
  BY SamePlan, SameAudit
<1>4. ExecutionTables(s, p, d, now, at)' = ExecutionTables(s, p, d, now, at)
  BY <1>3 DEF ExecutionTables, storeVars, tables
<1> QED BY <1>2, <1>4

\* The draft of a reset depends on the tables alone.
LEMMA SameReset ==
    ASSUME UNCHANGED storeVars, NEW s, NEW fresh, NEW now, NEW at
    PROVE  ResetTables(s, fresh, now, at)' = ResetTables(s, fresh, now, at)
<1>1. /\ LiveSession(now)' = LiveSession(now)
      /\ Audit(s, "session_reset", fresh, now)' = Audit(s, "session_reset", fresh, now)
  BY SameSessions, SameAudit
<1> QED BY <1>1 DEF ResetTables, storeVars, tables

\* The draft of a creation depends on the tables alone.
LEMMA SameCreation ==
    ASSUME UNCHANGED storeVars, NEW fresh, NEW now, NEW at
    PROVE  CreationTables(fresh, now, at)' = CreationTables(fresh, now, at)
<1>1. Removable(now)' = Removable(now) /\ LiveSession(now)' = LiveSession(now)
  BY SameSessions
<1> QED BY <1>1 DEF CreationTables, storeVars, tables

\* The checks of a preparation and its draft depend on the tables alone.
LEMMA SamePreparation ==
    ASSUME UNCHANGED storeVars, NEW s, NEW target, NEW refs, NEW reason,
           NEW p, NEW now
    PROVE  /\ PrepareGuards(s, target, refs, reason, p, now)' =
              PrepareGuards(s, target, refs, reason, p, now)
           /\ PreparationTables(s, target, refs, reason, p, now)' =
              PreparationTables(s, target, refs, reason, p, now)
<1>1. PreparedCommand(s, p, target, reason, now)' = PreparedCommand(s, p, target, reason, now)
  BY DEF PreparedCommand, storeVars, tables
<1>2. ASSUME NEW ref, NEW release
      PROVE  /\ EvidenceRecord(s, ref, release)' = EvidenceRecord(s, ref, release)
             /\ Resolves(s, ref, now)' = Resolves(s, ref, now)
  BY DEF EvidenceRecord, Resolves, storeVars, tables
<1>3. EvidenceList(s, refs)' = EvidenceList(s, refs)
  BY <1>2 DEF EvidenceList, storeVars, tables
<1>4. PreparedSpec(s, p, target, refs, reason, now)' =
      PreparedSpec(s, p, target, refs, reason, now)
  BY <1>1, <1>3 DEF PreparedSpec
<1>5. \A spec : PreparedRow(spec, refs)' = PreparedRow(spec, refs)
  BY DEF PreparedRow, storeVars, tables
<1>6. PrepareGuards(s, target, refs, reason, p, now)' =
      PrepareGuards(s, target, refs, reason, p, now)
  BY <1>1, <1>2, <1>3, SameSessions DEF PrepareGuards, storeVars, tables
<1>7. \A overdue : Expire(overdue, now)' = Expire(overdue, now)
  BY SamePlan DEF Expire, storeVars, tables
<1>8. \A overdue : ExpiredAudit(s, overdue, now)' = ExpiredAudit(s, overdue, now)
  BY SameAudit DEF ExpiredAudit
<1>9. PreparationTables(s, target, refs, reason, p, now)' =
      PreparationTables(s, target, refs, reason, p, now)
  BY <1>4, <1>5, <1>7, <1>8, SameSessions, SameAudit DEF PreparationTables, storeVars, tables
<1> QED BY <1>6, <1>9

\* While the tables and the draft stay, the draft still matches its step.
LEMMA SameDraft ==
    ASSUME UNCHANGED storeVars, UNCHANGED draft,
           NEW at, NEW s, NEW p, NEW fresh, NEW now
    PROVE  DraftIs(at, s, p, fresh, now)' <=> DraftIs(at, s, p, fresh, now)
<1>1. DiagnosticTables(s, fresh)' = DiagnosticTables(s, fresh)
  BY SameSessions DEF DiagnosticTables, DiagnosticRow, storeVars, tables
<1>2. \A target, refs, reason :
        /\ PrepareGuards(s, target, refs, reason, fresh, now)' =
           PrepareGuards(s, target, refs, reason, fresh, now)
        /\ PreparationTables(s, target, refs, reason, fresh, now)' =
           PreparationTables(s, target, refs, reason, fresh, now)
  BY SamePreparation
<1>3. /\ ExecuteGuards(s, p, now)' = ExecuteGuards(s, p, now)
      /\ ExecutionTables(s, p, fresh, now, at)' = ExecutionTables(s, p, fresh, now, at)
      /\ ResetTables(s, fresh, now, at)' = ResetTables(s, fresh, now, at)
      /\ CreationTables(fresh, now, at)' = CreationTables(fresh, now, at)
  BY SameExecution, SameReset, SameCreation
<1>4. /\ LockActive(s, now)' = LockActive(s, now)
      /\ HasCapacity(now)' = HasCapacity(now)
      /\ Committed' = Committed
  BY SameSessions
<1>5. \A t : Matches(draft, t)' <=> Matches(draft, t)
  BY DEF Matches
<1> QED BY <1>1, <1>2, <1>3, <1>4, <1>5 DEF DraftIs

-----------------------------------------------------------------------------
\* What a step of one request does to the progress of the others.

Keeps(r) ==
    /\ DOMAIN request'[r] = Fields
    /\ request'[r].op = request[r].op
    /\ request'[r].session = request[r].session
    /\ request'[r].plan = request[r].plan
    /\ request'[r].fresh = request[r].fresh

\* The request awaits what it awaited; its snapshot may be no longer the newest.
Waits(q) ==
    /\ Keeps(q)
    /\ request'[q].at = request[q].at
    /\ request'[q].now = request[q].now
    /\ request'[q].release = request[q].release
    /\ request[q].moved => request'[q].moved
OthersWait(r) ==
    DOMAIN request' = Requests /\ \A q \in Requests \ {r} : Waits(q)

\* The request goes on, or ends.
Ended(r) ==
    /\ DOMAIN request'[r] = Fields
    /\ request'[r].at \in {"idle", "answered"}
    /\ request'[r].op \in OpsAt(request'[r].at)
    /\ request'[r].op \in {request[r].op, "none"}
GoesOn(r) ==
    /\ Keeps(r) /\ Pending(r)
    /\ request[r].at \in ReadSteps => request'[r].at \in ReadSteps \cup {"lock"}
    /\ request'[r].op \in OpsAt(request'[r].at)
    /\ request'[r].now = request[r].now \/ request'[r].now = clock
    /\ request[r].op = "reset" /\ request[r].at \in ReadSteps => request'[r].at \in ReadSteps
Continues(r) == Ended(r) \/ GoesOn(r)

\* A request that waits is one that continues.
LEMMA WaitsContinues ==
    ASSUME NEW q \in Requests, Formed(q), Waits(q)
    PROVE  Ended(q) \/ GoesOn(q)
<1>1. CASE Pending(q)
  BY <1>1 DEF Formed, Waits, Keeps, GoesOn
<1>2. CASE ~Pending(q)
  BY <1>2 DEF Formed, Waits, Keeps, Ended, Pending
<1> QED BY <1>1, <1>2

\* A request mints nothing it did not mint before.
LEMMA ContinuesMints ==
    ASSUME NEW r \in Requests, Formed(r), Continues(r)
    PROVE  /\ MintsSession(r)' => MintsSession(r)
           /\ MintsDiagnostic(r)' => MintsDiagnostic(r)
           /\ MintsPlan(r)' => MintsPlan(r)
           /\ Pending(r)' => /\ Pending(r)
                             /\ request'[r].op = request[r].op
                             /\ request'[r].fresh = request[r].fresh
                             /\ request'[r].plan = request[r].plan
           /\ request'[r].op \in {request[r].op, "none"}
<1>1. CASE Ended(r)
  BY <1>1 DEF Ended, Pending, MintsSession, MintsDiagnostic, MintsPlan
<1>2. CASE GoesOn(r)
  <2>1. MintsSession(r)' => MintsSession(r)
    BY <1>2 DEF GoesOn, Keeps, MintsSession, ReadSteps
  <2>2. MintsDiagnostic(r)' => MintsDiagnostic(r)
    BY <1>2 DEF GoesOn, Keeps, MintsDiagnostic
  <2>3. MintsPlan(r)' => MintsPlan(r)
    BY <1>2 DEF GoesOn, Keeps, MintsPlan
  <2> QED BY <1>2, <2>1, <2>2, <2>3 DEF GoesOn, Keeps
<1> QED BY <1>1, <1>2 DEF Continues

\* What relates two requests is kept by requests that continue.
LEMMA PairStays ==
    ASSUME NEW q \in Requests, NEW r \in Requests, Formed(q), Formed(r),
           Continues(q), Continues(r), PairInv(q, r)
    PROVE  PairInv(q, r)'
<1>1. FreshIsDistinct(q, r)'
  BY ContinuesMints DEF PairInv, FreshIsDistinct, MintsSession, MintsDiagnostic, MintsPlan
<1>2. PlanIsTaken(q, r)'
  BY ContinuesMints DEF PairInv, PlanIsTaken, MintsPlan
<1>3. OneDiagnosticRequest(q, r)'
  BY ContinuesMints DEF PairInv, OneDiagnosticRequest
<1> QED BY <1>1, <1>2, <1>3 DEF PairInv

\* A step of one request disturbs no pair of requests.
LEMMA PairsStay ==
    ASSUME TxInv, NEW r \in Requests, OthersWait(r), Continues(r)
    PROVE  (\A p, q \in Requests : p # q => PairInv(p, q))'
<1>1. \A q \in Requests : Formed(q)
  BY DEF TxInv, RequestInv
<1>2. \A q \in Requests : Continues(q)
  BY <1>1, WaitsContinues DEF OthersWait, Continues
<1>3. \A p, q \in Requests : p # q => PairInv(p, q)
  BY DEF TxInv
<1>4. \A p, q \in Requests : p # q => PairInv(p, q)'
  BY <1>1, <1>2, <1>3, PairStays
<1> QED BY <1>4

-----------------------------------------------------------------------------
\* The writer lock.

\* COMMIT and rollback free the lock.
LEMMA LockReleased ==
    ASSUME TxInv, NEW r \in Requests, writer = r, writer' = NoRequest, OthersWait(r),
           request'[r].at \notin LockedSteps
    PROVE  WriterIsLocked'
<1>1. \A q \in Requests : request'[q].at \notin LockedSteps
  BY DEF TxInv, WriterIsLocked, OthersWait, Waits
<1>2. \A q \in Requests : q # NoRequest
  BY TransactionAssumption
<1> QED BY <1>1, <1>2 DEF WriterIsLocked

\* The connection that holds the lock, or takes it, writes its draft.
LEMMA LockHeld ==
    ASSUME TxInv, NEW r \in Requests, writer \in {r, NoRequest}, writer' = r, OthersWait(r),
           request'[r].at \in LockedSteps, DraftMatches(r)'
    PROVE  WriterIsLocked'
<1>1. \A q \in Requests : q # NoRequest
  BY TransactionAssumption
<1>2. \A q \in Requests \ {r} : request'[q].at \notin LockedSteps
  BY <1>1 DEF TxInv, WriterIsLocked, OthersWait, Waits
<1> QED BY <1>1, <1>2 DEF WriterIsLocked

\* A step without the lock leaves the lock and the draft to the writer.
LEMMA LockElsewhere ==
    ASSUME TxInv, NEW r \in Requests, writer # r, UNCHANGED <<storeVars, writer, draft>>,
           OthersWait(r), request'[r].at \notin LockedSteps
    PROVE  WriterIsLocked'
<1>1. ASSUME NEW q \in Requests, writer' = q PROVE DraftMatches(q)'
  <2>1. q # r /\ writer = q
    BY <1>1
  <2>2. Waits(q)
    BY <2>1 DEF OthersWait
  <2>3. DraftIs(request[q].at, request[q].session, request[q].plan, request[q].fresh,
                request[q].now)
    BY <2>1 DEF TxInv, WriterIsLocked, DraftMatches
  <2> DEFINE at == request[q].at
             s == request[q].session
             p == request[q].plan
             fresh == request[q].fresh
             now == request[q].now
  <2>4. PICK a, b, c, d, e : a = at /\ b = s /\ c = p /\ d = fresh /\ e = now
    OBVIOUS
  <2>5. DraftIs(a, b, c, d, e)
    BY <2>3, <2>4
  <2>6. DraftIs(a, b, c, d, e)'
    BY <2>5, SameDraft
  <2>7. /\ request'[q].at = a /\ request'[q].session = b /\ request'[q].plan = c
        /\ request'[q].fresh = d /\ request'[q].now = e
    BY <2>2, <2>4 DEF Waits, Keeps
  <2> QED BY <2>6, <2>7 DEF DraftMatches
<1>2. \A q \in Requests : request'[q].at \in LockedSteps <=> writer' = q
  BY DEF TxInv, WriterIsLocked, OthersWait, Waits
<1> QED BY <1>1, <1>2 DEF TxInv, WriterIsLocked

-----------------------------------------------------------------------------
\* The tables.

\* A requested diagnostic is added one at a time.
LEMMA RequestedStep ==
    ASSUME TypeOK, RequestedAreFinite, [Next]_vars
    PROVE  RequestedAreFinite'
<1> SUFFICES ASSUME NEW s \in Sessions PROVE IsFiniteSet(RequestedDiagnostics(s)')
  BY DEF RequestedAreFinite
<1>1. IsFiniteSet(RequestedDiagnostics(s))
  BY DEF RequestedAreFinite
<1>2. PICK added : RequestedDiagnostics(s)' \subseteq RequestedDiagnostics(s) \cup {added}
  <2>1. ASSUME NEW t \in Sessions, NEW d \in Diagnostics, NEW now \in Instants,
               \/ RunDatabaseDiagnostic(t, d, now)
               \/ \E p \in Plans : ExecuteRecovery(t, p, d, now)
        PROVE  RequestedDiagnostics(s)' \subseteq RequestedDiagnostics(s) \cup {d}
    BY <2>1 DEF RunDatabaseDiagnostic, ExecuteRecovery, RequestedDiagnostics, TypeOK
  <2>2. ASSUME NEW t \in Sessions, NEW now \in Instants, CreateSession(t, now)
        PROVE  RequestedDiagnostics(s)' \subseteq RequestedDiagnostics(s)
    <3>1. NoSession # s /\ AbsentDiagnostic.session = NoSession
      BY StoreAssumption DEF AbsentDiagnostic
    <3>2. \A d \in Diagnostics : diagnostic'[d] = diagnostic[d] \/ diagnostic'[d] = AbsentDiagnostic
      BY <2>2 DEF CreateSession, KeptDiagnostics
    <3>3. RequestedDiagnostics(s) = {d \in Diagnostics : diagnostic[d].session = s /\ diagnostic[d].plan = NoPlan}
      BY DEF RequestedDiagnostics
    <3>4. RequestedDiagnostics(s)' = {d \in Diagnostics : diagnostic'[d].session = s /\ diagnostic'[d].plan = NoPlan}
      BY DEF RequestedDiagnostics
    <3> QED BY <3>1, <3>2, <3>3, <3>4
  <2>3. CASE UNCHANGED diagnostic
    BY <2>3 DEF RequestedDiagnostics
  <2>4. ASSUME NEW t \in Sessions, NEW now \in Instants,
               \/ CurrentRecovery(t, now)
               \/ \E x \in Sessions : ResetSession(t, x, now)
               \/ \E p \in Plans, target \in Releases, refs \in RefLists, reason \in Reasons :
                    PrepareRecovery(t, p, target, refs, reason, now)
               \/ \E p \in Plans : \/ DecideLate(t, p, now) \/ ExecuteLate(t, p, now)
                                   \/ VerifyRecovery(t, p, now)
                                   \/ \E decision \in Decisions :
                                        DecideRecovery(t, p, decision, now)
        PROVE  UNCHANGED diagnostic
    BY <2>4 DEF CurrentRecovery, PrepareRecovery, DecideLate, ExecuteLate, ExpireInstead,
                VerifyRecovery, DecideRecovery, ResetSession, recoveryVars
  <2>5. ASSUME Tick \/ UNCHANGED vars PROVE UNCHANGED diagnostic
    BY <2>5 DEF Tick, vars, recoveryVars
  <2>6. \/ UNCHANGED diagnostic
        \/ \E t \in Sessions, now \in Instants : CreateSession(t, now)
        \/ \E t \in Sessions, d \in Diagnostics, now \in Instants :
             \/ RunDatabaseDiagnostic(t, d, now)
             \/ \E p \in Plans : ExecuteRecovery(t, p, d, now)
    BY <2>4, <2>5, Zenon DEF Next, Operation
  <2> QED BY <2>1, <2>2, <2>3, <2>6
<1>3. IsFiniteSet(RequestedDiagnostics(s) \cup {added})
  BY <1>1, FS_AddElement
<1> QED BY <1>2, <1>3, FS_Subset

\* A plan row keeps the instant it was committed at.
LEMMA CommittedStep ==
    ASSUME LifecycleInv, PlansAreCommitted, [Next]_vars
    PROVE  PlansAreCommitted'
<1>1. TypeOK /\ OneActivePlan /\ StatesKeepTheirColumns
  BY DEF LifecycleInv, RecoveryInv
<1>2. clock \in Nat /\ clock' \in {clock, clock + 1}
  <2>1. clock \in Nat
    BY <1>1 DEF TypeOK
  <2>2. CASE Tick \/ UNCHANGED vars
    BY <2>1, <2>2 DEF Tick, vars
  <2>3. ASSUME NEW s \in Sessions, NEW now \in Instants,
               \/ CurrentRecovery(s, now)
               \/ CreateSession(s, now)
               \/ \E x \in Sessions : ResetSession(s, x, now)
               \/ \E d \in Diagnostics :
                    \/ RunDatabaseDiagnostic(s, d, now)
                    \/ \E p \in Plans : ExecuteRecovery(s, p, d, now)
               \/ \E p \in Plans, target \in Releases, refs \in RefLists, reason \in Reasons :
                    PrepareRecovery(s, p, target, refs, reason, now)
               \/ \E p \in Plans : \/ DecideLate(s, p, now) \/ ExecuteLate(s, p, now)
                                   \/ VerifyRecovery(s, p, now)
                                   \/ \E decision \in Decisions :
                                        DecideRecovery(s, p, decision, now)
        PROVE  clock' = clock
    BY <2>3 DEF CurrentRecovery, CreateSession, ResetSession, RunDatabaseDiagnostic,
                ExecuteRecovery, PrepareRecovery, DecideLate, ExecuteLate, ExpireInstead,
                VerifyRecovery, DecideRecovery
  <2> QED BY <2>1, <2>2, <2>3, Zenon DEF Next, Operation
<1> SUFFICES ASSUME NEW p \in Plans PROVE plan'[p].since <= clock'
  BY DEF PlansAreCommitted
<1>3. plan[p].since \in Nat /\ plan[p].since <= clock
  BY <1>1 DEF PlansAreCommitted, TypeOK, PlanType
<1>4. PlanMoves(p)
  BY <1>1, StepsMovePlans
<1>5. CASE Removed(p)
  <2>1. plan'[p] = AbsentPlan
    BY <1>5 DEF Removed
  <2>2. AbsentPlan.since = 0
    BY DEF AbsentPlan
  <2> QED BY <1>2, <2>1, <2>2
<1>6. CASE Added(p)
  <2>1. plan'[p].since = clock
    BY <1>6, AddedRow DEF Added
  <2> QED BY <1>2, <2>1
<1>7. CASE ~Removed(p) /\ ~Added(p)
  <2>1. plan'[p].since = plan[p].since
    BY <1>1, <1>4, <1>7, StayingRows DEF SameFacts
  <2> QED BY <1>2, <1>3, <2>1
<1> QED BY <1>5, <1>6, <1>7

\* Every step of RecoveryStore keeps the invariants of the tables.
LEMMA TablesStep == TablesInv /\ [Next]_vars => TablesInv'
<1>1. TablesInv => TypeOK
  BY DEF TablesInv, LifecycleInv, RecoveryInv
<1> QED BY <1>1, LifecycleStep, CeilingStep, RequestedStep, CommittedStep DEF TablesInv

-----------------------------------------------------------------------------
\* The other requests.

\* A step that writes no table disturbs no other request.
LEMMA QuietWaits ==
    ASSUME UNCHANGED storeVars, NEW q \in Requests, Waits(q), RequestInv(q)
    PROVE  RequestInv(q)'
<1>1. Formed(q)'
  BY DEF RequestInv, Formed, Waits, Keeps, Pending, storeVars
<1>2. FreshIsFree(q)'
  BY DEF RequestInv, FreshIsFree, MintsSession, MintsDiagnostic, MintsPlan, Waits, Keeps,
         Pending, storeVars, tables
<1>3. PlanIsKnown(q)'
  BY DEF RequestInv, PlanIsKnown, Waits, Keeps, Pending, storeVars, tables
<1>4. SnapshotIsCurrent(q)'
  <2> SUFFICES ASSUME request'[q].at = "upgrade", ~request'[q].moved
               PROVE  /\ LockActive(request[q].session, request[q].now)'
                      /\ request'[q].release = production'[request'[q].session].release
    BY DEF SnapshotIsCurrent
  <2>1. PICK s, now : s = request[q].session /\ now = request[q].now
    OBVIOUS
  <2>2. LockActive(s, now) /\ request[q].release = production[s].release
    BY <2>1 DEF RequestInv, SnapshotIsCurrent, Waits
  <2>3. LockActive(s, now)'
    BY <2>2, SameSessions
  <2>4. request'[q].session = s /\ request'[q].now = now /\ request'[q].release = request[q].release
    BY <2>1 DEF Waits, Keeps
  <2> QED BY <2>2, <2>3, <2>4 DEF storeVars, tables
<1>5. RoomForDiagnostic(q)'
  <2> SUFFICES ASSUME MintsDiagnostic(q)', request'[q].op = "diagnostic"
               PROVE  Cardinality(RequestedDiagnostics(request[q].session)') < MaxDiagnostics
    BY DEF RoomForDiagnostic
  <2>1. PICK s : s = request[q].session
    OBVIOUS
  <2>2. Cardinality(RequestedDiagnostics(s)) < MaxDiagnostics
    BY <2>1 DEF RequestInv, RoomForDiagnostic, MintsDiagnostic, Waits, Keeps, Pending
  <2>3. request'[q].session = s
    BY <2>1 DEF Waits, Keeps
  <2>4. RequestedDiagnostics(s)' = RequestedDiagnostics(s)
    BY SameSessions
  <2> QED BY <2>2, <2>3, <2>4
<1> QED BY <1>1, <1>2, <1>3, <1>4, <1>5 DEF RequestInv

\* The rows that appear with a commit of `r' are those whose id it minted.
Mints(r) ==
    /\ \A s \in Sessions :
         session[s].status = "absent"
           => session'[s].status = "absent" \/ (MintsSession(r) /\ s = request[r].fresh)
    /\ \A d \in Diagnostics :
         diagnostic[d].session = NoSession
           => diagnostic'[d].session = NoSession \/ (MintsDiagnostic(r) /\ d = request[r].fresh)
    /\ \A p \in Plans :
         \/ MintsPlan(r) /\ p = request[r].fresh
         \/ /\ plan[p].session = NoSession => plan'[p].session = NoSession
            /\ plan'[p].since \in {plan[p].since, 0}
    /\ \A s \in Sessions :
         request[r].op # "diagnostic" => RequestedDiagnostics(s)' \subseteq RequestedDiagnostics(s)

\* A commit of `r' leaves every waiting request as sound as it was.
LEMMA CommitWaits ==
    ASSUME TxInv, NEW r \in Requests, clock' = clock, Mints(r),
           NEW q \in Requests, q # r, Waits(q), request[q].at = "upgrade" => request'[q].moved
    PROVE  RequestInv(q)'
<1> USE DEF Mints
<1>1. RequestInv(q) /\ PairInv(q, r) /\ PairInv(r, q)
  BY DEF TxInv
<1>2. Formed(q)'
  BY <1>1 DEF RequestInv, Formed, Waits, Keeps, Pending
<1>3. FreshIsFree(q)'
  <2>1. MintsSession(q)' => /\ request'[q].fresh \in Sessions
                            /\ session'[request'[q].fresh].status = "absent"
    BY <1>1 DEF RequestInv, FreshIsFree, PairInv, FreshIsDistinct, MintsSession, Waits, Keeps,
                Pending
  <2>2. MintsDiagnostic(q)' => /\ request'[q].fresh \in Diagnostics
                               /\ diagnostic'[request'[q].fresh].session = NoSession
    BY <1>1 DEF RequestInv, FreshIsFree, PairInv, FreshIsDistinct, MintsDiagnostic, Waits,
                Keeps, Pending
  <2>3. MintsPlan(q)' => /\ request'[q].fresh \in Plans
                         /\ plan'[request'[q].fresh].session = NoSession
    BY <1>1 DEF RequestInv, FreshIsFree, PairInv, FreshIsDistinct, MintsPlan, Waits, Keeps,
                Pending
  <2> QED BY <2>1, <2>2, <2>3 DEF FreshIsFree
<1>4. PlanIsKnown(q)'
  <2> SUFFICES ASSUME Pending(q)', OnPlan(request'[q].op)
               PROVE  plan'[request'[q].plan].since <= request'[q].now
    BY DEF PlanIsKnown
  <2>1. /\ Pending(q) /\ OnPlan(request[q].op)
        /\ request'[q].plan = request[q].plan /\ request'[q].now = request[q].now
    BY DEF Waits, Keeps, Pending
  <2>2. /\ request[q].plan \in Plans /\ request[q].now \in Nat
        /\ plan[request[q].plan].since <= request[q].now
    BY <1>1, <2>1 DEF RequestInv, Formed, PlanIsKnown
  <2>3. ~(MintsPlan(r) /\ request[q].plan = request[r].fresh)
    BY <1>1, <2>1 DEF PairInv, PlanIsTaken
  <2> QED BY <2>1, <2>2, <2>3
<1>5. SnapshotIsCurrent(q)'
  BY DEF SnapshotIsCurrent, Waits
<1>6. RoomForDiagnostic(q)'
  <2> SUFFICES ASSUME MintsDiagnostic(q)', request'[q].op = "diagnostic"
               PROVE  Cardinality(RequestedDiagnostics(request[q].session)') < MaxDiagnostics
    BY DEF RoomForDiagnostic
  <2>1. /\ MintsDiagnostic(q) /\ request[q].op = "diagnostic"
        /\ request'[q].session = request[q].session
    BY DEF MintsDiagnostic, Waits, Keeps, Pending
  <2>2. PICK s \in Sessions : s = request[q].session
    BY <1>1, <2>1 DEF RequestInv, Formed, MintsDiagnostic
  <2>3. Cardinality(RequestedDiagnostics(s)) < MaxDiagnostics
    BY <1>1, <2>1, <2>2 DEF RequestInv, RoomForDiagnostic
  <2>4. RequestedDiagnostics(s)' \subseteq RequestedDiagnostics(s)
    BY <1>1, <2>1 DEF PairInv, OneDiagnosticRequest
  <2>5. IsFiniteSet(RequestedDiagnostics(s))
    BY DEF TxInv, TablesInv, RequestedAreFinite
  <2>6. /\ Cardinality(RequestedDiagnostics(s)') <= Cardinality(RequestedDiagnostics(s))
        /\ Cardinality(RequestedDiagnostics(s)') \in Nat
        /\ Cardinality(RequestedDiagnostics(s)) \in Nat
    BY <2>4, <2>5, FS_Subset, FS_CardinalityType
  <2> QED BY <2>1, <2>2, <2>3, <2>6, StoreAssumption
<1> QED BY <1>2, <1>3, <1>4, <1>5, <1>6 DEF RequestInv

-----------------------------------------------------------------------------
\* One statement leads from the draft of one step to the draft of the next.

\* The statements of execute_recovery.
LEMMA ExecutionStatements ==
    ASSUME TypeOK, NEW s \in Sessions, NEW p \in Plans, NEW d \in Diagnostics, NEW now,
           NEW t
    PROVE  LET Draft(at) == ExecutionTables(s, p, d, now, at)
           IN  /\ Matches(t, Committed) =>
                    Matches([t EXCEPT !.plan[p].state = ClaimedState(@)], Draft("claimed"))
               /\ Matches(t, Draft("claimed")) =>
                    Matches([t EXCEPT !.production[s].release = plan[p].target,
                                      !.production[s].health = "healthy"], Draft("changed"))
               /\ Matches(t, Draft("changed")) =>
                    Matches([t EXCEPT !.production[s].incident = "resolved"], Draft("resolved"))
               /\ Matches(t, Draft("resolved")) =>
                    Matches([t EXCEPT !.diagnostic[d] = AfterStateDiagnostic(s, p)],
                            Draft("diagnosed"))
               /\ Matches(t, Draft("diagnosed")) =>
                    Matches([t EXCEPT !.executions = @ \cup
                       {[session |-> s, plan |-> p, previous |-> plan[p].expected,
                         current |-> plan[p].target, diagnostic |-> d, executed_at |-> now]}],
                       Draft("stored"))
               /\ Matches(t, Draft("stored")) =>
                    Matches([t EXCEPT
                       !.plan[p].state = CompleteExecution(@, now),
                       !.audit = @ \cup Audit(s, "recovery_execution", p, now)],
                       Draft("completed"))
<1> DEFINE Draft(at) == ExecutionTables(s, p, d, now, at)
<1> USE DEF TypeOK, Tables, Matches
<1>1. Matches(t, Committed) =>
        Matches([t EXCEPT !.plan[p].state = ClaimedState(@)], Draft("claimed"))
  BY DEF ExecutionTables, Committed
<1>2. Matches(t, Draft("claimed")) =>
        Matches([t EXCEPT !.production[s].release = plan[p].target,
                          !.production[s].health = "healthy"], Draft("changed"))
  BY DEF ExecutionTables
<1>3. Matches(t, Draft("changed")) =>
        Matches([t EXCEPT !.production[s].incident = "resolved"], Draft("resolved"))
  <2>1. production[s] \in ProductionType
    OBVIOUS
  <2>2. [[production EXCEPT ![s].release = plan[p].target, ![s].health = "healthy"]
           EXCEPT ![s].incident = "resolved"] =
        [production EXCEPT ![s] = [release |-> plan[p].target, health |-> "healthy",
                                   incident |-> "resolved"]]
    <3> DEFINE row == [production[s] EXCEPT !.release = plan[p].target, !.health = "healthy",
                                            !.incident = "resolved"]
               recovered == [release |-> plan[p].target, health |-> "healthy",
                             incident |-> "resolved"]
               Columns == {"release", "health", "incident"}
    <3>1. row = [column \in Columns |-> row[column]]
      BY <2>1 DEF ProductionType
    <3>2. \A column \in Columns : row[column] = recovered[column]
      <4>1. /\ row["release"] = plan[p].target /\ row["health"] = "healthy"
            /\ row["incident"] = "resolved"
        BY <2>1 DEF ProductionType
      <4>2. /\ recovered["release"] = plan[p].target /\ recovered["health"] = "healthy"
            /\ recovered["incident"] = "resolved"
        OBVIOUS
      <4> HIDE DEF row, recovered
      <4> QED BY <4>1, <4>2
    <3>3. recovered = [column \in Columns |-> recovered[column]]
      OBVIOUS
    <3>4. row = recovered
      BY <3>1, <3>2, <3>3
    <3>5. [[production EXCEPT ![s].release = plan[p].target, ![s].health = "healthy"]
             EXCEPT ![s].incident = "resolved"] = [production EXCEPT ![s] = row]
      OBVIOUS
    <3> QED BY <3>4, <3>5
  <2> QED BY <2>2 DEF ExecutionTables
<1>4. Matches(t, Draft("resolved")) =>
        Matches([t EXCEPT !.diagnostic[d] = AfterStateDiagnostic(s, p)], Draft("diagnosed"))
  BY DEF ExecutionTables
<1>5. Matches(t, Draft("diagnosed")) =>
        Matches([t EXCEPT !.executions = @ \cup
           {[session |-> s, plan |-> p, previous |-> plan[p].expected,
             current |-> plan[p].target, diagnostic |-> d, executed_at |-> now]}],
           Draft("stored"))
  BY DEF ExecutionTables
<1>6. Matches(t, Draft("stored")) =>
        Matches([t EXCEPT
           !.plan[p].state = CompleteExecution(@, now),
           !.audit = @ \cup Audit(s, "recovery_execution", p, now)], Draft("completed"))
  <2>1. plan[p] \in PlanType
    OBVIOUS
  <2>2. [[plan EXCEPT ![p].state = ClaimedState(plan[p].state)]
           EXCEPT ![p].state = CompleteExecution(@, now)] =
        [plan EXCEPT ![p].state = CompleteExecution(ClaimedState(plan[p].state), now)]
    BY <2>1 DEF PlanType
  <2> QED BY <2>2 DEF ExecutionTables
<1> QED BY <1>1, <1>2, <1>3, <1>4, <1>5, <1>6

\* The statements of reset_session.
LEMMA ResetStatements ==
    ASSUME TypeOK, NEW s \in Sessions, NEW fresh \in Sessions, NEW now, NEW t
    PROVE  LET Draft(at) == ResetTables(s, fresh, now, at)
           IN  /\ Matches(t, Committed) =>
                    Matches([t EXCEPT !.session[fresh] = LiveSession(now),
                                      !.production[fresh] = SeededProduction],
                            Draft("inserted"))
               /\ Matches(t, Draft("inserted")) =>
                    Matches([t EXCEPT !.plan = [p \in Plans |->
                       IF t.plan[p].session = s
                       THEN [t.plan[p] EXCEPT !.state = InvalidateRecovery(@)]
                       ELSE t.plan[p]]],
                       Draft("invalidated"))
               /\ Matches(t, Draft("invalidated")) =>
                    Matches([t EXCEPT !.resets = @ \cup
                       {[original |-> s, replacement |-> fresh]}], Draft("lineage"))
               /\ Matches(t, Draft("lineage")) =>
                    Matches([t EXCEPT
                       !.session[s].status = "revoked",
                       !.audit = @ \cup Audit(s, "session_reset", fresh, now)],
                       Draft("revoked"))
<1> DEFINE Draft(at) == ResetTables(s, fresh, now, at)
<1> USE DEF TypeOK, Tables, Matches
<1>1. Matches(t, Committed) =>
        Matches([t EXCEPT !.session[fresh] = LiveSession(now),
                          !.production[fresh] = SeededProduction], Draft("inserted"))
  <2> DEFINE u == Draft("inserted")
  <2>1. /\ u.session = [session EXCEPT ![fresh] = LiveSession(now)]
        /\ u.production = [production EXCEPT ![fresh] = SeededProduction]
        /\ u.plan = plan /\ u.diagnostic = diagnostic /\ u.executions = executions
        /\ u.audit = audit /\ u.resets = resets
    BY DEF ResetTables
  <2> HIDE DEF Draft
  <2> QED BY <2>1 DEF Committed
<1>2. Matches(t, Draft("inserted")) =>
        Matches([t EXCEPT !.plan = [p \in Plans |->
           IF t.plan[p].session = s
           THEN [t.plan[p] EXCEPT !.state = InvalidateRecovery(@)] ELSE t.plan[p]]],
           Draft("invalidated"))
  BY DEF ResetTables
<1>3. Matches(t, Draft("invalidated")) =>
        Matches([t EXCEPT !.resets = @ \cup {[original |-> s, replacement |-> fresh]}],
                Draft("lineage"))
  BY DEF ResetTables
<1>4. Matches(t, Draft("lineage")) =>
        Matches([t EXCEPT
           !.session[s].status = "revoked",
           !.audit = @ \cup Audit(s, "session_reset", fresh, now)], Draft("revoked"))
  BY DEF ResetTables
<1> QED BY <1>1, <1>2, <1>3, <1>4

\* The statements of create_session.
LEMMA CreationBegins ==
    ASSUME TypeOK, NEW fresh, NEW now
    PROVE  Matches(Committed, CreationTables(fresh, now, "executions"))
<1> USE DEF TypeOK
<1> DEFINE u == CreationTables(fresh, now, "executions")
<1>1. u.session = session
  BY DEF CreationTables
<1>2. u.production = production
  BY DEF CreationTables
<1>3. u.plan = plan
  BY DEF CreationTables
<1>4. u.diagnostic = diagnostic
  BY DEF CreationTables
<1>5. u.executions = executions /\ u.audit = audit /\ u.resets = resets
  BY DEF CreationTables
<1> HIDE DEF u
<1>6. Matches(Committed, u)
  BY <1>1, <1>2, <1>3, <1>4, <1>5 DEF Matches, Committed, Tables
<1> QED BY <1>6 DEF u

\* The first deletion of create_session leads to the draft of the second.
LEMMA PruneExecutions ==
    ASSUME NEW fresh, NEW now, Matches(draft, CreationTables(fresh, now, "executions"))
    PROVE  Matches(Without("executions", Removable(now)), CreationTables(fresh, now, "contexts"))
<1> DEFINE gone == Removable(now)
           u == CreationTables(fresh, now, "executions")
           v == CreationTables(fresh, now, "contexts")
           w == Without("executions", gone)
<1>1. /\ v.session = u.session /\ v.production = u.production /\ v.plan = u.plan
      /\ v.diagnostic = u.diagnostic /\ v.audit = u.audit /\ v.resets = u.resets
  BY DEF CreationTables
<1>2. u.executions = executions /\ v.executions = {e \in executions : e.session \notin gone}
  BY DEF CreationTables
<1>3. /\ DOMAIN w = Tables
      /\ w.session = draft.session /\ w.production = draft.production
      /\ w.plan = draft.plan /\ w.diagnostic = draft.diagnostic
      /\ w.audit = draft.audit /\ w.resets = draft.resets
      /\ w.executions = {e \in draft.executions : e.session \notin gone}
  BY DEF Without, Matches, Tables
<1> HIDE DEF gone, u, v, w
<1>4. Matches(draft, u)
  BY DEF u
<1>5. Matches(w, v)
  BY <1>1, <1>2, <1>3, <1>4 DEF Matches
<1> QED BY <1>5 DEF w, v, gone

\* The second deletion of create_session leads to the draft of the third.
LEMMA PruneContexts ==
    ASSUME TypeOK, NEW fresh, NEW now, Matches(draft, CreationTables(fresh, now, "contexts"))
    PROVE  Matches(Without("contexts", Removable(now)), CreationTables(fresh, now, "plans"))
<1> DEFINE gone == Removable(now)
           u == CreationTables(fresh, now, "contexts")
           v == CreationTables(fresh, now, "plans")
           w == Without("contexts", gone)
<1>1. /\ v.session = u.session /\ v.production = u.production /\ v.plan = u.plan
      /\ v.executions = u.executions /\ v.audit = u.audit /\ v.resets = u.resets
  BY DEF CreationTables
<1>2. \A d \in Diagnostics : u.diagnostic[d] = diagnostic[d]
  BY DEF CreationTables
<1>3. v.diagnostic =
        [d \in Diagnostics |-> IF diagnostic[d].session \in gone
                               THEN [diagnostic[d] EXCEPT !.release = "", !.plan = NoPlan]
                               ELSE diagnostic[d]]
  BY DEF CreationTables
<1>4. /\ DOMAIN w = Tables
      /\ w.session = draft.session /\ w.production = draft.production
      /\ w.plan = draft.plan /\ w.executions = draft.executions
      /\ w.audit = draft.audit /\ w.resets = draft.resets
      /\ w.diagnostic =
           [d \in Diagnostics |->
              IF draft.diagnostic[d].session \in gone
              THEN [draft.diagnostic[d] EXCEPT !.release = "", !.plan = NoPlan]
              ELSE draft.diagnostic[d]]
  BY DEF Without, Matches, Tables
<1> HIDE DEF gone, u, v, w
<1>5. Matches(draft, u)
  BY DEF u
<1>6. \A d \in Diagnostics : draft.diagnostic[d] = diagnostic[d]
  BY <1>2, <1>5 DEF Matches
<1>7. w.diagnostic = v.diagnostic
  BY <1>3, <1>4, <1>6
<1>8. Matches(w, v)
  BY <1>1, <1>4, <1>5, <1>7 DEF Matches
<1> QED BY <1>8 DEF w, v, gone

\* The third deletion of create_session leads to the draft of the fourth.
LEMMA PrunePlans ==
    ASSUME TypeOK, NEW fresh, NEW now, Matches(draft, CreationTables(fresh, now, "plans"))
    PROVE  Matches(Without("plans", Removable(now)), CreationTables(fresh, now, "sessions"))
<1> DEFINE gone == Removable(now)
           u == CreationTables(fresh, now, "plans")
           v == CreationTables(fresh, now, "sessions")
           w == Without("plans", gone)
<1>1. /\ v.session = u.session /\ v.production = u.production
      /\ v.diagnostic = u.diagnostic
      /\ v.executions = u.executions /\ v.audit = u.audit /\ v.resets = u.resets
  BY DEF CreationTables
<1>2. \A p \in Plans : u.plan[p] = plan[p]
  BY DEF CreationTables
<1>3. v.plan = [p \in Plans |-> IF plan[p].session \in gone THEN AbsentPlan ELSE plan[p]]
  BY DEF CreationTables
<1>4. /\ DOMAIN w = Tables
      /\ w.session = draft.session /\ w.production = draft.production
      /\ w.diagnostic = draft.diagnostic /\ w.executions = draft.executions
      /\ w.audit = draft.audit /\ w.resets = draft.resets
      /\ w.plan = [p \in Plans |-> IF draft.plan[p].session \in gone
                                   THEN AbsentPlan ELSE draft.plan[p]]
  BY DEF Without, Matches, Tables
<1> HIDE DEF gone, u, v, w
<1>5. Matches(draft, u)
  BY DEF u
<1>6. \A p \in Plans : draft.plan[p] = plan[p]
  BY <1>2, <1>5 DEF Matches
<1>7. w.plan = v.plan
  BY <1>3, <1>4, <1>6
<1>8. Matches(w, v)
  BY <1>1, <1>4, <1>5, <1>7 DEF Matches
<1> QED BY <1>8 DEF w, v, gone

\* The fourth deletion of create_session leads to the draft of the count.
LEMMA PruneSessions ==
    ASSUME TypeOK, NEW fresh, NEW now, Matches(draft, CreationTables(fresh, now, "sessions"))
    PROVE  Matches(Without("sessions", Removable(now)), CreationTables(fresh, now, "insert"))
<1> DEFINE gone == Removable(now)
           u == CreationTables(fresh, now, "sessions")
           v == CreationTables(fresh, now, "insert")
           w == Without("sessions", gone)
<1>1. v.plan = u.plan /\ v.executions = u.executions
  BY DEF CreationTables
<1>2. /\ \A s \in Sessions : u.session[s] = session[s] /\ u.production[s] = production[s]
      /\ \A d \in Diagnostics :
           u.diagnostic[d] = IF diagnostic[d].session \notin gone THEN diagnostic[d]
                             ELSE [diagnostic[d] EXCEPT !.release = "", !.plan = NoPlan]
      /\ u.audit = audit /\ u.resets = resets
  BY DEF CreationTables
<1>3. /\ v.session = [s \in Sessions |-> IF s \in gone THEN AbsentSession ELSE session[s]]
      /\ v.production = [s \in Sessions |-> IF s \in gone
                                            THEN SeededProduction ELSE production[s]]
      /\ v.diagnostic = [d \in Diagnostics |-> IF diagnostic[d].session \notin gone
                                               THEN diagnostic[d] ELSE AbsentDiagnostic]
      /\ v.audit = {e \in audit : e.session \notin gone}
      /\ v.resets = {x \in resets : x.original \notin gone /\ x.replacement \notin gone}
  BY DEF CreationTables
<1>4. /\ DOMAIN w = Tables
      /\ w.plan = draft.plan /\ w.executions = draft.executions
      /\ w.session =
           [s \in Sessions |-> IF s \in gone THEN AbsentSession ELSE draft.session[s]]
      /\ w.production =
           [s \in Sessions |-> IF s \in gone THEN SeededProduction ELSE draft.production[s]]
      /\ w.diagnostic =
           [d \in Diagnostics |-> IF draft.diagnostic[d].session \in gone
                                  THEN AbsentDiagnostic ELSE draft.diagnostic[d]]
      /\ w.audit = {e \in draft.audit : e.session \notin gone}
      /\ w.resets = {x \in draft.resets : {x.original, x.replacement} \cap gone = {}}
  BY DEF Without, Matches, Tables
<1> HIDE DEF gone, u, v, w
<1>5. Matches(draft, u)
  BY DEF u
<1>6. /\ \A s \in Sessions : draft.session[s] = session[s] /\ draft.production[s] = production[s]
      /\ draft.audit = audit /\ draft.resets = resets
      /\ \A d \in Diagnostics :
           draft.diagnostic[d] = IF diagnostic[d].session \notin gone THEN diagnostic[d]
                                 ELSE [diagnostic[d] EXCEPT !.release = "", !.plan = NoPlan]
  BY <1>2, <1>5 DEF Matches
<1>7. w.session = v.session /\ w.production = v.production
  <2>1. /\ w.session =
             [s \in Sessions |-> IF s \in gone THEN AbsentSession ELSE draft.session[s]]
        /\ v.session = [s \in Sessions |-> IF s \in gone THEN AbsentSession ELSE session[s]]
        /\ \A s \in Sessions : draft.session[s] = session[s]
    BY <1>3, <1>4, <1>6
  <2>2. /\ w.production =
             [s \in Sessions |-> IF s \in gone THEN SeededProduction ELSE draft.production[s]]
        /\ v.production = [s \in Sessions |-> IF s \in gone
                                              THEN SeededProduction ELSE production[s]]
        /\ \A s \in Sessions : draft.production[s] = production[s]
    BY <1>3, <1>4, <1>6
  <2>3. w.session = v.session
    BY <2>1
  <2>4. w.production = v.production
    BY <2>2
  <2> QED BY <2>3, <2>4
<1>8. \A d \in Diagnostics : draft.diagnostic[d].session = diagnostic[d].session
  <2> SUFFICES ASSUME NEW d \in Diagnostics
               PROVE  draft.diagnostic[d].session = diagnostic[d].session
    OBVIOUS
  <2>1. diagnostic[d] \in DiagnosticType
    BY DEF TypeOK
  <2> QED BY <1>6, <2>1 DEF DiagnosticType
<1>9. w.diagnostic = v.diagnostic
  <2>1. /\ w.diagnostic = [d \in Diagnostics |-> IF draft.diagnostic[d].session \in gone
                                                 THEN AbsentDiagnostic ELSE draft.diagnostic[d]]
        /\ v.diagnostic = [d \in Diagnostics |-> IF diagnostic[d].session \notin gone
                                                 THEN diagnostic[d] ELSE AbsentDiagnostic]
    BY <1>3, <1>4
  <2>2. \A d \in Diagnostics :
          /\ draft.diagnostic[d].session = diagnostic[d].session
          /\ diagnostic[d].session \notin gone => draft.diagnostic[d] = diagnostic[d]
    BY <1>6, <1>8
  <2> QED BY <2>1, <2>2
<1>10. w.audit = v.audit
  <2>1. w.audit = {e \in audit : e.session \notin gone}
    BY <1>4, <1>6
  <2> QED BY <1>3, <2>1
<1>11. w.resets = v.resets
  <2>1. w.resets = {x \in resets : {x.original, x.replacement} \cap gone = {}}
    BY <1>4, <1>6
  <2>2. v.resets = {x \in resets : x.original \notin gone /\ x.replacement \notin gone}
    BY <1>3
  <2> QED BY <2>1, <2>2
<1>12. Matches(w, v)
  BY <1>1, <1>4, <1>5, <1>7, <1>9, <1>10, <1>11 DEF Matches
<1> QED BY <1>12 DEF w, v, gone

\* The insert of create_session counts the sessions the deletions left.
LEMMA InsertStatement ==
    ASSUME TypeOK, NEW fresh \in Sessions, NEW now,
           Matches(draft, CreationTables(fresh, now, "insert"))
    PROVE  /\ {s \in Sessions : draft.session[s].status = "live"} = Remaining(now)
           /\ Matches([draft EXCEPT !.session[fresh] = LiveSession(now),
                                    !.production[fresh] = SeededProduction],
                      CreationTables(fresh, now, "seeded"))
<1> DEFINE gone == Removable(now)
           u == CreationTables(fresh, now, "insert")
           v == CreationTables(fresh, now, "seeded")
           w == [draft EXCEPT !.session[fresh] = LiveSession(now),
                              !.production[fresh] = SeededProduction]
<1>1. /\ v.plan = u.plan /\ v.executions = u.executions /\ v.diagnostic = u.diagnostic
      /\ v.audit = u.audit /\ v.resets = u.resets
  BY DEF CreationTables
<1>2. /\ u.session = [s \in Sessions |-> IF s \in gone THEN AbsentSession ELSE session[s]]
      /\ u.production = [s \in Sessions |-> IF s \in gone
                                            THEN SeededProduction ELSE production[s]]
  BY DEF CreationTables
<1>3. /\ v.session = [s \in Sessions |-> IF s = fresh THEN LiveSession(now)
                                         ELSE IF s \in gone THEN AbsentSession ELSE session[s]]
      /\ v.production = [s \in Sessions |-> IF s = fresh \/ s \in gone
                                            THEN SeededProduction ELSE production[s]]
  BY DEF CreationTables
<1>4. /\ DOMAIN w = Tables
      /\ w.plan = draft.plan /\ w.executions = draft.executions
      /\ w.diagnostic = draft.diagnostic /\ w.audit = draft.audit /\ w.resets = draft.resets
      /\ w.session = [draft.session EXCEPT ![fresh] = LiveSession(now)]
      /\ w.production = [draft.production EXCEPT ![fresh] = SeededProduction]
  BY DEF Matches, Tables
<1>5. Remaining(now) = {s \in Sessions : session[s].status = "live"} \ gone
  BY DEF Remaining
<1> HIDE DEF gone, u, v, w
<1>6. Matches(draft, u)
  BY DEF u
<1>7. draft.session = u.session /\ draft.production = u.production
  BY <1>6 DEF Matches
<1>8. w.session = v.session
  <2>1. w.session = [[s \in Sessions |-> IF s \in gone THEN AbsentSession ELSE session[s]]
                       EXCEPT ![fresh] = LiveSession(now)]
    BY <1>2, <1>4, <1>7
  <2>2. v.session = [s \in Sessions |-> IF s = fresh THEN LiveSession(now)
                                        ELSE IF s \in gone THEN AbsentSession ELSE session[s]]
    BY <1>3
  <2> QED BY <2>1, <2>2
<1>9. w.production = v.production
  <2>1. w.production = [[s \in Sessions |-> IF s \in gone THEN SeededProduction
                                            ELSE production[s]]
                          EXCEPT ![fresh] = SeededProduction]
    BY <1>2, <1>4, <1>7
  <2>2. v.production = [s \in Sessions |-> IF s = fresh \/ s \in gone
                                           THEN SeededProduction ELSE production[s]]
    BY <1>3
  <2> QED BY <2>1, <2>2
<1>10. Matches(w, v)
  BY <1>1, <1>4, <1>6, <1>8, <1>9 DEF Matches
<1>11. {s \in Sessions : draft.session[s].status = "live"} = Remaining(now)
  <2>1. AbsentSession.status # "live"
    BY DEF AbsentSession
  <2> QED BY <1>2, <1>5, <1>7, <2>1
<1> QED BY <1>10, <1>11 DEF w, v

-----------------------------------------------------------------------------
\* From the parts of a step to the invariant.

\* The invariant is kept, and the tables take a step of RecoveryStore or none.
StoreStep == TxInv' /\ [Next]_vars

\* A request that is idle or answered has nothing left to keep.
LEMMA EndedInv ==
    ASSUME NEW r \in Requests, Ended(r)
    PROVE  RequestInv(r)' /\ request'[r].at \notin LockedSteps
<1>1. request'[r].at \notin LockedSteps /\ request'[r].at # "upgrade" /\ ~Pending(r)'
  BY DEF Ended, Pending, LockedSteps, ExecutionSteps, ResetSteps, CreationSteps
<1> QED BY <1>1 DEF Ended, RequestInv, Formed, FreshIsFree, PlanIsKnown, SnapshotIsCurrent,
                    RoomForDiagnostic, MintsSession, MintsDiagnostic, MintsPlan

\* The answer to a request ends it.
LEMMA AnswerEnds ==
    ASSUME TxInv, NEW r \in Requests, Pending(r), NEW answer, NEW seen,
           request'[r] \in {Answered(r, answer), [Answered(r, answer) EXCEPT !.seen = seen]}
    PROVE  Ended(r)
<1>1. /\ request[r].op \in OpsAt(request[r].at) /\ DOMAIN request[r] = Fields
      /\ request[r].at \notin {"idle", "answered"}
  BY DEF TxInv, RequestInv, Formed, Pending
<1>2. request[r].op \in Operations
  BY <1>1 DEF OpsAt, Operations, ReadSteps, CreationSteps, ResetSteps, ExecutionSteps
<1>3. \A next \in {Answered(r, answer), [Answered(r, answer) EXCEPT !.seen = seen]} :
        next.at = "answered" /\ next.op = request[r].op /\ DOMAIN next = Fields
  BY DEF Answered, Idle, Fields
<1>4. OpsAt("answered") = Operations
  BY DEF OpsAt, ReadSteps, CreationSteps, ResetSteps, ExecutionSteps
<1> QED BY <1>2, <1>3, <1>4 DEF Ended

\* A request that goes on, while the tables stand, keeps what is said of it.
LEMMA GoesOnInv ==
    ASSUME TxInv, UNCHANGED storeVars, NEW r \in Requests, GoesOn(r),
           request'[r].at = "upgrade" => SnapshotIsCurrent(r)'
    PROVE  RequestInv(r)'
<1>1. RequestInv(r) /\ Pending(r) /\ TypeOK
  BY DEF TxInv, TablesInv, LifecycleInv, RecoveryInv, GoesOn
<1>2. clock \in Nat /\ MaxDelay \in Nat /\ clock' = clock
  BY <1>1, StoreAssumption DEF TypeOK, storeVars
<1>3. /\ request[r].now \in Nat /\ request[r].now <= clock /\ clock - request[r].now <= MaxDelay
      /\ request[r].op \in {"create", "incident"} \/ request[r].session \in Sessions
      /\ OnPlan(request[r].op) => request[r].plan \in Plans
  BY <1>1 DEF RequestInv, Formed
<1>4. /\ request'[r].now \in Nat /\ request[r].now <= request'[r].now
      /\ request'[r].now <= clock /\ clock - request'[r].now <= MaxDelay
  BY <1>2, <1>3 DEF GoesOn
<1>5. Formed(r)'
  BY <1>2, <1>3, <1>4 DEF Formed, GoesOn, Keeps
<1>6. FreshIsFree(r)'
  BY <1>1, ContinuesMints
     DEF RequestInv, FreshIsFree, Continues, GoesOn, Keeps, storeVars, tables
<1>7. PlanIsKnown(r)'
  <2> SUFFICES ASSUME OnPlan(request'[r].op)
               PROVE  plan'[request'[r].plan].since <= request'[r].now
    BY DEF PlanIsKnown
  <2>1. OnPlan(request[r].op) /\ request'[r].plan = request[r].plan /\ plan' = plan
    BY DEF GoesOn, Keeps, storeVars, tables
  <2>2. plan[request[r].plan].since <= request[r].now
    BY <1>1, <2>1 DEF RequestInv, PlanIsKnown
  <2>3. plan[request[r].plan].since \in Nat
    BY <1>1, <1>3, <2>1 DEF TypeOK, PlanType
  <2> QED BY <1>3, <1>4, <2>1, <2>2, <2>3
<1>8. SnapshotIsCurrent(r)'
  BY DEF SnapshotIsCurrent
<1>9. RoomForDiagnostic(r)'
  <2> SUFFICES ASSUME MintsDiagnostic(r)', request'[r].op = "diagnostic"
               PROVE  Cardinality(RequestedDiagnostics(request[r].session)') < MaxDiagnostics
    BY DEF RoomForDiagnostic
  <2>1. MintsDiagnostic(r) /\ request[r].op = "diagnostic"
    BY <1>1 DEF GoesOn, Keeps, MintsDiagnostic
  <2>2. PICK s : s = request[r].session
    OBVIOUS
  <2>3. Cardinality(RequestedDiagnostics(s)) < MaxDiagnostics
    BY <1>1, <2>1, <2>2 DEF RequestInv, RoomForDiagnostic
  <2>4. request'[r].session = s
    BY <2>2 DEF GoesOn, Keeps
  <2>5. RequestedDiagnostics(s)' = RequestedDiagnostics(s)
    BY SameSessions
  <2> QED BY <2>3, <2>4, <2>5
<1> QED BY <1>5, <1>6, <1>7, <1>8, <1>9 DEF RequestInv

\* A step that writes no table.
LEMMA UnwrittenStep ==
    ASSUME TxInv, UNCHANGED storeVars, NEW r \in Requests, OthersWait(r), Continues(r),
           GoesOn(r) /\ request'[r].at = "upgrade" => SnapshotIsCurrent(r)',
           WriterIsLocked'
    PROVE  StoreStep
<1>1. TablesInv'
  BY TablesStep DEF TxInv, storeVars, tables, vars
<1>2. \A q \in Requests : RequestInv(q)'
  <2>1. RequestInv(r)'
    BY EndedInv, GoesOnInv DEF Continues
  <2>2. ASSUME NEW q \in Requests \ {r} PROVE RequestInv(q)'
    BY <2>2, QuietWaits DEF TxInv, OthersWait
  <2> QED BY <2>1, <2>2
<1>3. (\A p, q \in Requests : p # q => PairInv(p, q))'
  BY PairsStay
<1>4. DOMAIN request' = Requests
  BY DEF OthersWait
<1>5. UNCHANGED vars
  BY DEF storeVars, tables, vars
<1> QED BY <1>1, <1>2, <1>3, <1>4, <1>5 DEF TxInv, StoreStep

\* A step that needs no lock.
LEMMA FreeStep ==
    ASSUME TxInv, UNCHANGED <<storeVars, writer, draft>>, NEW r \in Requests,
           request[r].at \notin LockedSteps, request'[r].at \notin LockedSteps,
           OthersWait(r), Continues(r), request'[r].at = "upgrade" => SnapshotIsCurrent(r)'
    PROVE  StoreStep
<1>1. writer # r
  BY DEF TxInv, WriterIsLocked
<1> QED BY <1>1, UnwrittenStep, LockElsewhere

\* A COMMIT of the writer, and the answer to it.
Commits(r) == Next /\ clock' = clock /\ Mints(r)

\* A COMMIT whose tables take a step of RecoveryStore keeps the invariant.
LEMMA CommitStep ==
    ASSUME TxInv, NEW r \in Requests, writer = r, Commits(r), writer' = NoRequest,
           OthersWait(r), \A q \in Requests \ {r} : request[q].at = "upgrade" => request'[q].moved,
           Continues(r), RequestInv(r)', request'[r].at \notin LockedSteps
    PROVE  StoreStep
<1>1. TablesInv'
  BY TablesStep DEF TxInv, Commits
<1>2. \A q \in Requests : RequestInv(q)'
  BY CommitWaits DEF Commits, OthersWait
<1>3. (\A p, q \in Requests : p # q => PairInv(p, q))'
  BY PairsStay
<1>4. DOMAIN request' = Requests /\ WriterIsLocked'
  BY LockReleased DEF OthersWait
<1> QED BY <1>1, <1>2, <1>3, <1>4 DEF TxInv, Commits, StoreStep

-----------------------------------------------------------------------------
\* The shapes of a step.

\* Replacing the record of one request leaves the others as they are.
LEMMA ReplacedRequest ==
    ASSUME TxInv, NEW r \in Requests, NEW next, request' = [request EXCEPT ![r] = next]
    PROVE  OthersWait(r) /\ request'[r] = next
<1>1. DOMAIN request = Requests /\ \A q \in Requests : DOMAIN request[q] = Fields
  BY DEF TxInv, RequestInv, Formed
<1> QED BY <1>1 DEF OthersWait, Waits, Keeps

\* A change of one request's step leaves its other fields and the others.
LEMMA MovedRequest ==
    ASSUME TxInv, NEW r \in Requests, NEW next, request' = [request EXCEPT ![r].at = next]
    PROVE  /\ OthersWait(r) /\ Keeps(r)
           /\ request'[r].at = next /\ request'[r].now = request[r].now
<1>1. DOMAIN request = Requests /\ \A q \in Requests : DOMAIN request[q] = Fields
  BY DEF TxInv, RequestInv, Formed
<1>2. OthersWait(r)
  BY <1>1 DEF OthersWait, Waits, Keeps
<1>3. request'[r] = [request[r] EXCEPT !.at = next]
  BY <1>1
<1> QED BY <1>1, <1>2, <1>3 DEF Keeps, Fields

\* What AfterCommit does to the requests and to the lock.
LEMMA CommittedRequest ==
    ASSUME TxInv, NEW r \in Requests, NEW next, AfterCommit(r, next)
    PROVE  /\ OthersWait(r) /\ request'[r] = next /\ writer' = NoRequest
           /\ \A q \in Requests \ {r} : request[q].at = "upgrade" => request'[q].moved
<1>1. \A q \in Requests : DOMAIN request[q] = Fields
  BY DEF TxInv, RequestInv, Formed
<1>2. /\ DOMAIN request' = Requests /\ request'[r] = next /\ writer' = NoRequest
  BY DEF AfterCommit
<1>3. ASSUME NEW q \in Requests \ {r}
      PROVE  Waits(q) /\ (request[q].at = "upgrade" => request'[q].moved)
  <2>1. request'[q] = [request[q] EXCEPT !.moved = @ \/ request[q].at = "upgrade"]
    BY DEF AfterCommit
  <2>2. DOMAIN request[q] = Fields
    BY <1>1
  <2>3. Keeps(q) /\ request'[q].at = request[q].at /\ request'[q].now = request[q].now
        /\ request'[q].release = request[q].release
    BY <2>1, <2>2 DEF Keeps, Fields
  <2> DEFINE moved == request[q].moved \/ request[q].at = "upgrade"
  <2>4. ASSUME moved PROVE request'[q].moved
    <3>1. moved = TRUE
      BY <2>4
    <3>2. request'[q] = [request[q] EXCEPT !.moved = TRUE]
      BY <2>1, <3>1, Zenon DEF moved
    <3> QED BY <2>2, <3>2 DEF Fields
  <2> QED BY <2>3, <2>4 DEF Waits
<1> QED BY <1>2, <1>3 DEF OthersWait

\* What is known of the writer.
LEMMA WriterFacts ==
    ASSUME TxInv, NEW r \in Requests, writer = r
    PROVE  /\ request[r].at \in LockedSteps /\ Pending(r) /\ Formed(r) /\ FreshIsFree(r)
           /\ DraftMatches(r) /\ request[r].at \notin ReadSteps /\ request[r].now \in Instants
           /\ TypeOK
<1>1. request[r].at \in LockedSteps /\ RequestInv(r) /\ DraftMatches(r)
  BY DEF TxInv, WriterIsLocked
<1>2. Pending(r) /\ request[r].at \notin ReadSteps
  BY <1>1 DEF Pending, LockedSteps, ExecutionSteps, ResetSteps, CreationSteps, ReadSteps
<1>3. TypeOK
  BY DEF TxInv, TablesInv, LifecycleInv, RecoveryInv
<1>4. request[r].now \in Instants
  BY <1>1, <1>2, <1>3, StoreAssumption DEF RequestInv, Formed, Instants, TypeOK
<1> QED BY <1>1, <1>2, <1>3, <1>4 DEF RequestInv

\* A refusal rolls back and frees the lock.
LEMMA RefuseStep ==
    ASSUME TxInv, NEW r \in Requests, writer = r, NEW error, Refuse(r, error)
    PROVE  StoreStep
<1>1. OthersWait(r) /\ request'[r] = Answered(r, error) /\ writer' = NoRequest
  BY ReplacedRequest DEF Refuse
<1>3. Ended(r)
  BY <1>1, WriterFacts, AnswerEnds
<1>4. request'[r].at \notin LockedSteps
  BY <1>3, EndedInv
<1>5. WriterIsLocked' /\ UNCHANGED storeVars
  BY <1>1, <1>4, LockReleased DEF Refuse
<1>6. ~(request'[r].at = "upgrade")
  BY <1>3 DEF Ended
<1> QED BY <1>1, <1>3, <1>5, <1>6, UnwrittenStep DEF Continues

\* A statement that writes the draft its step stands for.
LEMMA WriteStep ==
    ASSUME TxInv, NEW r \in Requests, writer = r, NEW next \in LockedSteps, NEW written,
           Write(r, next, written), request[r].op \in OpsAt(next), DraftMatches(r)'
    PROVE  StoreStep
<1>1. OthersWait(r) /\ Keeps(r) /\ request'[r].at = next /\ request'[r].now = request[r].now
  BY MovedRequest DEF Write
<1>2. GoesOn(r)
  BY <1>1, WriterFacts DEF GoesOn, Keeps
<1>3. WriterIsLocked' /\ UNCHANGED storeVars
  BY <1>1, LockHeld DEF Write
<1>4. next # "upgrade"
  BY DEF LockedSteps, ExecutionSteps, ResetSteps, CreationSteps
<1> QED BY <1>1, <1>2, <1>3, <1>4, UnwrittenStep DEF Continues

\* A COMMIT that ends its request with an answer.
LEMMA AnsweredCommit ==
    ASSUME TxInv, NEW r \in Requests, writer = r, Commits(r), NEW answer,
           AfterCommit(r, Answered(r, answer))
    PROVE  StoreStep
<1>1. /\ OthersWait(r) /\ request'[r] = Answered(r, answer) /\ writer' = NoRequest
      /\ \A q \in Requests \ {r} : request[q].at = "upgrade" => request'[q].moved
  BY CommittedRequest
<1>3. Ended(r)
  BY <1>1, WriterFacts, AnswerEnds
<1> QED BY <1>1, <1>3, EndedInv, CommitStep DEF Continues

-----------------------------------------------------------------------------
\* The steps that need no lock.

\* A request without the lock that is answered.
LEMMA AnswerStep ==
    ASSUME TxInv, NEW r \in Requests, Pending(r), request[r].at \notin LockedSteps,
           NEW answer, NEW seen,
           NEW next \in {Answered(r, answer), [Answered(r, answer) EXCEPT !.seen = seen]},
           Advance(r, next)
    PROVE  StoreStep
<1>1. OthersWait(r) /\ request'[r] = next
  BY ReplacedRequest DEF Advance
<1>2. Ended(r)
  BY <1>1, AnswerEnds
<1>3. request'[r].at \notin LockedSteps
  BY <1>2, EndedInv
<1>4. request'[r].at # "upgrade"
  BY <1>2 DEF Ended
<1> QED BY <1>1, <1>2, <1>3, <1>4, FreeStep DEF Advance, Continues

\* A request that reads goes on to the next query or to the wait for the lock.
LEMMA ReadsOn ==
    ASSUME TxInv, NEW r \in Requests, request[r].at \in ReadSteps \cup {"check", "open"},
           NEW next, Advance(r, next), DOMAIN next = Fields,
           next.op = request[r].op, next.session = request[r].session,
           next.plan = request[r].plan, next.fresh = request[r].fresh,
           next.now \in {request[r].now, clock},
           next.at \in ReadSteps \cup {"lock", "upgrade"}, next.op \in OpsAt(next.at),
           next.at = "lock" => request[r].op = "create",
           next.at = "upgrade" => /\ request[r].at = "open"
                                  /\ LockActive(next.session, next.now)
                                  /\ next.release = production[next.session].release
    PROVE  StoreStep
<1>1. OthersWait(r) /\ request'[r] = next
  BY ReplacedRequest DEF Advance
<1>2. Pending(r) /\ request[r].at \notin LockedSteps /\ next.at \notin LockedSteps
  BY DEF Pending, ReadSteps, LockedSteps, ExecutionSteps, ResetSteps, CreationSteps
<1>3. GoesOn(r)
  BY <1>1, <1>2 DEF GoesOn, Keeps, ReadSteps
<1>4. ASSUME next.at = "upgrade" PROVE SnapshotIsCurrent(r)'
  <2>1. PICK s, now : s = next.session /\ now = next.now
    OBVIOUS
  <2>2. LockActive(s, now)'
    BY <1>4, <2>1, SameSessions DEF Advance
  <2> QED BY <1>1, <1>4, <2>1, <2>2 DEF SnapshotIsCurrent, Advance, storeVars, tables
<1> QED BY <1>1, <1>2, <1>3, <1>4, FreeStep DEF Advance, Continues

\* A handler that found no session creates one or answers.
LEMMA WithoutSessionStep ==
    ASSUME TxInv, NEW r \in Requests, request[r].at \in ReadSteps, WithoutSession(r)
    PROVE  StoreStep
<1>1. /\ DOMAIN request[r] = Fields /\ request[r].op \in OpsAt(request[r].at)
      /\ Pending(r) /\ request[r].at \notin LockedSteps
  BY DEF TxInv, RequestInv, Formed, Pending, ReadSteps, LockedSteps, ExecutionSteps,
         ResetSteps, CreationSteps
<1>2. CASE request[r].op = "create"
  <2> DEFINE next == [request[r] EXCEPT !.at = "lock", !.now = clock, !.seen = NotSeen]
  <2>1. Advance(r, next)
    BY <1>2 DEF WithoutSession
  <2>2. /\ DOMAIN next = Fields
        /\ next.op = request[r].op /\ next.session = request[r].session
        /\ next.plan = request[r].plan /\ next.fresh = request[r].fresh
        /\ next.now = clock /\ next.at = "lock"
    BY <1>1 DEF Fields
  <2>3. request[r].op \in OpsAt("lock")
    BY <1>2 DEF OpsAt, Operations, ReadSteps, CreationSteps, ResetSteps, ExecutionSteps
  <2> HIDE DEF next
  <2> QED BY <1>2, <2>1, <2>2, <2>3, ReadsOn
<1>3. CASE request[r].op # "create"
  BY <1>1, <1>3, AnswerStep DEF WithoutSession, Answer
<1> QED BY <1>2, <1>3

\* The check of the session and every query of load_snapshot.
LEMMA ReadStep ==
    ASSUME TxInv, NEW r \in Requests, CheckActive(r) \/ ReadSession(r) \/ ReadRow(r)
    PROVE  StoreStep
<1>1. DOMAIN request[r] = Fields /\ request[r].op \in OpsAt(request[r].at)
  BY DEF TxInv, RequestInv, Formed
<1>2. request[r].at \in ReadSteps \cup {"check"}
  BY DEF CheckActive, ReadSession, ReadRow, ReadSteps, NotSeen
<1>3. Pending(r) /\ request[r].at \notin LockedSteps
  BY <1>2 DEF Pending, ReadSteps, LockedSteps, ExecutionSteps, ResetSteps, CreationSteps
<1>4. request[r].op \in {"create", "incident", "reset"}
  BY <1>1, <1>2 DEF OpsAt, ReadSteps, CreationSteps, ResetSteps, ExecutionSteps
<1>5. \A at \in ReadSteps : request[r].op \in OpsAt(at)
  BY <1>4 DEF OpsAt, ReadSteps, CreationSteps, ResetSteps, ExecutionSteps
<1>6. ASSUME NEW at \in ReadSteps, NEW deadline, NEW seen,
             \/ Advance(r, [request[r] EXCEPT !.at = at])
             \/ Advance(r, [request[r] EXCEPT !.at = at, !.deadline = deadline])
             \/ Advance(r, [request[r] EXCEPT !.at = at, !.seen = seen])
      PROVE  StoreStep
  <2>1. PICK next \in {[request[r] EXCEPT !.at = at],
                       [request[r] EXCEPT !.at = at, !.deadline = deadline],
                       [request[r] EXCEPT !.at = at, !.seen = seen]} : Advance(r, next)
    BY <1>6
  <2>2. /\ DOMAIN next = Fields
        /\ next.op = request[r].op /\ next.session = request[r].session
        /\ next.plan = request[r].plan /\ next.fresh = request[r].fresh
        /\ next.now = request[r].now /\ next.at = at
    BY <1>1 DEF Fields
  <2>3. at # "lock" /\ at # "upgrade"
    BY DEF ReadSteps
  <2> QED BY <1>2, <1>5, <2>1, <2>2, <2>3, ReadsOn
<1>7. CASE CheckActive(r)
  <2>1. CASE Advance(r, [request[r] EXCEPT !.at = "session"])
    BY <1>6, <2>1 DEF ReadSteps
  <2>2. CASE Answer(r, "session_not_found")
    BY <1>3, <2>2, AnswerStep DEF Answer
  <2> QED BY <1>7, <2>1, <2>2 DEF CheckActive
<1>8. CASE ReadSession(r)
  <2>1. request[r].at \in ReadSteps /\ NextRead("session") \in ReadSteps
    BY <1>8 DEF ReadSession, NextRead, ReadSteps
  <2>2. CASE Advance(r, [request[r] EXCEPT !.at = NextRead("session"),
                                           !.deadline = SessionExpiry(Shown(r))])
    BY <1>6, <2>1, <2>2
  <2>3. CASE WithoutSession(r)
    BY <2>1, <2>3, WithoutSessionStep
  <2> QED BY <1>8, <2>2, <2>3 DEF ReadSession
<1>9. CASE ReadRow(r)
  <2> DEFINE seen == [request[r].seen EXCEPT ![request[r].at] = RowSeen(Shown(r), request[r].at)]
  <2>1. /\ request[r].at \in ReadSteps
        /\ NextRead(request[r].at) # "done" => NextRead(request[r].at) \in ReadSteps
    BY <1>9 DEF ReadRow, NextRead, ReadSteps, NotSeen
  <2>2. \/ Answer(r, "row_missing")
        \/ FinishSnapshot(r, seen)
        \/ /\ NextRead(request[r].at) # "done"
           /\ Advance(r, [request[r] EXCEPT !.at = NextRead(request[r].at), !.seen = seen])
    BY <1>9 DEF ReadRow
  <2> HIDE DEF seen
  <2>3. CASE Answer(r, "row_missing")
    BY <1>3, <2>3, AnswerStep DEF Answer
  <2>4. CASE FinishSnapshot(r, seen)
    <3>1. CASE WithoutSession(r)
      BY <2>1, <3>1, WithoutSessionStep
    <3>2. CASE Advance(r, [Answered(r, "ok") EXCEPT !.seen = seen])
      BY <1>3, <3>2, AnswerStep
    <3> QED BY <2>4, <3>1, <3>2 DEF FinishSnapshot
  <2>5. CASE /\ NextRead(request[r].at) # "done"
             /\ Advance(r, [request[r] EXCEPT !.at = NextRead(request[r].at), !.seen = seen])
    BY <1>6, <2>1, <2>5
  <2> QED BY <2>2, <2>3, <2>4, <2>5
<1> QED BY <1>7, <1>8, <1>9

\* A wait that runs into its timeout is an answer.
LEMMA TimeOutStep ==
    ASSUME TxInv, NEW r \in Requests, TimeOut(r)
    PROVE  StoreStep
<1>1. Pending(r) /\ request[r].at \notin LockedSteps
  BY DEF TimeOut, TimesOut, NotSeen, Pending, LockedSteps, ExecutionSteps, ResetSteps,
         CreationSteps
<1> QED BY <1>1, AnswerStep DEF TimeOut, Answer

\* The diagnostic's read takes a snapshot of what is committed.
LEMMA OpenStep ==
    ASSUME TxInv, NEW r \in Requests, OpenDiagnostic(r)
    PROVE  StoreStep
<1>1. /\ DOMAIN request[r] = Fields /\ request[r].op = "diagnostic"
      /\ Pending(r) /\ request[r].at \notin LockedSteps
  BY DEF TxInv, RequestInv, Formed, OpenDiagnostic, OpsAt, Pending, ReadSteps, LockedSteps,
         ExecutionSteps, ResetSteps, CreationSteps
<1>2. CASE LockActive(request[r].session, request[r].now)
  <2> DEFINE next == [request[r] EXCEPT !.at = "upgrade",
                                        !.release = production[request[r].session].release]
  <2>1. Advance(r, next)
    BY <1>2 DEF OpenDiagnostic
  <2>2. /\ DOMAIN next = Fields
        /\ next.op = request[r].op /\ next.session = request[r].session
        /\ next.plan = request[r].plan /\ next.fresh = request[r].fresh
        /\ next.now = request[r].now /\ next.at = "upgrade"
        /\ next.release = production[request[r].session].release
    BY <1>1 DEF Fields
  <2>3. request[r].op \in OpsAt("upgrade") /\ request[r].at = "open"
    BY <1>1 DEF OpenDiagnostic, OpsAt, ReadSteps, CreationSteps, ResetSteps, ExecutionSteps
  <2> HIDE DEF next
  <2> QED BY <1>2, <2>1, <2>2, <2>3, ReadsOn
<1>3. CASE ~LockActive(request[r].session, request[r].now)
  BY <1>1, <1>3, AnswerStep DEF OpenDiagnostic, Answer
<1> QED BY <1>2, <1>3

-----------------------------------------------------------------------------
\* The steps that take the writer lock.

\* The operation of a request at each of its steps.
LEMMA OperationsAt ==
    /\ OpsAt("idle") = {"none"} /\ OpsAt("check") = {"incident"}
    /\ OpsAt("lock") = Operations \ {"incident", "diagnostic"}
    /\ OpsAt("begun") = Operations \ {"incident", "diagnostic", "create"}
    /\ OpsAt("prepared") = {"prepare"}
    /\ OpsAt("upgrade") = {"diagnostic"} /\ OpsAt("checked") = {"diagnostic"}
    /\ \A at \in ExecutionSteps : OpsAt(at) = {"execute"}
    /\ \A at \in ResetSteps : OpsAt(at) = {"reset"}
    /\ \A at \in CreationSteps : OpsAt(at) = {"create"}
    /\ \A at \in ReadSteps : OpsAt(at) = {"create", "incident", "reset"}
<1> USE DEF OpsAt, ReadSteps, CreationSteps, ResetSteps, ExecutionSteps
<1>1. /\ OpsAt("idle") = {"none"} /\ OpsAt("check") = {"incident"}
      /\ OpsAt("lock") = Operations \ {"incident", "diagnostic"}
      /\ OpsAt("begun") = Operations \ {"incident", "diagnostic", "create"}
      /\ OpsAt("prepared") = {"prepare"}
      /\ OpsAt("upgrade") = {"diagnostic"} /\ OpsAt("checked") = {"diagnostic"}
  OBVIOUS
<1>2. \A at \in ExecutionSteps : OpsAt(at) = {"execute"}
  OBVIOUS
<1>3. \A at \in ResetSteps : OpsAt(at) = {"reset"}
  OBVIOUS
<1>4. \A at \in CreationSteps : OpsAt(at) = {"create"}
  OBVIOUS
<1>5. \A at \in ReadSteps : OpsAt(at) = {"create", "incident", "reset"}
  OBVIOUS
<1> QED BY <1>1, <1>2, <1>3, <1>4, <1>5

\* A request that takes the lock with a draft that matches its step.
LEMMA TakesLock ==
    ASSUME TxInv, NEW r \in Requests, Pending(r), request[r].at \notin ReadSteps,
           writer = NoRequest, NEW next \in LockedSteps,
           request' = [request EXCEPT ![r].at = next], writer' = r, UNCHANGED storeVars,
           request[r].op \in OpsAt(next), DraftMatches(r)'
    PROVE  StoreStep
<1>1. OthersWait(r) /\ Keeps(r) /\ request'[r].at = next /\ request'[r].now = request[r].now
  BY MovedRequest
<1>2. GoesOn(r)
  BY <1>1 DEF GoesOn, Keeps
<1>3. WriterIsLocked'
  BY <1>1, LockHeld
<1>4. next # "upgrade"
  BY DEF LockedSteps, ExecutionSteps, ResetSteps, CreationSteps
<1> QED BY <1>1, <1>2, <1>3, <1>4, UnwrittenStep DEF Continues

\* The first statement of every write takes the lock.
LEMMA TakeWriterLockStep ==
    ASSUME TxInv, NEW r \in Requests, TakeWriterLock(r)
    PROVE  StoreStep
<1>1. /\ Pending(r) /\ request[r].at \notin ReadSteps /\ TypeOK
      /\ DOMAIN request = Requests /\ DOMAIN request[r] = Fields
      /\ request[r].op \in Operations \ {"incident", "diagnostic"}
  BY OperationsAt DEF TakeWriterLock, TxInv, TablesInv, LifecycleInv, RecoveryInv, RequestInv,
                      Formed, Pending, ReadSteps
<1>2. Matches(draft', Committed)
  BY DEF TakeWriterLock, Matches, Committed, Tables
<1>3. CASE request[r].op = "create"
  <2>1. request' = [request EXCEPT ![r].at = "executions"]
    BY <1>3 DEF TakeWriterLock
  <2>2. PICK fresh, now : fresh = request[r].fresh /\ now = request[r].now
    OBVIOUS
  <2>3. Matches(draft', CreationTables(fresh, now, "executions"))
    BY <1>1, <1>2, CreationBegins DEF Matches, Committed
  <2>4. CreationTables(fresh, now, "executions")' = CreationTables(fresh, now, "executions")
    BY SameCreation DEF TakeWriterLock
  <2>5. /\ request'[r].at = "executions" /\ request'[r].fresh = fresh
        /\ request'[r].now = now
    BY <1>1, <2>1, <2>2 DEF Fields
  <2>6. DraftMatches(r)'
    BY <2>3, <2>4, <2>5
       DEF DraftMatches, DraftIs, ExecutionSteps, ResetSteps, Matches
  <2>7. "executions" \in LockedSteps /\ request[r].op \in OpsAt("executions")
    BY <1>3, OperationsAt DEF LockedSteps, CreationSteps
  <2> QED BY <1>1, <2>1, <2>6, <2>7, TakesLock DEF TakeWriterLock
<1>4. CASE request[r].op # "create"
  <2>1. request' = [request EXCEPT ![r].at = "begun"]
    BY <1>4 DEF TakeWriterLock
  <2>2. request'[r].at = "begun"
    BY <1>1, <2>1 DEF Fields
  <2>3. Matches(draft, Committed)'
    BY <1>2, SameSessions DEF TakeWriterLock, Matches
  <2>4. DraftMatches(r)'
    BY <2>2, <2>3
       DEF DraftMatches, DraftIs, ExecutionSteps, ResetSteps, CreationSteps
  <2>5. "begun" \in LockedSteps /\ request[r].op \in OpsAt("begun")
    BY <1>1, <1>4, OperationsAt DEF LockedSteps
  <2> QED BY <1>1, <2>1, <2>4, <2>5, TakesLock DEF TakeWriterLock
<1> QED BY <1>3, <1>4

\* The diagnostic's upgrade succeeds only on the newest snapshot.
LEMMA UpgradeStep ==
    ASSUME TxInv, NEW r \in Requests, UpgradeDiagnostic(r)
    PROVE  StoreStep
<1>1. /\ Pending(r) /\ request[r].at \notin ReadSteps /\ request[r].at \notin LockedSteps
      /\ DOMAIN request = Requests /\ DOMAIN request[r] = Fields
      /\ request[r].op = "diagnostic" /\ SnapshotIsCurrent(r)
  BY OperationsAt DEF UpgradeDiagnostic, TxInv, RequestInv, Formed, Pending, ReadSteps,
                      LockedSteps, ExecutionSteps, ResetSteps, CreationSteps
<1>2. CASE CanUpgrade(r)
  <2>1. PICK s, fresh, now :
          s = request[r].session /\ fresh = request[r].fresh /\ now = request[r].now
    OBVIOUS
  <2>2. /\ request' = [request EXCEPT ![r].at = "checked"]
        /\ writer = NoRequest /\ writer' = r /\ UNCHANGED storeVars
        /\ draft' = [Committed EXCEPT !.diagnostic[fresh] =
                       [DiagnosticRow(s, request[r].release, NoPlan) EXCEPT !.since = clock]]
    BY <1>2, <2>1 DEF UpgradeDiagnostic, CanUpgrade
  <2>3. LockActive(s, now) /\ request[r].release = production[s].release
    BY <1>1, <1>2, <2>1 DEF SnapshotIsCurrent, CanUpgrade, UpgradeDiagnostic
  <2>4. [DiagnosticRow(s, request[r].release, NoPlan) EXCEPT !.since = clock] =
        DiagnosticRow(s, production[s].release, NoPlan)
    BY <2>3 DEF DiagnosticRow
  <2>5. Matches(draft', DiagnosticTables(s, fresh))
    BY <2>2, <2>4 DEF Matches, DiagnosticTables, Committed, Tables
  <2>6. /\ DiagnosticTables(s, fresh)' = DiagnosticTables(s, fresh)
        /\ LockActive(s, now)'
    BY <2>2, <2>3, SameSessions DEF DiagnosticTables, DiagnosticRow, storeVars, tables
  <2>7. /\ request'[r].at = "checked" /\ request'[r].session = s
        /\ request'[r].fresh = fresh /\ request'[r].now = now
    BY <1>1, <2>1, <2>2 DEF Fields
  <2>8. DraftMatches(r)'
    BY <2>5, <2>6, <2>7
       DEF DraftMatches, DraftIs, ExecutionSteps, ResetSteps, CreationSteps, Matches
  <2>9. "checked" \in LockedSteps /\ request[r].op \in OpsAt("checked")
    BY <1>1, OperationsAt DEF LockedSteps
  <2> QED BY <1>1, <2>2, <2>8, <2>9, TakesLock
<1>3. CASE ~CanUpgrade(r)
  BY <1>1, <1>3, AnswerStep DEF UpgradeDiagnostic, Answer
<1> QED BY <1>2, <1>3

-----------------------------------------------------------------------------
\* The statements under the writer lock.

\* What the invariant says of the request that holds the lock.
LEMMA StatementFacts ==
    ASSUME TxInv, NEW r \in Requests, writer = r
    PROVE  \E s, p, fresh : \E now \in Instants :
             /\ s = request[r].session /\ p = request[r].plan
             /\ fresh = request[r].fresh /\ now = request[r].now
             /\ DraftIs(request[r].at, s, p, fresh, now)
             /\ request[r].op # "create" => s \in Sessions
             /\ OnPlan(request[r].op) => p \in Plans /\ plan[p].since <= now
             /\ request[r].op \in {"create", "reset"} =>
                  fresh \in Sessions /\ session[fresh].status = "absent"
             /\ request[r].op \in {"diagnostic", "execute"} =>
                  fresh \in Diagnostics /\ diagnostic[fresh].session = NoSession
             /\ request[r].op = "prepare" => fresh \in Plans /\ plan[fresh].session = NoSession
<1>1. /\ Pending(r) /\ Formed(r) /\ FreshIsFree(r) /\ DraftMatches(r)
      /\ request[r].at \notin ReadSteps /\ request[r].now \in Instants
      /\ request[r].at \in LockedSteps
  BY WriterFacts
<1>2. PICK s, p, fresh : \E now \in Instants :
        /\ s = request[r].session /\ p = request[r].plan
        /\ fresh = request[r].fresh /\ now = request[r].now
  BY <1>1
<1>3. PICK now \in Instants : now = request[r].now
  BY <1>1
<1>4. /\ s = request[r].session /\ p = request[r].plan /\ fresh = request[r].fresh
  BY <1>2
<1>5. request[r].op # "incident"
  BY <1>1 DEF Formed, OpsAt, LockedSteps, ReadSteps, ExecutionSteps, ResetSteps, CreationSteps,
              Operations
<1>6. /\ request[r].op # "create" => s \in Sessions
      /\ OnPlan(request[r].op) => p \in Plans
  BY <1>1, <1>4, <1>5 DEF Formed
<1>7. OnPlan(request[r].op) => plan[p].since <= now
  BY <1>1, <1>3, <1>4 DEF TxInv, RequestInv, PlanIsKnown
<1>8. /\ request[r].op \in {"create", "reset"} =>
           fresh \in Sessions /\ session[fresh].status = "absent"
      /\ request[r].op \in {"diagnostic", "execute"} =>
           fresh \in Diagnostics /\ diagnostic[fresh].session = NoSession
      /\ request[r].op = "prepare" => fresh \in Plans /\ plan[fresh].session = NoSession
  BY <1>1, <1>4 DEF FreshIsFree, MintsSession, MintsDiagnostic, MintsPlan
<1>9. DraftIs(request[r].at, s, p, fresh, now)
  BY <1>1, <1>3, <1>4 DEF DraftMatches
<1> QED BY <1>3, <1>4, <1>6, <1>7, <1>8, <1>9

\* A statement that leaves the draft in the form of the next step.
LEMMA StatementStep ==
    ASSUME TxInv, NEW r \in Requests, writer = r, NEW next \in LockedSteps, NEW written,
           Write(r, next, written), request[r].op \in OpsAt(next),
           NEW s, NEW p, NEW fresh, NEW now,
           s = request[r].session, p = request[r].plan, fresh = request[r].fresh,
           now = request[r].now, DraftIs(next, s, p, fresh, now)'
    PROVE  StoreStep
<1>1. Keeps(r) /\ request'[r].at = next /\ request'[r].now = request[r].now
  BY MovedRequest DEF Write
<1>2. DraftMatches(r)'
  BY <1>1 DEF DraftMatches, Keeps
<1> QED BY <1>2, WriteStep

\* The statements of execute_recovery between its claim and its COMMIT.
LEMMA ExecutionStep ==
    ASSUME TxInv, NEW r \in Requests,
           \/ ChangeService(r) \/ ResolveIncident(r) \/ StoreDiagnostic(r)
           \/ StoreExecution(r) \/ CompletePlan(r)
    PROVE  StoreStep
<1>1. writer = r /\ request[r].at \in ExecutionSteps
  BY DEF ChangeService, ResolveIncident, StoreDiagnostic, StoreExecution, CompletePlan, At,
         ExecutionSteps
<1>2. request[r].op = "execute" /\ TypeOK
  BY <1>1, WriterFacts, OperationsAt DEF Formed
<1>3. PICK s, p, d : \E now \in Instants :
        /\ s = request[r].session /\ p = request[r].plan
        /\ d = request[r].fresh /\ now = request[r].now
        /\ DraftIs(request[r].at, s, p, d, now)
        /\ s \in Sessions /\ p \in Plans /\ d \in Diagnostics
  BY <1>1, <1>2, StatementFacts DEF OnPlan
<1>4. PICK now \in Instants :
        /\ s = request[r].session /\ p = request[r].plan
        /\ d = request[r].fresh /\ now = request[r].now
        /\ DraftIs(request[r].at, s, p, d, now)
        /\ s \in Sessions /\ p \in Plans /\ d \in Diagnostics
  BY <1>3
<1>5. /\ ExecuteGuards(s, p, now)
      /\ Matches(draft, ExecutionTables(s, p, d, now, request[r].at))
  BY <1>1, <1>4 DEF DraftIs
<1>6. ASSUME NEW next \in ExecutionSteps, NEW written, Write(r, next, written),
             Matches(written, ExecutionTables(s, p, d, now, next))
      PROVE  StoreStep
  <2>1. /\ ExecuteGuards(s, p, now)'
        /\ ExecutionTables(s, p, d, now, next)' = ExecutionTables(s, p, d, now, next)
    BY <1>5, <1>6, SameExecution DEF Write
  <2>2. Matches(draft, ExecutionTables(s, p, d, now, next))'
    BY <1>6, <2>1 DEF Write, Matches
  <2>3. DraftIs(next, s, p, d, now)'
    BY <2>1, <2>2 DEF DraftIs, ExecutionSteps, ResetSteps, CreationSteps
  <2>4. next \in LockedSteps /\ request[r].op \in OpsAt(next)
    BY <1>2, OperationsAt DEF LockedSteps
  <2> QED BY <1>1, <1>4, <1>6, <2>3, <2>4, StatementStep
<1>7. CASE ChangeService(r)
  <2>1. CASE Write(r, "changed", [draft EXCEPT !.production[s].release = plan[p].target,
                                               !.production[s].health = "healthy"])
    <3>1. Matches([draft EXCEPT !.production[s].release = plan[p].target,
                                !.production[s].health = "healthy"],
                  ExecutionTables(s, p, d, now, "changed"))
      BY <1>2, <1>4, <1>5, <1>7, ExecutionStatements DEF ChangeService, At
    <3> QED BY <1>6, <2>1, <3>1 DEF ExecutionSteps
  <2>2. CASE Refuse(r, "stale_active_release")
    BY <1>1, <2>2, RefuseStep
  <2> QED BY <1>4, <1>7, <2>1, <2>2 DEF ChangeService
<1>8. CASE ResolveIncident(r)
  <2>1. CASE Write(r, "resolved", [draft EXCEPT !.production[s].incident = "resolved"])
    <3>1. Matches([draft EXCEPT !.production[s].incident = "resolved"],
                  ExecutionTables(s, p, d, now, "resolved"))
      BY <1>2, <1>4, <1>5, <1>8, ExecutionStatements DEF ResolveIncident, At
    <3> QED BY <1>6, <2>1, <3>1 DEF ExecutionSteps
  <2>2. CASE Refuse(r, "incident_not_active")
    BY <1>1, <2>2, RefuseStep
  <2> QED BY <1>4, <1>8, <2>1, <2>2 DEF ResolveIncident
<1>9. CASE StoreDiagnostic(r)
  <2> DEFINE written == [draft EXCEPT !.diagnostic[d] = AfterStateDiagnostic(s, p)]
  <2>1. Write(r, "diagnosed", written)
    BY <1>4, <1>9 DEF StoreDiagnostic
  <2>2. Matches(written, ExecutionTables(s, p, d, now, "diagnosed"))
    BY <1>2, <1>4, <1>5, <1>9, ExecutionStatements DEF StoreDiagnostic, At
  <2> QED BY <1>6, <2>1, <2>2 DEF ExecutionSteps
<1>10. CASE StoreExecution(r)
  <2> DEFINE written ==
        [draft EXCEPT !.executions = @ \cup
           {[session |-> s, plan |-> p, previous |-> plan[p].expected,
             current |-> plan[p].target, diagnostic |-> d, executed_at |-> now]}]
  <2>1. Write(r, "stored", written)
    BY <1>4, <1>10 DEF StoreExecution
  <2>2. Matches(written, ExecutionTables(s, p, d, now, "stored"))
    BY <1>2, <1>4, <1>5, <1>10, ExecutionStatements DEF StoreExecution, At
  <2> QED BY <1>6, <2>1, <2>2 DEF ExecutionSteps
<1>11. CASE CompletePlan(r)
  <2> DEFINE written ==
        [draft EXCEPT !.plan[p].state = CompleteExecution(@, now),
                      !.audit = @ \cup Audit(s, "recovery_execution", p, now)]
  <2>1. CASE Write(r, "completed", written)
    <3>1. Matches(written, ExecutionTables(s, p, d, now, "completed"))
      BY <1>2, <1>4, <1>5, <1>11, ExecutionStatements DEF CompletePlan, At
    <3> QED BY <1>6, <2>1, <3>1 DEF ExecutionSteps
  <2>2. CASE Refuse(r, "invalid_transition")
    BY <1>1, <2>2, RefuseStep
  <2> QED BY <1>4, <1>11, <2>1, <2>2 DEF CompletePlan
<1> QED BY <1>7, <1>8, <1>9, <1>10, <1>11

\* The statements of reset_session before its COMMIT.
LEMMA ResetStep ==
    ASSUME TxInv, NEW r \in Requests,
           InsertReplacement(r) \/ InvalidatePlans(r) \/ RecordLineage(r) \/ RevokeOriginal(r)
    PROVE  StoreStep
<1>1. writer = r /\ request[r].at \in ResetSteps \cup {"begun"} /\ request[r].op = "reset"
  <2>1. writer = r /\ request[r].at \in ResetSteps \cup {"begun"}
    BY DEF InsertReplacement, InvalidatePlans, RecordLineage, RevokeOriginal, Begun, At,
           ResetSteps
  <2>2. Formed(r)
    BY <2>1, WriterFacts
  <2>3. request[r].at = "begun" => request[r].op = "reset"
    BY DEF InsertReplacement, InvalidatePlans, RecordLineage, RevokeOriginal, Begun, At
  <2> QED BY <2>1, <2>2, <2>3, OperationsAt DEF Formed
<1>2. TypeOK
  BY <1>1, WriterFacts
<1>3. PICK s, p, fresh : \E now \in Instants :
        /\ s = request[r].session /\ p = request[r].plan
        /\ fresh = request[r].fresh /\ now = request[r].now
        /\ DraftIs(request[r].at, s, p, fresh, now)
        /\ s \in Sessions /\ fresh \in Sessions
  BY <1>1, StatementFacts
<1>4. PICK now \in Instants :
        /\ s = request[r].session /\ p = request[r].plan
        /\ fresh = request[r].fresh /\ now = request[r].now
        /\ DraftIs(request[r].at, s, p, fresh, now)
        /\ s \in Sessions /\ fresh \in Sessions
  BY <1>3
<1>5. /\ request[r].at = "begun" => Matches(draft, Committed)
      /\ request[r].at \in ResetSteps =>
           LockActive(s, now) /\ Matches(draft, ResetTables(s, fresh, now, request[r].at))
  BY <1>4 DEF DraftIs
<1>6. ASSUME NEW next \in ResetSteps, NEW written, Write(r, next, written),
             LockActive(s, now), Matches(written, ResetTables(s, fresh, now, next))
      PROVE  StoreStep
  <2>1. ResetTables(s, fresh, now, next)' = ResetTables(s, fresh, now, next)
    BY <1>6, SameReset DEF Write
  <2>2. Matches(draft, ResetTables(s, fresh, now, next))'
    BY <1>6, <2>1 DEF Write, Matches
  <2>3. LockActive(s, now)'
    BY <1>6, SameSessions DEF Write
  <2>4. DraftIs(next, s, p, fresh, now)'
    BY <2>2, <2>3 DEF DraftIs, ExecutionSteps, ResetSteps, CreationSteps
  <2>5. next \in LockedSteps /\ request[r].op \in OpsAt(next)
    BY <1>1, OperationsAt DEF LockedSteps
  <2> QED BY <1>1, <1>4, <1>6, <2>4, <2>5, StatementStep
<1>7. CASE InsertReplacement(r)
  <2> DEFINE written == [draft EXCEPT !.session[fresh] = LiveSession(now),
                                      !.production[fresh] = SeededProduction]
  <2>1. CASE LockError(r) # "ok"
    BY <1>1, <1>7, <2>1, RefuseStep DEF InsertReplacement
  <2>2. CASE LockError(r) = "ok"
    <3>1. Write(r, "inserted", written)
      BY <1>4, <1>7, <2>2 DEF InsertReplacement
    <3>2. Matches(written, ResetTables(s, fresh, now, "inserted"))
      BY <1>2, <1>4, <1>5, <1>7, ResetStatements DEF InsertReplacement, Begun, At
    <3>3. LockActive(s, now)
      BY <1>4, <2>2 DEF LockError
    <3> QED BY <1>6, <3>1, <3>2, <3>3 DEF ResetSteps
  <2> QED BY <2>1, <2>2
<1>8. CASE InvalidatePlans(r)
  <2> DEFINE written ==
        [draft EXCEPT !.plan = [q \in Plans |->
           IF draft.plan[q].session = s
           THEN [draft.plan[q] EXCEPT !.state = InvalidateRecovery(@)]
           ELSE draft.plan[q]]]
  <2>1. Write(r, "invalidated", written)
    BY <1>4, <1>8 DEF InvalidatePlans
  <2>2. /\ Matches(written, ResetTables(s, fresh, now, "invalidated"))
        /\ LockActive(s, now)
    BY <1>2, <1>4, <1>5, <1>8, ResetStatements DEF InvalidatePlans, At, ResetSteps
  <2> QED BY <1>6, <2>1, <2>2 DEF ResetSteps
<1>9. CASE RecordLineage(r)
  <2> DEFINE written ==
        [draft EXCEPT !.resets = @ \cup {[original |-> s, replacement |-> fresh]}]
  <2>1. Write(r, "lineage", written)
    BY <1>4, <1>9 DEF RecordLineage
  <2>2. Matches(written, ResetTables(s, fresh, now, "lineage")) /\ LockActive(s, now)
    BY <1>2, <1>4, <1>5, <1>9, ResetStatements DEF RecordLineage, At, ResetSteps
  <2> QED BY <1>6, <2>1, <2>2 DEF ResetSteps
<1>10. CASE RevokeOriginal(r)
  <2> DEFINE written ==
        [draft EXCEPT !.session[s].status = "revoked",
                      !.audit = @ \cup Audit(s, "session_reset", fresh, now)]
  <2>1. Write(r, "revoked", written)
    BY <1>4, <1>10 DEF RevokeOriginal
  <2>2. Matches(written, ResetTables(s, fresh, now, "revoked")) /\ LockActive(s, now)
    BY <1>2, <1>4, <1>5, <1>10, ResetStatements DEF RevokeOriginal, At, ResetSteps
  <2> QED BY <1>6, <2>1, <2>2 DEF ResetSteps
<1> QED BY <1>7, <1>8, <1>9, <1>10

\* The deletions of create_session, its count and its insert.
LEMMA CreationStep ==
    ASSUME TxInv, NEW r \in Requests, PruneTable(r) \/ InsertSession(r)
    PROVE  StoreStep
<1>1. writer = r /\ request[r].at \in CreationSteps
  BY DEF PruneTable, InsertSession, At, CreationSteps, LockedSteps, TxInv, WriterIsLocked
<1>2. request[r].op = "create" /\ TypeOK
  BY <1>1, WriterFacts, OperationsAt DEF Formed
<1>3. PICK s, p, fresh : \E now \in Instants :
        /\ s = request[r].session /\ p = request[r].plan
        /\ fresh = request[r].fresh /\ now = request[r].now
        /\ DraftIs(request[r].at, s, p, fresh, now)
        /\ fresh \in Sessions
  BY <1>1, <1>2, StatementFacts
<1>4. PICK now \in Instants :
        /\ s = request[r].session /\ p = request[r].plan
        /\ fresh = request[r].fresh /\ now = request[r].now
        /\ DraftIs(request[r].at, s, p, fresh, now)
        /\ fresh \in Sessions
  BY <1>3
<1>5. Matches(draft, CreationTables(fresh, now, request[r].at))
  BY <1>1, <1>4 DEF DraftIs
<1>6. ASSUME NEW next \in CreationSteps, NEW written, Write(r, next, written),
             Matches(written, CreationTables(fresh, now, next)),
             next = "seeded" => HasCapacity(now)
      PROVE  StoreStep
  <2>1. CreationTables(fresh, now, next)' = CreationTables(fresh, now, next)
    BY <1>6, SameCreation DEF Write
  <2>2. Matches(draft, CreationTables(fresh, now, next))'
    BY <1>6, <2>1 DEF Write, Matches
  <2>3. next = "seeded" => HasCapacity(now)'
    BY <1>6, SameSessions DEF Write
  <2>4. DraftIs(next, s, p, fresh, now)'
    BY <2>2, <2>3 DEF DraftIs, ExecutionSteps, ResetSteps, CreationSteps
  <2>5. next \in LockedSteps /\ request[r].op \in OpsAt(next)
    BY <1>2, OperationsAt DEF LockedSteps
  <2> QED BY <1>1, <1>4, <1>6, <2>4, <2>5, StatementStep
<1>7. CASE PruneTable(r)
  <2>1. Write(r, NextPruned(request[r].at), Without(request[r].at, Removable(now)))
    BY <1>4, <1>7 DEF PruneTable
  <2>2. request[r].at \in {"executions", "contexts", "plans", "sessions"}
    BY <1>7 DEF PruneTable
  <2>3. /\ NextPruned(request[r].at) \in CreationSteps
        /\ NextPruned(request[r].at) # "seeded"
    BY <2>2 DEF NextPruned, CreationSteps
  <2>4. Matches(Without(request[r].at, Removable(now)),
                CreationTables(fresh, now, NextPruned(request[r].at)))
    <3>1. CASE request[r].at = "executions"
      BY <1>5, <3>1, PruneExecutions DEF NextPruned
    <3>2. CASE request[r].at = "contexts"
      BY <1>2, <1>5, <3>2, PruneContexts DEF NextPruned
    <3>3. CASE request[r].at = "plans"
      BY <1>2, <1>5, <3>3, PrunePlans DEF NextPruned
    <3>4. CASE request[r].at = "sessions"
      BY <1>2, <1>5, <3>4, PruneSessions DEF NextPruned
    <3> QED BY <2>2, <3>1, <3>2, <3>3, <3>4
  <2> QED BY <1>6, <2>1, <2>3, <2>4
<1>8. CASE InsertSession(r)
  <2> DEFINE live == {t \in Sessions : draft.session[t].status = "live"}
             written == [draft EXCEPT !.session[fresh] = LiveSession(now),
                                      !.production[fresh] = SeededProduction]
  <2>1. live = Remaining(now) /\ Matches(written, CreationTables(fresh, now, "seeded"))
    BY <1>2, <1>4, <1>5, <1>8, InsertStatement DEF InsertSession, At
  <2>2. \/ Cardinality(live) >= MaxActiveSessions /\ Refuse(r, "capacity")
        \/ ~(Cardinality(live) >= MaxActiveSessions) /\ Write(r, "seeded", written)
    BY <1>4, <1>8 DEF InsertSession
  <2>3. Cardinality(live) \in Nat
    <3>1. IsFiniteSet(Live) /\ Remaining(now) \subseteq Live
      BY DEF TxInv, TablesInv, CeilingInv, Remaining, Live
    <3> QED BY <2>1, <3>1, FS_Subset, FS_CardinalityType
  <2> HIDE DEF live, written
  <2>4. CASE Refuse(r, "capacity")
    BY <1>1, <2>4, RefuseStep
  <2>5. CASE ~(Cardinality(live) >= MaxActiveSessions) /\ Write(r, "seeded", written)
    <3>1. HasCapacity(now)
      BY <2>1, <2>3, <2>5, StoreAssumption DEF HasCapacity
    <3> QED BY <1>6, <2>1, <2>5, <3>1 DEF CreationSteps
  <2> QED BY <2>2, <2>4, <2>5
<1> QED BY <1>7, <1>8

\* The insert of prepare_recovery is reached only when no check failed.
LEMMA PreparationOk ==
    ASSUME NEW r \in Requests, NEW target, NEW refs, NEW reason,
           PreparationError(r, target, refs, reason) = "ok"
    PROVE  PrepareGuards(request[r].session, target, refs, reason, request[r].fresh,
                         request[r].now)
<1> DEFINE s == request[r].session
           now == request[r].now
           invalid == PrepareError(PreparedCommand(s, request[r].fresh, target, reason, now),
                                   EvidenceList(s, refs))
           checks == << <<LockError(r) # "ok", LockError(r)>>,
                        <<production[s].incident # "active", "invalid_transition">>,
                        <<\E i \in DOMAIN refs : ~Resolves(s, refs[i], now),
                          "unresolved_evidence">>,
                        <<~(ActivePlans(s) \subseteq OverduePlans(s, now)), "active_exists">>,
                        <<invalid # "ok", invalid>> >>
<1>1. FirstFailure(checks) = "ok"
  BY DEF PreparationError
<1>2. DOMAIN checks = 1 .. 5
  OBVIOUS
<1>3. /\ checks[1][1] <=> LockError(r) # "ok"
      /\ checks[2][1] <=> production[s].incident # "active"
      /\ checks[3][1] <=> \E i \in DOMAIN refs : ~Resolves(s, refs[i], now)
      /\ checks[4][1] <=> ~(ActivePlans(s) \subseteq OverduePlans(s, now))
      /\ checks[5][1] <=> invalid # "ok"
  BY Zenon
<1>4. /\ checks[1][2] = LockError(r) /\ checks[2][2] = "invalid_transition"
      /\ checks[3][2] = "unresolved_evidence" /\ checks[4][2] = "active_exists"
      /\ checks[5][2] = invalid
  OBVIOUS
<1> HIDE DEF checks, invalid
<1>5. \A i \in 1 .. 5 : checks[i][1] => checks[i][2] # "ok"
  BY <1>3, <1>4
<1>6. \A i \in 1 .. 5 : ~checks[i][1]
  BY <1>1, <1>2, <1>5, FirstFailureOk
<1>7. /\ LockError(r) = "ok" /\ production[s].incident = "active"
      /\ \A i \in DOMAIN refs : Resolves(s, refs[i], now)
      /\ ActivePlans(s) \subseteq OverduePlans(s, now)
      /\ invalid = "ok"
  BY <1>3, <1>6
<1>8. LockActive(s, now)
  BY <1>7 DEF LockError
<1> QED BY <1>7, <1>8 DEF PrepareGuards, invalid

\* The writes of prepare_recovery before its COMMIT.
LEMMA InsertPlanStep ==
    ASSUME TxInv, NEW r \in Requests, InsertPlan(r)
    PROVE  StoreStep
<1>1. writer = r /\ request[r].at = "begun" /\ request[r].op = "prepare"
  BY DEF InsertPlan, Begun, At
<1>2. PICK s, q, p : \E now \in Instants :
        /\ s = request[r].session /\ q = request[r].plan
        /\ p = request[r].fresh /\ now = request[r].now
        /\ DraftIs(request[r].at, s, q, p, now)
  BY <1>1, StatementFacts
<1>3. PICK now \in Instants :
        /\ s = request[r].session /\ q = request[r].plan
        /\ p = request[r].fresh /\ now = request[r].now
        /\ DraftIs(request[r].at, s, q, p, now)
  BY <1>2
<1>4. Matches(draft, Committed)
  BY <1>1, <1>3 DEF DraftIs
<1> DEFINE Written(target, refs, reason) ==
      [draft EXCEPT !.plan = [Expire(OverduePlans(s, now), now) EXCEPT
                                ![p] = PreparedRow(PreparedSpec(s, p, target, refs, reason, now),
                                                   refs)],
                    !.audit = @ \cup ExpiredAudit(s, OverduePlans(s, now), now)
                                \cup Audit(s, "recovery_prepared", p, now)]
<1>5. PICK target \in Releases, refs \in RefLists, reason \in Reasons :
        \/ \E error : Refuse(r, error)
        \/ /\ PreparationError(r, target, refs, reason) = "ok"
           /\ Write(r, "prepared", Written(target, refs, reason))
  BY <1>3 DEF InsertPlan
<1>6. CASE \E error : Refuse(r, error)
  BY <1>1, <1>6, RefuseStep
<1>7. CASE /\ PreparationError(r, target, refs, reason) = "ok"
           /\ Write(r, "prepared", Written(target, refs, reason))
  <2>1. PrepareGuards(s, target, refs, reason, p, now)
    BY <1>3, <1>7, PreparationOk
  <2>2. Matches(Written(target, refs, reason),
                PreparationTables(s, target, refs, reason, p, now))
    BY <1>4 DEF Matches, PreparationTables, Committed, Tables
  <2>3. /\ PrepareGuards(s, target, refs, reason, p, now)'
        /\ PreparationTables(s, target, refs, reason, p, now)' =
           PreparationTables(s, target, refs, reason, p, now)
    BY <1>7, <2>1, SamePreparation DEF Write
  <2> HIDE DEF Written
  <2>4. Matches(draft, PreparationTables(s, target, refs, reason, p, now))'
    BY <1>7, <2>2, <2>3 DEF Write, Matches
  <2>5. DraftIs("prepared", s, q, p, now)'
    BY <2>3, <2>4 DEF DraftIs, ExecutionSteps, ResetSteps, CreationSteps
  <2>6. "prepared" \in LockedSteps /\ request[r].op \in OpsAt("prepared")
    BY <1>1, OperationsAt DEF LockedSteps
  <2> QED BY <1>1, <1>3, <1>7, <2>5, <2>6, StatementStep
<1> QED BY <1>5, <1>6, <1>7

\* What the writer learnt from a plan it could load.
LEMMA PlanIsLocked ==
    ASSUME TxInv, NEW r \in Requests, writer = r, OnPlan(request[r].op), PlanError(r) = "ok"
    PROVE  Locked(request[r].session, request[r].plan, request[r].now)
<1>1. LockError(r) = "ok" /\ plan[request[r].plan].session = request[r].session
  BY DEF PlanError
<1>2. LockActive(request[r].session, request[r].now)
  BY <1>1 DEF LockError
<1>3. /\ request[r].plan \in Plans /\ request[r].session \in Sessions
      /\ plan[request[r].plan].since <= request[r].now
  BY WriterFacts DEF Formed, TxInv, RequestInv, PlanIsKnown, OnPlan
<1>4. Loads(request[r].plan)
  BY <1>1, <1>3, StoreAssumption DEF TxInv, TablesInv, LifecycleInv, PlansReload, Exists
<1>5. request[r].now >= plan[request[r].plan].since
  <2>1. request[r].now \in Nat /\ plan[request[r].plan].since \in Nat
    BY <1>3, WriterFacts DEF TypeOK, PlanType, Instants
  <2> QED BY <1>3, <2>1
<1> QED BY <1>1, <1>2, <1>4, <1>5 DEF Locked

-----------------------------------------------------------------------------
\* The COMMITs.

\* A step that changes of a plan its state at most makes no row appear.
LEMMA QuietMints ==
    ASSUME NEW r \in Requests, session' = session, diagnostic' = diagnostic,
           \A p \in Plans :
             plan'[p].session = plan[p].session /\ plan'[p].since = plan[p].since
    PROVE  Mints(r)
<1>1. \A s \in Sessions : RequestedDiagnostics(s)' = RequestedDiagnostics(s)
  BY DEF RequestedDiagnostics
<1> QED BY <1>1 DEF Mints

\* A commit that changes states of plans alone uses up no fresh id.
LEMMA StatesMint ==
    ASSUME TypeOK, NEW r \in Requests, session' = session, diagnostic' = diagnostic,
           NEW states,
           \/ plan' = [p \in Plans |-> IF p \in DOMAIN states
                                       THEN [plan[p] EXCEPT !.state = states[p]] ELSE plan[p]]
           \/ \E p \in Plans : \E state : plan' = [plan EXCEPT ![p].state = state]
           \/ plan' = plan
    PROVE  Mints(r)
<1>1. \A p \in Plans : plan[p] \in PlanType
  BY DEF TypeOK
<1>2. \A p \in Plans : plan'[p].session = plan[p].session /\ plan'[p].since = plan[p].since
  BY <1>1 DEF TypeOK, PlanType
<1> QED BY <1>2, QuietMints

\* current_recovery commits an expiry, or nothing.
LEMMA CurrentStep ==
    ASSUME TxInv, NEW r \in Requests, Current(r)
    PROVE  StoreStep
<1>1. writer = r /\ request[r].at = "begun" /\ request[r].op = "current"
  BY DEF Current, Begun, At
<1>2. PICK s, p, fresh : \E now \in Instants :
        s = request[r].session /\ now = request[r].now /\ s \in Sessions
  BY <1>1, StatementFacts
<1>3. PICK now \in Instants :
        s = request[r].session /\ now = request[r].now /\ s \in Sessions
  BY <1>2
<1>4. CASE LockError(r) = "ok"
  <2>1. CurrentRecovery(s, now) /\ AfterCommit(r, Answered(r, "ok"))
    BY <1>3, <1>4 DEF Current, Done
  <2>2. Next /\ clock' = clock
    BY <1>3, <2>1 DEF Next, Operation, CurrentRecovery
  <2>3. Mints(r)
    <3>1. /\ session' = session /\ diagnostic' = diagnostic
          /\ plan' = Expire(OverduePlans(s, now), now)
      BY <2>1 DEF CurrentRecovery
    <3> DEFINE states == [x \in OverduePlans(s, now) |->
                            ExpireRecovery(LoadedSpec(x), plan[x].state, now)]
    <3>2. DOMAIN states = OverduePlans(s, now)
      OBVIOUS
    <3>3. plan' = [x \in Plans |-> IF x \in DOMAIN states
                                   THEN [plan[x] EXCEPT !.state = states[x]] ELSE plan[x]]
      BY <3>1 DEF Expire
    <3> HIDE DEF states
    <3> QED BY <1>1, <3>1, <3>3, StatesMint, WriterFacts
  <2> QED BY <1>1, <2>1, <2>2, <2>3, AnsweredCommit DEF Commits
<1>5. CASE LockError(r) # "ok"
  BY <1>1, <1>5, RefuseStep DEF Current
<1> QED BY <1>4, <1>5

\* A late decision or execution.
LEMMA ExpiryStep ==
    ASSUME TxInv, NEW r \in Requests, writer = r, CommitExpiry(r),
           NEW s \in Sessions, NEW p \in Plans, NEW now \in Instants,
           s = request[r].session, p = request[r].plan, now = request[r].now,
           Locked(s, p, now),
           Overdue(LoadedSpec(p), plan[p].state, now) \/ LateExecution(p, now)
    PROVE  StoreStep
<1>1. ExpireInstead(s, p, now) /\ AfterCommit(r, Answered(r, "expired"))
  BY DEF CommitExpiry
<1>2. DecideLate(s, p, now) \/ ExecuteLate(s, p, now)
  BY <1>1 DEF DecideLate, ExecuteLate
<1>3. Next /\ clock' = clock
  BY <1>1, <1>2 DEF Next, Operation, ExpireInstead
<1>4. Mints(r)
  BY <1>1, StatesMint, WriterFacts DEF ExpireInstead
<1> QED BY <1>1, <1>3, <1>4, AnsweredCommit DEF Commits

\* decide_recovery commits the decision, or the expiry it answers with.
LEMMA DecideStep ==
    ASSUME TxInv, NEW r \in Requests, Decide(r)
    PROVE  StoreStep
<1>1. writer = r /\ request[r].at = "begun" /\ request[r].op \in {"approve", "reject"}
  BY DEF Decide, Begun, At
<1>2. OnPlan(request[r].op)
  BY <1>1 DEF OnPlan
<1>3. PICK s, p, fresh : \E now \in Instants :
        /\ s = request[r].session /\ p = request[r].plan /\ now = request[r].now
        /\ s \in Sessions /\ p \in Plans
  BY <1>1, <1>2, StatementFacts
<1>4. PICK now \in Instants :
        /\ s = request[r].session /\ p = request[r].plan /\ now = request[r].now
        /\ s \in Sessions /\ p \in Plans
  BY <1>3
<1>5. PICK decision \in Decisions :
        \/ \E error : Refuse(r, error)
        \/ /\ PlanError(r) = "ok"
           /\ Overdue(LoadedSpec(p), plan[p].state, now)
           /\ CommitExpiry(r)
        \/ /\ PlanError(r) = "ok"
           /\ DecisionError(LoadedSpec(p), plan[p].state, decision, now) = "ok"
           /\ DecideRecovery(s, p, decision, now)
           /\ AfterCommit(r, Answered(r, "ok"))
  BY <1>4 DEF Decide, Done
<1>6. CASE \E error : Refuse(r, error)
  BY <1>1, <1>6, RefuseStep
<1>7. CASE /\ PlanError(r) = "ok"
           /\ Overdue(LoadedSpec(p), plan[p].state, now)
           /\ CommitExpiry(r)
  <2>1. Locked(s, p, now)
    BY <1>1, <1>2, <1>4, <1>7, PlanIsLocked
  <2> QED BY <1>1, <1>4, <1>7, <2>1, ExpiryStep
<1>8. CASE /\ DecideRecovery(s, p, decision, now)
           /\ AfterCommit(r, Answered(r, "ok"))
  <2>1. Next /\ clock' = clock
    BY <1>4, <1>8 DEF Next, Operation, DecideRecovery
  <2>2. Mints(r)
    BY <1>1, <1>4, <1>8, StatesMint, WriterFacts DEF DecideRecovery
  <2> QED BY <1>1, <1>8, <2>1, <2>2, AnsweredCommit DEF Commits
<1> QED BY <1>5, <1>6, <1>7, <1>8

\* verify_recovery commits the audit of its outcome.
LEMMA VerifyStep ==
    ASSUME TxInv, NEW r \in Requests, Verify(r)
    PROVE  StoreStep
<1>1. writer = r /\ request[r].at = "begun" /\ request[r].op = "verify"
  BY DEF Verify, Begun, At
<1>2. PICK s, p, fresh : \E now \in Instants :
        /\ s = request[r].session /\ p = request[r].plan /\ now = request[r].now
        /\ s \in Sessions /\ p \in Plans
  BY <1>1, StatementFacts DEF OnPlan
<1>3. PICK now \in Instants :
        /\ s = request[r].session /\ p = request[r].plan /\ now = request[r].now
        /\ s \in Sessions /\ p \in Plans
  BY <1>2
<1>4. \/ \E error : Refuse(r, error)
      \/ VerifyRecovery(s, p, now) /\ AfterCommit(r, Answered(r, "ok"))
  BY <1>3 DEF Verify, Done
<1>5. CASE \E error : Refuse(r, error)
  BY <1>1, <1>5, RefuseStep
<1>6. CASE VerifyRecovery(s, p, now) /\ AfterCommit(r, Answered(r, "ok"))
  <2>1. Next /\ clock' = clock
    BY <1>3, <1>6 DEF Next, Operation, VerifyRecovery
  <2>2. Mints(r)
    BY <1>1, <1>6, StatesMint, WriterFacts DEF VerifyRecovery, recoveryVars
  <2> QED BY <1>1, <1>6, <2>1, <2>2, AnsweredCommit DEF Commits
<1> QED BY <1>4, <1>5, <1>6

\* execute_recovery claims the plan in its draft, or commits the expiry.
LEMMA ClaimStep ==
    ASSUME TxInv, NEW r \in Requests, Claim(r)
    PROVE  StoreStep
<1>1. writer = r /\ request[r].at = "begun" /\ request[r].op = "execute"
  BY DEF Claim, Begun, At
<1>2. OnPlan(request[r].op)
  BY <1>1 DEF OnPlan
<1>3. PICK s, p, d : \E now \in Instants :
        /\ s = request[r].session /\ p = request[r].plan
        /\ d = request[r].fresh /\ now = request[r].now
        /\ DraftIs(request[r].at, s, p, d, now)
        /\ s \in Sessions /\ p \in Plans /\ d \in Diagnostics
  BY <1>1, <1>2, StatementFacts
<1>4. PICK now \in Instants :
        /\ s = request[r].session /\ p = request[r].plan
        /\ d = request[r].fresh /\ now = request[r].now
        /\ DraftIs(request[r].at, s, p, d, now)
        /\ s \in Sessions /\ p \in Plans /\ d \in Diagnostics
  BY <1>3
<1> DEFINE error == ExecutionError(LoadedSpec(p), plan[p].state, ExecutionFacts(s, p), now)
           written == [draft EXCEPT !.plan[p].state = ClaimedState(@)]
<1>5. \/ \E e : Refuse(r, e)
      \/ PlanError(r) = "ok" /\ LateExecution(p, now) /\ CommitExpiry(r)
      \/ /\ PlanError(r) = "ok" /\ ~LateExecution(p, now) /\ error = "ok"
         /\ Write(r, "claimed", written)
  BY <1>4 DEF Claim
<1>6. CASE \E e : Refuse(r, e)
  BY <1>1, <1>6, RefuseStep
<1>7. CASE PlanError(r) = "ok" /\ LateExecution(p, now) /\ CommitExpiry(r)
  <2>1. Locked(s, p, now)
    BY <1>1, <1>2, <1>4, <1>7, PlanIsLocked
  <2> QED BY <1>1, <1>4, <1>7, <2>1, ExpiryStep
<1>8. CASE /\ PlanError(r) = "ok" /\ ~LateExecution(p, now) /\ error = "ok"
           /\ Write(r, "claimed", written)
  <2>1. Locked(s, p, now)
    BY <1>1, <1>2, <1>4, <1>8, PlanIsLocked
  <2>2. ExecuteGuards(s, p, now)
    BY <1>8, <2>1 DEF ExecuteGuards
  <2>3. Matches(written, ExecutionTables(s, p, d, now, "claimed"))
    <3>1. Matches(draft, Committed) /\ TypeOK
      BY <1>1, <1>4, WriterFacts DEF DraftIs
    <3> QED BY <1>4, <3>1, ExecutionStatements
  <2> HIDE DEF written, error
  <2>4. /\ ExecuteGuards(s, p, now)'
        /\ ExecutionTables(s, p, d, now, "claimed")' = ExecutionTables(s, p, d, now, "claimed")
    BY <1>8, <2>2, SameExecution DEF Write
  <2>5. Matches(draft, ExecutionTables(s, p, d, now, "claimed"))'
    BY <1>8, <2>3, <2>4 DEF Write, Matches
  <2>6. DraftIs("claimed", s, p, d, now)'
    BY <2>4, <2>5 DEF DraftIs, ExecutionSteps, ResetSteps, CreationSteps
  <2>7. "claimed" \in LockedSteps /\ request[r].op \in OpsAt("claimed")
    BY <1>1, OperationsAt DEF LockedSteps, ExecutionSteps
  <2> QED BY <1>1, <1>4, <1>8, <2>6, <2>7, StatementStep
<1> QED BY <1>5, <1>6, <1>7, <1>8

\* A COMMIT makes the draft the tables.
LEMMA PublishedTables ==
    ASSUME NEW r \in Requests, NEW next, Publish(r, next), NEW u, Matches(draft, u)
    PROVE  /\ session' = u.session /\ production' = u.production /\ plan' = u.plan
           /\ diagnostic' = u.diagnostic /\ executions' = u.executions
           /\ audit' = u.audit /\ resets' = u.resets
           /\ clock' = clock /\ AfterCommit(r, next)
BY DEF Publish, Matches

\* The COMMIT of prepare_recovery is RecoveryStore's PrepareRecovery.
LEMMA CommitPlanStep ==
    ASSUME TxInv, NEW r \in Requests, CommitPlan(r)
    PROVE  StoreStep
<1>1. writer = r /\ request[r].at = "prepared" /\ Publish(r, Answered(r, "ok"))
  BY DEF CommitPlan, At, Done
<1>2. request[r].op = "prepare" /\ Pending(r) /\ TypeOK
  BY <1>1, WriterFacts, OperationsAt DEF Formed
<1>3. PICK s, q, p : \E now \in Instants :
        /\ s = request[r].session /\ p = request[r].fresh
        /\ DraftIs("prepared", s, q, p, now)
        /\ s \in Sessions /\ p \in Plans /\ plan[p].session = NoSession
  BY <1>1, <1>2, StatementFacts
<1>4. PICK now \in Instants :
        /\ s = request[r].session /\ p = request[r].fresh
        /\ DraftIs("prepared", s, q, p, now)
        /\ s \in Sessions /\ p \in Plans /\ plan[p].session = NoSession
  BY <1>3
<1>5. PICK target \in Releases, refs \in RefLists, reason \in Reasons :
        /\ PrepareGuards(s, target, refs, reason, p, now)
        /\ Matches(draft, PreparationTables(s, target, refs, reason, p, now))
  BY <1>4 DEF DraftIs
<1> DEFINE overdue == OverduePlans(s, now)
           u == PreparationTables(s, target, refs, reason, p, now)
           row == PreparedRow(PreparedSpec(s, p, target, refs, reason, now), refs)
<1>6. /\ u.session = session /\ u.production = production /\ u.diagnostic = diagnostic
      /\ u.executions = executions /\ u.resets = resets
      /\ u.plan = [Expire(overdue, now) EXCEPT ![p] = row]
      /\ u.audit = audit \cup ExpiredAudit(s, overdue, now)
                         \cup Audit(s, "recovery_prepared", p, now)
  BY DEF PreparationTables, Committed
<1>7. /\ session' = session /\ production' = production /\ diagnostic' = diagnostic
      /\ executions' = executions /\ resets' = resets /\ clock' = clock
      /\ plan' = [Expire(overdue, now) EXCEPT ![p] = row]
      /\ audit' = audit \cup ExpiredAudit(s, overdue, now)
                        \cup Audit(s, "recovery_prepared", p, now)
      /\ AfterCommit(r, Answered(r, "ok"))
  <2> HIDE DEF u, row, overdue
  <2>1. Matches(draft, u)
    BY <1>5 DEF u
  <2> QED BY <1>1, <1>6, <2>1, PublishedTables
<1>8. \A x \in overdue : Loads(x)
  BY <1>4, StoreAssumption
     DEF OverduePlans, PlansOf, TxInv, TablesInv, LifecycleInv, PlansReload, Exists
<1>9. PrepareRecovery(s, p, target, refs, reason, now)
  BY <1>4, <1>5, <1>7, <1>8 DEF PrepareRecovery, PrepareGuards
<1>10. Next
  BY <1>4, <1>9 DEF Next, Operation
<1>11. Mints(r)
  <2>1. MintsPlan(r) /\ p = request[r].fresh
    BY <1>2, <1>4 DEF MintsPlan
  <2>2. ASSUME NEW x \in Plans, x # p
        PROVE  plan'[x].session = plan[x].session /\ plan'[x].since = plan[x].since
    <3>1. plan'[x] \in {plan[x], [plan[x] EXCEPT
                          !.state = ExpireRecovery(LoadedSpec(x), plan[x].state, now)]}
      BY <1>7, <2>2 DEF Expire
    <3>2. plan[x] \in PlanType
      BY <1>2 DEF TypeOK
    <3> QED BY <3>1, <3>2 DEF PlanType
  <2>3. \A t \in Sessions : RequestedDiagnostics(t)' = RequestedDiagnostics(t)
    BY <1>7 DEF RequestedDiagnostics
  <2> QED BY <1>7, <2>1, <2>2, <2>3 DEF Mints
<1> QED BY <1>1, <1>7, <1>10, <1>11, AnsweredCommit DEF Commits

\* The COMMIT of execute_recovery is RecoveryStore's ExecuteRecovery.
LEMMA CommitExecutionStep ==
    ASSUME TxInv, NEW r \in Requests, CommitExecution(r)
    PROVE  StoreStep
<1>1. writer = r /\ request[r].at = "completed" /\ Publish(r, Answered(r, "ok"))
  BY DEF CommitExecution, At, Done
<1>2. request[r].op = "execute" /\ Pending(r) /\ TypeOK
  BY <1>1, WriterFacts, OperationsAt DEF Formed, ExecutionSteps
<1>3. PICK s, p, d : \E now \in Instants :
        /\ s = request[r].session /\ d = request[r].fresh
        /\ DraftIs("completed", s, p, d, now)
        /\ s \in Sessions /\ p \in Plans /\ d \in Diagnostics /\ diagnostic[d].session = NoSession
  BY <1>1, <1>2, StatementFacts DEF OnPlan
<1>4. PICK now \in Instants :
        /\ s = request[r].session /\ d = request[r].fresh
        /\ DraftIs("completed", s, p, d, now)
        /\ s \in Sessions /\ p \in Plans /\ d \in Diagnostics /\ diagnostic[d].session = NoSession
  BY <1>3
<1> DEFINE u == ExecutionTables(s, p, d, now, "completed")
<1>5. ExecuteGuards(s, p, now) /\ Matches(draft, u)
  BY <1>4 DEF DraftIs, ExecutionSteps
<1>6. /\ u.session = session /\ u.resets = resets
      /\ u.production = [production EXCEPT ![s] = [release |-> plan[p].target,
                                           health |-> "healthy", incident |-> "resolved"]]
      /\ u.plan = [plan EXCEPT ![p].state = CompleteExecution(ClaimedState(plan[p].state), now)]
      /\ u.diagnostic = [diagnostic EXCEPT ![d] = AfterStateDiagnostic(s, p)]
      /\ u.executions = executions \cup
           {[session |-> s, plan |-> p, previous |-> plan[p].expected,
             current |-> plan[p].target, diagnostic |-> d, executed_at |-> now]}
      /\ u.audit = audit \cup Audit(s, "recovery_execution", p, now)
  BY DEF ExecutionTables
<1> HIDE DEF u
<1>7. /\ session' = u.session /\ production' = u.production /\ plan' = u.plan
      /\ diagnostic' = u.diagnostic /\ executions' = u.executions
      /\ audit' = u.audit /\ resets' = u.resets
      /\ clock' = clock /\ AfterCommit(r, Answered(r, "ok"))
  BY <1>1, <1>5, PublishedTables
<1>8. ExecuteRecovery(s, p, d, now)
  BY <1>4, <1>5, <1>6, <1>7 DEF ExecuteRecovery, ExecuteGuards
<1>9. Next
  BY <1>4, <1>8 DEF Next, Operation
<1>10. Mints(r)
  <2>1. MintsDiagnostic(r) /\ d = request[r].fresh
    BY <1>2, <1>4 DEF MintsDiagnostic
  <2>2. \A x \in Diagnostics \ {d} : diagnostic'[x] = diagnostic[x]
    BY <1>2, <1>6, <1>7 DEF TypeOK
  <2>3. diagnostic'[d].plan # NoPlan
    BY <1>2, <1>4, <1>6, <1>7, StoreAssumption DEF TypeOK, AfterStateDiagnostic, DiagnosticRow
  <2>4. \A t \in Sessions : RequestedDiagnostics(t)' \subseteq RequestedDiagnostics(t)
    BY <2>2, <2>3 DEF RequestedDiagnostics
  <2>5. \A x \in Plans : plan'[x].session = plan[x].session /\ plan'[x].since = plan[x].since
    <3>1. \A x \in Plans : plan[x] \in PlanType
      BY <1>2 DEF TypeOK
    <3> QED BY <1>2, <1>6, <1>7, <3>1 DEF TypeOK, PlanType
  <2> QED BY <1>6, <1>7, <2>1, <2>2, <2>4, <2>5 DEF Mints
<1> QED BY <1>1, <1>7, <1>9, <1>10, AnsweredCommit DEF Commits

\* The COMMIT of create_session is RecoveryStore's CreateSession.
LEMMA CommitCreationStep ==
    ASSUME TxInv, NEW r \in Requests, CommitCreation(r)
    PROVE  StoreStep
<1>1. writer = r /\ request[r].at = "seeded" /\ Publish(r, Answered(r, "ok"))
  BY DEF CommitCreation, At, Done
<1>2. request[r].op = "create" /\ Pending(r) /\ TypeOK /\ request[r].at \notin ReadSteps
  BY <1>1, WriterFacts, OperationsAt DEF Formed, CreationSteps
<1>3. PICK s, p, fresh : \E now \in Instants :
        /\ fresh = request[r].fresh /\ DraftIs("seeded", s, p, fresh, now)
        /\ fresh \in Sessions /\ session[fresh].status = "absent"
  BY <1>1, <1>2, StatementFacts
<1>4. PICK now \in Instants :
        /\ fresh = request[r].fresh /\ DraftIs("seeded", s, p, fresh, now)
        /\ fresh \in Sessions /\ session[fresh].status = "absent"
  BY <1>3
<1> DEFINE u == CreationTables(fresh, now, "seeded")
           gone == Removable(now)
<1>5. HasCapacity(now) /\ Matches(draft, u)
  BY <1>4 DEF DraftIs, CreationSteps
<1>6. u.session = [t \in Sessions |-> IF t = fresh THEN LiveSession(now)
                                      ELSE IF t \in gone THEN AbsentSession ELSE session[t]]
  BY DEF CreationTables
<1>7. u.production = [t \in Sessions |-> IF t = fresh \/ t \in gone
                                         THEN SeededProduction ELSE production[t]]
  BY DEF CreationTables
<1>8. u.plan = [x \in Plans |-> IF plan[x].session \in gone THEN AbsentPlan ELSE plan[x]]
  BY DEF CreationTables
<1>9. u.diagnostic = KeptDiagnostics(gone)
  <2>1. u.diagnostic = [x \in Diagnostics |-> IF diagnostic[x].session \notin gone
                                              THEN diagnostic[x] ELSE AbsentDiagnostic]
    BY DEF CreationTables
  <2> HIDE DEF u, gone
  <2> QED BY <2>1 DEF KeptDiagnostics
<1>10. /\ u.executions = {e \in executions : e.session \notin gone}
       /\ u.audit = {e \in audit : e.session \notin gone}
       /\ u.resets = {x \in resets : x.original \notin gone /\ x.replacement \notin gone}
  BY DEF CreationTables
<1> HIDE DEF u
<1>11. /\ session' = u.session /\ production' = u.production /\ plan' = u.plan
       /\ diagnostic' = u.diagnostic /\ executions' = u.executions
       /\ audit' = u.audit /\ resets' = u.resets
       /\ clock' = clock /\ AfterCommit(r, Answered(r, "ok"))
  BY <1>1, <1>5, PublishedTables
<1>12. fresh \notin Remaining(now)
  BY <1>4 DEF Remaining
<1>13. CreateSession(fresh, now)
  BY <1>5, <1>6, <1>7, <1>8, <1>9, <1>10, <1>11, <1>12 DEF CreateSession
<1>14. Next
  BY <1>4, <1>13 DEF Next, Operation
<1>15. Mints(r)
  <2> HIDE DEF gone
  <2>1. MintsSession(r) /\ fresh = request[r].fresh
    BY <1>2, <1>4 DEF MintsSession
  <2>2. \A x \in Sessions : session[x].status = "absent"
          => session'[x].status = "absent" \/ x = fresh
    BY <1>6, <1>11 DEF AbsentSession
  <2>3. \A x \in Diagnostics : diagnostic'[x] \in {diagnostic[x], AbsentDiagnostic}
    BY <1>9, <1>11 DEF KeptDiagnostics
  <2>4. AbsentDiagnostic.session = NoSession /\ \A t \in Sessions : t # NoSession
    BY StoreAssumption DEF AbsentDiagnostic
  <2>5. \A x \in Diagnostics :
          diagnostic[x].session = NoSession => diagnostic'[x].session = NoSession
    BY <2>3, <2>4
  <2>6. \A t \in Sessions : RequestedDiagnostics(t)' \subseteq RequestedDiagnostics(t)
    BY <2>3, <2>4 DEF RequestedDiagnostics
  <2>7. \A x \in Plans : plan'[x] \in {plan[x], AbsentPlan}
    BY <1>8, <1>11
  <2>8. AbsentPlan.session = NoSession /\ AbsentPlan.since = 0
    BY DEF AbsentPlan
  <2>9. \A x \in Plans : /\ plan[x].session = NoSession => plan'[x].session = NoSession
                         /\ plan'[x].since \in {plan[x].since, 0}
    BY <2>7, <2>8
  <2> QED BY <2>1, <2>2, <2>5, <2>6, <2>9 DEF Mints
<1> QED BY <1>1, <1>11, <1>14, <1>15, AnsweredCommit DEF Commits

\* The COMMIT of a diagnostic is RecoveryStore's RunDatabaseDiagnostic.
LEMMA CommitDiagnosticStep ==
    ASSUME TxInv, NEW r \in Requests, CommitDiagnostic(r)
    PROVE  StoreStep
<1>1. writer = r /\ request[r].at = "checked" /\ Publish(r, Answered(r, "ok"))
  BY DEF CommitDiagnostic, At, Done
<1>2. request[r].op = "diagnostic" /\ Pending(r) /\ TypeOK
  BY <1>1, WriterFacts, OperationsAt DEF Formed
<1>3. PICK s, p, d : \E now \in Instants :
        /\ s = request[r].session /\ d = request[r].fresh
        /\ DraftIs("checked", s, p, d, now)
        /\ s \in Sessions /\ d \in Diagnostics /\ diagnostic[d].session = NoSession
  BY <1>1, <1>2, StatementFacts
<1>4. PICK now \in Instants :
        /\ s = request[r].session /\ d = request[r].fresh
        /\ DraftIs("checked", s, p, d, now)
        /\ s \in Sessions /\ d \in Diagnostics /\ diagnostic[d].session = NoSession
  BY <1>3
<1> DEFINE u == DiagnosticTables(s, d)
<1>5. LockActive(s, now) /\ Matches(draft, u)
  BY <1>4 DEF DraftIs
<1>6. /\ u.session = session /\ u.production = production /\ u.plan = plan
      /\ u.executions = executions /\ u.audit = audit /\ u.resets = resets
      /\ u.diagnostic = [diagnostic EXCEPT ![d] =
                           DiagnosticRow(s, production[s].release, NoPlan)]
  BY DEF DiagnosticTables, Committed
<1> HIDE DEF u
<1>7. /\ session' = u.session /\ production' = u.production /\ plan' = u.plan
      /\ diagnostic' = u.diagnostic /\ executions' = u.executions
      /\ audit' = u.audit /\ resets' = u.resets
      /\ clock' = clock /\ AfterCommit(r, Answered(r, "ok"))
  BY <1>1, <1>5, PublishedTables
<1>8. MintsDiagnostic(r)
  BY <1>2 DEF MintsDiagnostic
<1>9. Cardinality(RequestedDiagnostics(s)) < MaxDiagnostics
  BY <1>2, <1>4, <1>8 DEF TxInv, RequestInv, RoomForDiagnostic
<1>10. RunDatabaseDiagnostic(s, d, now)
  BY <1>4, <1>5, <1>6, <1>7, <1>9 DEF RunDatabaseDiagnostic
<1>11. Next
  BY <1>4, <1>10 DEF Next, Operation
<1>12. Mints(r)
  BY <1>2, <1>4, <1>6, <1>7, <1>8 DEF Mints, TypeOK
<1> QED BY <1>1, <1>7, <1>11, <1>12, AnsweredCommit DEF Commits

\* The COMMIT of reset_session is RecoveryStore's ResetSession.
LEMMA CommitResetStep ==
    ASSUME TxInv, NEW r \in Requests, CommitReset(r)
    PROVE  StoreStep
<1> DEFINE next == [request[r] EXCEPT !.at = "session"]
<1>1. writer = r /\ request[r].at = "revoked" /\ Publish(r, next)
  BY DEF CommitReset, At
<1>2. /\ request[r].op = "reset" /\ Pending(r) /\ TypeOK /\ request[r].at \notin ReadSteps
      /\ Formed(r)
  BY <1>1, WriterFacts, OperationsAt DEF Formed, ResetSteps
<1>3. PICK s, p, fresh : \E now \in Instants :
        /\ s = request[r].session /\ fresh = request[r].fresh
        /\ DraftIs("revoked", s, p, fresh, now)
        /\ s \in Sessions /\ fresh \in Sessions /\ session[fresh].status = "absent"
  BY <1>1, <1>2, StatementFacts
<1>4. PICK now \in Instants :
        /\ s = request[r].session /\ fresh = request[r].fresh
        /\ DraftIs("revoked", s, p, fresh, now)
        /\ s \in Sessions /\ fresh \in Sessions /\ session[fresh].status = "absent"
  BY <1>3
<1> DEFINE u == ResetTables(s, fresh, now, "revoked")
<1>5. LockActive(s, now) /\ Matches(draft, u)
  BY <1>4 DEF DraftIs, ResetSteps
<1>6. /\ u.session = [session EXCEPT ![fresh] = LiveSession(now), ![s].status = "revoked"]
      /\ u.production = [production EXCEPT ![fresh] = SeededProduction]
      /\ u.plan = [x \in Plans |-> IF plan[x].session = s
                                   THEN [plan[x] EXCEPT !.state = InvalidateRecovery(@)]
                                   ELSE plan[x]]
      /\ u.diagnostic = diagnostic /\ u.executions = executions
      /\ u.resets = resets \cup {[original |-> s, replacement |-> fresh]}
      /\ u.audit = audit \cup Audit(s, "session_reset", fresh, now)
  BY DEF ResetTables
<1> HIDE DEF u
<1>7. /\ session' = u.session /\ production' = u.production /\ plan' = u.plan
      /\ diagnostic' = u.diagnostic /\ executions' = u.executions
      /\ audit' = u.audit /\ resets' = u.resets
      /\ clock' = clock /\ AfterCommit(r, next)
  <2> HIDE DEF next
  <2> QED BY <1>1, <1>5, PublishedTables
<1>8. ResetSession(s, fresh, now)
  BY <1>4, <1>5, <1>6, <1>7 DEF ResetSession
<1>9. Next
  BY <1>4, <1>8 DEF Next, Operation
<1>10. Mints(r)
  <2>1. MintsSession(r) /\ fresh = request[r].fresh
    BY <1>2, <1>4 DEF MintsSession
  <2>2. \A x \in Sessions : session[x].status = "absent"
          => session'[x].status = "absent" \/ x = fresh
    BY <1>2, <1>4, <1>5, <1>6, <1>7 DEF TypeOK, SessionType, LockActive
  <2>3. \A x \in Plans : plan'[x].session = plan[x].session /\ plan'[x].since = plan[x].since
    <3>1. \A x \in Plans : plan[x] \in PlanType
      BY <1>2 DEF TypeOK
    <3> QED BY <1>6, <1>7, <3>1 DEF PlanType
  <2>4. \A t \in Sessions : RequestedDiagnostics(t)' = RequestedDiagnostics(t)
    BY <1>6, <1>7 DEF RequestedDiagnostics
  <2> QED BY <1>6, <1>7, <2>1, <2>2, <2>3, <2>4 DEF Mints
<1>11. /\ OthersWait(r) /\ request'[r] = next /\ writer' = NoRequest
       /\ \A q \in Requests \ {r} : request[q].at = "upgrade" => request'[q].moved
  BY <1>7, CommittedRequest
<1>12. /\ DOMAIN request'[r] = Fields /\ request'[r].at = "session"
       /\ request'[r].op = "reset" /\ request'[r].session = request[r].session
       /\ request'[r].plan = request[r].plan /\ request'[r].fresh = request[r].fresh
       /\ request'[r].now = request[r].now
  BY <1>2, <1>11 DEF Formed, Fields
<1> HIDE DEF next
<1>13. "reset" \in OpsAt("session") /\ "session" \in ReadSteps /\ "session" \notin LockedSteps
  BY OperationsAt
     DEF ReadSteps, LockedSteps, ExecutionSteps, ResetSteps, CreationSteps
<1>14. GoesOn(r)
  BY <1>2, <1>12, <1>13 DEF GoesOn, Keeps
<1>15. RequestInv(r)'
  <2>1. Formed(r)'
    BY <1>2, <1>7, <1>12, <1>13 DEF Formed, OnPlan
  <2>2. FreshIsFree(r)'
    BY <1>12, <1>13 DEF FreshIsFree, MintsSession, MintsDiagnostic, MintsPlan
  <2>3. PlanIsKnown(r)' /\ SnapshotIsCurrent(r)' /\ RoomForDiagnostic(r)'
    BY <1>12 DEF PlanIsKnown, OnPlan, SnapshotIsCurrent, RoomForDiagnostic
  <2> QED BY <2>1, <2>2, <2>3 DEF RequestInv
<1> QED BY <1>1, <1>7, <1>9, <1>10, <1>11, <1>12, <1>13, <1>14, <1>15, CommitStep
        DEF Commits, Continues

-----------------------------------------------------------------------------
\* Arrivals, receipts, crashes and the clock.

\* An arriving request is formed, and the id it may mint is its own.
LEMMA ArriveStep ==
    ASSUME TxInv, NEW r \in Requests, NEW op \in Operations,
           NEW s \in Sessions \cup {NoSession}, NEW p \in Plans \cup {NoPlan}, Arrive(r, op, s, p)
    PROVE  StoreStep
<1> DEFINE id == CHOOSE x \in MintedIds(op) : TRUE
           next == [Idle EXCEPT !.op = op, !.at = FirstStep(op, s), !.session = s, !.plan = p,
                                !.now = clock, !.fresh = id]
<1>1. /\ request' = [request EXCEPT ![r] = next] /\ UNCHANGED <<storeVars, writer, draft>>
      /\ request[r].at = "idle"
  BY DEF Arrive
<1>2. id \in MintedIds(op)
  BY DEF Arrive
<1> HIDE DEF id
<1>3. /\ DOMAIN next = Fields /\ next.op = op /\ next.at = FirstStep(op, s)
      /\ next.session = s /\ next.plan = p /\ next.now = clock /\ next.fresh = id
  BY DEF Idle, Fields
<1>4. FirstStep(op, s) \in {"session", "check", "open", "lock"} /\ op \in OpsAt(FirstStep(op, s))
  <2>1. CASE op = "create" /\ s # NoSession
    BY <2>1, OperationsAt DEF FirstStep, ReadSteps
  <2>2. CASE op = "incident"
    BY <2>2, OperationsAt DEF FirstStep
  <2>3. CASE op = "diagnostic"
    BY <2>3 DEF FirstStep, OpsAt, ReadSteps, CreationSteps, ResetSteps, ExecutionSteps
  <2>4. CASE ~(op = "create" /\ s # NoSession) /\ op # "incident" /\ op # "diagnostic"
    <3>1. FirstStep(op, s) = "lock"
      BY <2>4 DEF FirstStep
    <3> QED BY <2>4, <3>1, OperationsAt
  <2> QED BY <2>1, <2>2, <2>3, <2>4
<1> HIDE DEF next
<1>5. OthersWait(r) /\ request'[r] = next
  BY <1>1, ReplacedRequest
<1>6. TypeOK /\ clock \in Nat /\ clock' = clock /\ MaxDelay \in Nat
  BY <1>1, StoreAssumption DEF TxInv, TablesInv, LifecycleInv, RecoveryInv, TypeOK, storeVars
<1>7. /\ s # NoSession \/ op = "create"
      /\ OnPlan(op) => p \in Plans /\ plan[p].session = s /\ s \in Sessions
      /\ op = "diagnostic" =>
           /\ Cardinality(RequestedDiagnostics(s)) < MaxDiagnostics
           /\ \A q \in Requests : request[q].op # "diagnostic"
  BY DEF Arrive, OnPlan, PlansOf
<1>8. /\ op \in {"create", "reset"} => id \in Sessions /\ session[id].status = "absent"
      /\ op \in {"diagnostic", "execute"} => id \in Diagnostics /\ diagnostic[id].session = NoSession
      /\ op = "prepare" => id \in Plans /\ plan[id].session = NoSession
      /\ op \in {"create", "reset", "diagnostic", "execute", "prepare"} => ~InUse(id)
  <2>1. CASE op \in {"create", "reset"}
    BY <1>2, <2>1 DEF MintedIds
  <2>2. CASE op \in {"diagnostic", "execute"}
    BY <1>2, <2>2 DEF MintedIds
  <2>3. CASE op = "prepare"
    BY <1>2, <2>3 DEF MintedIds
  <2> QED BY <2>1, <2>2, <2>3
<1>9. RequestInv(r)'
  <2>1. Formed(r)'
    BY <1>3, <1>4, <1>5, <1>6, <1>7 DEF Formed, Operations, OnPlan
  <2>2. FreshIsFree(r)'
    BY <1>1, <1>3, <1>5, <1>8
       DEF FreshIsFree, MintsSession, MintsDiagnostic, MintsPlan, storeVars, tables
  <2>3. PlanIsKnown(r)'
    BY <1>1, <1>3, <1>5, <1>7 DEF PlanIsKnown, TxInv, TablesInv, PlansAreCommitted, storeVars,
                                  tables
  <2>4. SnapshotIsCurrent(r)'
    BY <1>3, <1>4, <1>5 DEF SnapshotIsCurrent
  <2>5. RoomForDiagnostic(r)'
    <3>1. RequestedDiagnostics(s)' = RequestedDiagnostics(s)
      BY <1>1, SameSessions
    <3> QED BY <1>3, <1>5, <1>7, <3>1 DEF RoomForDiagnostic
  <2> QED BY <2>1, <2>2, <2>3, <2>4, <2>5 DEF RequestInv
<1>10. \A q \in Requests \ {r} : RequestInv(q)'
  BY <1>1, <1>5, QuietWaits DEF TxInv, OthersWait
<1>11. \A q \in Requests \ {r} :
         /\ Formed(q) /\ Formed(q)' /\ Continues(q) /\ request'[q].op = request[q].op
         /\ request'[q].fresh = request[q].fresh /\ request'[q].plan = request[q].plan
         /\ request'[q].at = request[q].at
  BY <1>5, <1>10, WaitsContinues DEF TxInv, RequestInv, Continues, OthersWait, Waits, Keeps
<1>12. ASSUME NEW q \in Requests \ {r} PROVE PairInv(q, r)' /\ PairInv(r, q)'
  <2>1. op \in {"create", "reset", "diagnostic", "execute", "prepare"}
          => id # request[q].fresh /\ id # request[q].plan
    BY <1>8 DEF InUse
  <2>2. MintsPlan(q) => plan[request[q].fresh].session = NoSession
    BY DEF TxInv, RequestInv, FreshIsFree
  <2>3. MintsPlan(q)' => MintsPlan(q)
    BY <1>11 DEF MintsPlan, Pending
  <2>4. FreshIsDistinct(q, r)' /\ FreshIsDistinct(r, q)'
    BY <1>3, <1>5, <1>11, <2>1 DEF FreshIsDistinct, MintsSession, MintsDiagnostic, MintsPlan
  <2>5. PlanIsTaken(q, r)'
    BY <1>3, <1>5, <1>7, <1>11, <2>2, <2>3, StoreAssumption DEF PlanIsTaken
  <2>6. PlanIsTaken(r, q)'
    BY <1>3, <1>5, <1>11, <2>1 DEF PlanIsTaken, MintsPlan
  <2>7. OneDiagnosticRequest(q, r)' /\ OneDiagnosticRequest(r, q)'
    BY <1>3, <1>5, <1>7, <1>11 DEF OneDiagnosticRequest
  <2> QED BY <2>4, <2>5, <2>6, <2>7 DEF PairInv
<1>13. \A q, x \in Requests : q # x => PairInv(q, x)'
  <2>1. ASSUME NEW q \in Requests \ {r}, NEW x \in Requests \ {r}, q # x PROVE PairInv(q, x)'
    BY <1>11, <2>1, PairStays DEF TxInv
  <2> QED BY <1>12, <2>1
<1>14. writer # r /\ next.at \notin LockedSteps
  <2>1. "idle" \notin LockedSteps
    BY DEF LockedSteps, ExecutionSteps, ResetSteps, CreationSteps
  <2>2. \A at \in {"session", "check", "open", "lock"} : at \notin LockedSteps
    BY DEF LockedSteps, ExecutionSteps, ResetSteps, CreationSteps
  <2> QED BY <1>1, <1>3, <1>4, <2>1, <2>2 DEF TxInv, WriterIsLocked
<1>15. WriterIsLocked'
  BY <1>1, <1>5, <1>14, LockElsewhere
<1>16. TablesInv'
  BY <1>1, TablesStep DEF TxInv, storeVars, tables, vars
<1>17. UNCHANGED vars
  BY <1>1 DEF storeVars, tables, vars
<1> QED BY <1>5, <1>9, <1>10, <1>13, <1>15, <1>16, <1>17 DEF TxInv, OthersWait, StoreStep

\* A client that asks again finds its handler idle.
LEMMA ReceiveStep ==
    ASSUME TxInv, NEW r \in Requests, Receive(r)
    PROVE  StoreStep
<1>1. /\ request' = [request EXCEPT ![r] = Idle] /\ UNCHANGED <<storeVars, writer, draft>>
      /\ request[r].at = "answered"
  BY DEF Receive, Advance
<1>2. OthersWait(r) /\ request'[r] = Idle
  BY <1>1, ReplacedRequest
<1>3. Idle.at = "idle" /\ Idle.op = "none" /\ DOMAIN Idle = Fields
  BY DEF Idle, Fields
<1>4. Ended(r)
  BY <1>2, <1>3, OperationsAt DEF Ended
<1>5. /\ request[r].at \notin LockedSteps /\ request'[r].at \notin LockedSteps
      /\ request'[r].at # "upgrade"
  BY <1>1, <1>2, <1>3 DEF LockedSteps, ExecutionSteps, ResetSteps, CreationSteps
<1> QED BY <1>1, <1>2, <1>4, <1>5, FreeStep DEF Continues

\* Once every request is idle, nothing is left to say of them.
LEMMA AllIdle ==
    TablesInv /\ request = [r \in Requests |-> Idle] /\ writer = NoRequest => TxInv
<1> SUFFICES ASSUME TablesInv, request = [r \in Requests |-> Idle], writer = NoRequest
             PROVE  TxInv
  OBVIOUS
<1>1. Idle.at = "idle" /\ Idle.op = "none" /\ DOMAIN Idle = Fields
  BY DEF Idle, Fields
<1>2. "idle" \notin LockedSteps /\ OpsAt("idle") = {"none"} /\ NoRequest \notin Requests
  BY TransactionAssumption, OperationsAt
     DEF LockedSteps, ExecutionSteps, ResetSteps, CreationSteps
<1>3. \A r \in Requests : request[r] = Idle /\ ~Pending(r)
  BY <1>1 DEF Pending
<1>4. WriterIsLocked
  BY <1>1, <1>2, <1>3 DEF WriterIsLocked
<1>5. \A r \in Requests : RequestInv(r)
  BY <1>1, <1>2, <1>3
     DEF RequestInv, Formed, FreshIsFree, PlanIsKnown, SnapshotIsCurrent, RoomForDiagnostic,
         MintsSession, MintsDiagnostic, MintsPlan
<1>6. \A q, r \in Requests : PairInv(q, r)
  BY <1>1, <1>3 DEF PairInv, FreshIsDistinct, PlanIsTaken, OneDiagnosticRequest,
                    MintsSession, MintsDiagnostic, MintsPlan
<1> QED BY <1>4, <1>5, <1>6 DEF TxInv

\* A crash loses the requests, the lock and the draft, and no table.
LEMMA CrashStep == TxInv /\ Crash => StoreStep
<1> SUFFICES ASSUME TxInv, Crash PROVE StoreStep
  OBVIOUS
<1>1. TablesInv' /\ UNCHANGED vars
  BY TablesStep DEF Crash, TxInv, storeVars, tables, vars
<1>2. (TablesInv /\ request = [r \in Requests |-> Idle] /\ writer = NoRequest => TxInv)'
  BY AllIdle, PTL
<1> QED BY <1>1, <1>2 DEF Crash, StoreStep

\* The clock moves while no transaction writes and no wait is overdue.
LEMMA ElapseStep == TxInv /\ Elapse => StoreStep
<1> SUFFICES ASSUME TxInv, Elapse PROVE StoreStep
  OBVIOUS
<1>1. /\ writer = NoRequest /\ writer' = NoRequest /\ request' = request /\ Tick
      /\ \A r \in Requests : Pending(r) => clock - request[r].now < MaxDelay
  BY DEF Elapse
<1>2. /\ clock' = clock + 1 /\ clock \in Nat /\ MaxDelay \in Nat
      /\ UNCHANGED <<session, production, plan, diagnostic, executions, audit, resets>>
  BY <1>1, StoreAssumption
     DEF Tick, recoveryVars, TxInv, TablesInv, LifecycleInv, RecoveryInv, TypeOK
<1>3. Next
  BY <1>1 DEF Next, Operation
<1>4. TablesInv'
  BY <1>3, TablesStep DEF TxInv
<1>5. WriterIsLocked'
  BY <1>1, TransactionAssumption DEF TxInv, WriterIsLocked
<1>6. ASSUME NEW r \in Requests PROVE RequestInv(r)'
  <2>1. RequestInv(r) /\ request'[r] = request[r]
    BY <1>1 DEF TxInv
  <2>2. Formed(r)'
    BY <1>1, <1>2, <2>1 DEF RequestInv, Formed, Pending
  <2>3. FreshIsFree(r)'
    BY <1>2, <2>1 DEF RequestInv, FreshIsFree, MintsSession, MintsDiagnostic, MintsPlan, Pending
  <2>4. PlanIsKnown(r)'
    BY <1>2, <2>1 DEF RequestInv, PlanIsKnown, Pending
  <2>5. SnapshotIsCurrent(r)'
    BY <1>2, <2>1 DEF RequestInv, SnapshotIsCurrent, LockActive, SessionExpiry
  <2>6. RoomForDiagnostic(r)'
    BY <1>2, <2>1
       DEF RequestInv, RoomForDiagnostic, RequestedDiagnostics, MintsDiagnostic, Pending
  <2> QED BY <2>2, <2>3, <2>4, <2>5, <2>6 DEF RequestInv
<1>7. ASSUME NEW q \in Requests, NEW r \in Requests, q # r PROVE PairInv(q, r)'
  <2>1. PairInv(q, r) /\ request'[q] = request[q] /\ request'[r] = request[r]
    BY <1>1, <1>7 DEF TxInv
  <2> QED BY <2>1 DEF PairInv, FreshIsDistinct, PlanIsTaken, OneDiagnosticRequest,
                      MintsSession, MintsDiagnostic, MintsPlan, Pending
<1> QED BY <1>1, <1>3, <1>4, <1>5, <1>6, <1>7 DEF TxInv, StoreStep

-----------------------------------------------------------------------------
\* The transactions implement the store.

\* The invariant holds before the first request.
LEMMA TxInitial == TxInit => TxInv
<1> SUFFICES ASSUME TxInit PROVE TxInv
  OBVIOUS
<1>1. LifecycleInv /\ CeilingInv
  BY LifecycleInit, CeilingInit DEF TxInit
<1>2. RequestedAreFinite
  <2>1. AbsentDiagnostic.session = NoSession /\ NoSession \notin Sessions
    BY StoreAssumption DEF AbsentDiagnostic
  <2>2. \A s \in Sessions : RequestedDiagnostics(s) = {}
    BY <2>1 DEF TxInit, Init, RequestedDiagnostics
  <2> QED BY <2>2, FS_EmptySet DEF RequestedAreFinite
<1>3. PlansAreCommitted
  <2>1. AbsentPlan.since = 0
    BY DEF AbsentPlan
  <2> QED BY <2>1 DEF TxInit, Init, PlansAreCommitted
<1> QED BY <1>1, <1>2, <1>3, AllIdle DEF TxInit, TablesInv

\* Every step of a handler keeps the invariant and implements the store.
LEMMA HandlerStep ==
    ASSUME TxInv, NEW r \in Requests, Step(r)
    PROVE  StoreStep
BY ReadStep, TakeWriterLockStep, TimeOutStep, InsertPlanStep, CommitPlanStep, CurrentStep,
   DecideStep, VerifyStep, ClaimStep, ExecutionStep, CommitExecutionStep, ResetStep,
   CommitResetStep, CreationStep, CommitCreationStep, OpenStep, UpgradeStep,
   CommitDiagnosticStep, Zenon DEF Step

\* Every step of TxSpec does.
LEMMA TxSteps == TxInv /\ [TxNext]_txVars => StoreStep
<1> SUFFICES ASSUME TxInv, [TxNext]_txVars PROVE StoreStep
  OBVIOUS
<1>1. CASE TxNext
  BY <1>1, ArriveStep, HandlerStep, ReceiveStep, ElapseStep, CrashStep, Zenon DEF TxNext
<1>2. CASE UNCHANGED txVars
  <2>1. UNCHANGED <<vars, request, writer, draft, storeVars>>
    BY <1>2 DEF txVars, storeVars, tables, vars
  <2>2. TablesInv'
    BY <2>1, TablesStep DEF TxInv
  <2>3. ASSUME NEW r \in Requests PROVE RequestInv(r)'
    BY <2>1, QuietWaits DEF TxInv, RequestInv, Formed, Waits, Keeps
  <2>4. \A q, r \in Requests : q # r => PairInv(q, r)'
    <3>1. \A q, r \in Requests : q # r => PairInv(q, r)
      BY DEF TxInv
    <3>2. ASSUME NEW q \in Requests, NEW r \in Requests, PairInv(q, r) PROVE PairInv(q, r)'
      BY <2>1, <3>2 DEF PairInv, FreshIsDistinct, PlanIsTaken, OneDiagnosticRequest,
                        MintsSession, MintsDiagnostic, MintsPlan, Pending
    <3> QED BY <3>1, <3>2
  <2>5. WriterIsLocked'
    <3>1. ASSUME NEW r \in Requests, writer = r PROVE DraftMatches(r)'
      <4>1. PICK at, s, p, fresh, now :
              /\ at = request[r].at /\ s = request[r].session /\ p = request[r].plan
              /\ fresh = request[r].fresh /\ now = request[r].now
        OBVIOUS
      <4>2. DraftIs(at, s, p, fresh, now)
        BY <3>1, <4>1 DEF TxInv, WriterIsLocked, DraftMatches
      <4>3. DraftIs(at, s, p, fresh, now)'
        BY <2>1, <4>2, SameDraft
      <4> QED BY <2>1, <4>1, <4>3 DEF DraftMatches
    <3> QED BY <2>1, <3>1 DEF TxInv, WriterIsLocked
  <2> QED BY <2>1, <2>2, <2>3, <2>4, <2>5 DEF TxInv, StoreStep
<1> QED BY <1>1, <1>2

\* The invariant holds in every state of TxSpec.
LEMMA TxHolds == TxSpec => []TxInv
<1>1. TxInv /\ [TxNext]_txVars => TxInv'
  BY TxSteps DEF StoreStep
<1> QED BY <1>1, TxInitial, PTL DEF TxSpec

\* Statement by statement, with crashes, refused upgrades, timeouts and lost
\* answers, for any number of requests in progress: the committed tables take
\* only the steps of RecoveryStore, each of them all at once.
THEOREM TransactionsImplementStore == TxSpec => StoreImplemented
<1>1. TxInit => Init
  BY DEF TxInit
<1>2. TxInv /\ [TxNext]_txVars => [Next]_vars
  BY TxSteps DEF StoreStep
<1> QED BY <1>1, <1>2, TxHolds, PTL DEF TxSpec, StoreImplemented, Spec

\* Hence a crash, a lost answer or a statement that fails never leaves half a
\* recovery behind.
THEOREM CommittedRecoveryIsWhole == TxSpec => []RecoveredTogether
BY TransactionsImplementStore, RecoveryIsAtomic DEF StoreImplemented

\* Statement by statement, too, production recovers only by spending a granted
\* authority, once: no crash, retry or torn read grants one.
THEOREM TransactionsImplementAuthority == TxSpec => AuthorityImplemented
BY TransactionsImplementStore, StoreImplementsAuthority DEF StoreImplemented

=============================================================================
