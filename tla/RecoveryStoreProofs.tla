------------------------- MODULE RecoveryStoreProofs -------------------------
(***************************************************************************)
(* Theorems about RecoveryStore for every number of sessions, plans and    *)
(* diagnostics, every clock bound and every delay.                         *)
(***************************************************************************)
EXTENDS RecoveryStore, RecoveryDomainProofs, TLAPS

-----------------------------------------------------------------------------
\* Types.

\* An instant a caller can have read is a natural number, and not in the future.
LEMMA InstantType ==
    ASSUME TypeOK, NEW now \in Instants
    PROVE  now \in Nat /\ now <= clock
BY DEF TypeOK, Instants

\* Every state the lifecycle writes is a state.
LEMMA BareType ==
    ASSUME NEW status \in PlanStatus \cup {"absent"}
    PROVE  Bare(status) \in StateType
BY DEF Bare, StateType, FingerprintType, NoTime

\* An approval of a well-typed fingerprint is a state.
LEMMA ApprovedType ==
    ASSUME NEW at \in Nat, NEW fingerprint \in FingerprintType
    PROVE  Approved(at, fingerprint) \in StateType
BY DEF Approved, StateType, NoTime, PlanStatus, ActiveStatus

\* Claiming and completing a state yields a state.
LEMMA CompletedType ==
    ASSUME NEW state \in StateType, NEW now \in Nat
    PROVE  CompleteExecution(ClaimedState(state), now) \in StateType
<1>1. ClaimedState(state) \in StateType
  BY DEF ClaimedState, StateType, PlanStatus, ActiveStatus
<1> QED BY <1>1 DEF CompleteExecution, StateType, PlanStatus, TerminalStatus

\* An absent row is a row.
LEMMA AbsentTypes ==
    /\ AbsentSession \in SessionType
    /\ AbsentPlan \in PlanType
    /\ AbsentDiagnostic \in DiagnosticType
    /\ SeededProduction \in ProductionType
<1>1. AbsentPlan \in PlanType
  BY BareType DEF AbsentPlan, PlanType, Texts, FingerprintType
<1>2. AbsentDiagnostic \in DiagnosticType
  BY DEF AbsentDiagnostic, DiagnosticType, Texts
<1> QED BY <1>1, <1>2 DEF AbsentSession, SessionType, SeededProduction, ProductionType, Releases

\* insert_audit adds a well-typed event or nothing.
LEMMA AuditTyped ==
    ASSUME NEW s \in Sessions, NEW event \in Events,
           NEW subject \in Plans \cup Sessions, NEW at \in Nat
    PROVE  Audit(s, event, subject, at) \subseteq AuditType
BY DEF Audit, Event, AuditType

\* The diagnostic of any known release is a row.
LEMMA DiagnosticRowTyped ==
    ASSUME TypeOK, NEW s \in Sessions, NEW release \in Texts(Releases),
           NEW p \in Plans \cup {NoPlan}
    PROVE  DiagnosticRow(s, release, p) \in DiagnosticType
BY DEF TypeOK, DiagnosticRow, DiagnosticType, DatabaseConnectivityDiagnostic, Texts

\* Applying expiry leaves well-typed rows.
LEMMA ExpireTyped ==
    ASSUME TypeOK, NEW overdue, NEW now
    PROVE  Expire(overdue, now) \in [Plans -> PlanType]
<1> SUFFICES ASSUME NEW p \in Plans PROVE Expire(overdue, now)[p] \in PlanType
  BY DEF Expire
<1>1. plan[p] \in PlanType /\ plan[p].state \in StateType
  BY DEF TypeOK, PlanType
<1>2. ExpireRecovery(LoadedSpec(p), plan[p].state, now) \in StateType
  BY <1>1, BareType DEF ExpireRecovery, PlanStatus, TerminalStatus
<1> QED BY <1>1, <1>2 DEF Expire, PlanType

\* The events of the expired plans are well typed.
LEMMA ExpiredAuditTyped ==
    ASSUME NEW s \in Sessions, NEW overdue \in SUBSET Plans, NEW now \in Nat
    PROVE  ExpiredAudit(s, overdue, now) \subseteq AuditType
<1>1. \A p \in overdue : Audit(s, "recovery_expired", p, now) \subseteq AuditType
  BY AuditTyped DEF Events
<1> QED BY <1>1, Zenon DEF ExpiredAudit

\* Every id of a stored log or diagnostic stands for an evidence record.
LEMMA EvidenceRecordTyped ==
    ASSUME TypeOK, NEW s \in Sessions, NEW ref \in EvidenceIds, NEW release \in Releases
    PROVE  EvidenceRecord(s, ref, release) \in EvidenceType
<1>1. CASE ref \in Logs
  BY <1>1 DEF EvidenceRecord, EvidenceType, EvidenceKinds, Texts, LogCode
<1>2. CASE ref \notin Logs
  <2>1. diagnostic[ref] \in DiagnosticType
    BY <1>2 DEF TypeOK, EvidenceIds
  <2> QED BY <1>2, <2>1 DEF EvidenceRecord, EvidenceType, EvidenceKinds, Texts, DiagnosticType
<1> QED BY <1>1, <1>2

\* The facts prepare_recovery digests make a fingerprint.
LEMMA PreparedDigest ==
    ASSUME TypeOK, NEW s \in Sessions, NEW p \in Plans, NEW target \in Releases,
           NEW refs \in RefLists, NEW reason \in Reasons, NEW now \in Nat
    PROVE  /\ Fingerprint(PreparedSpec(s, p, target, refs, reason, now)) \in Digests
           /\ PreparedSpec(s, p, target, refs, reason, now).expected \in Releases
           /\ Trimmed(reason) \in ReasonTexts
<1> DEFINE items == {EvidenceList(s, refs)[i] : i \in DOMAIN refs}
           spec == PreparedSpec(s, p, target, refs, reason, now)
<1>1. production[s].release \in Releases /\ clock \in Nat
  BY DEF TypeOK, ProductionType
<1>2. \A i \in DOMAIN refs : refs[i] \in EvidenceIds
  BY StoreAssumption DEF EvidenceIds
<1>3. items \in SUBSET EvidenceType
  BY <1>1, <1>2, EvidenceRecordTyped DEF EvidenceList
<1>4. Trimmed(reason) \in ReasonTexts
  BY DEF ReasonTexts
<1>5. Fingerprint(spec) \in Digests
  <2>1. spec = PlanSpec(Command(s, p, production[s].release, target, reason, now), items)
    BY DEF PreparedSpec, PreparedCommand
  <2> HIDE DEF items, spec
  <2> QED BY <1>1, <1>3, <1>4, <2>1, DomainAssumption
      DEF Fingerprint, Digests, PlanSpec, Command
<1> QED BY <1>1, <1>4, <1>5 DEF PreparedSpec, PreparedCommand, PlanSpec, Command

\* The row prepare_recovery inserts is a row.
LEMMA PreparedRowTyped ==
    ASSUME TypeOK, NEW s \in Sessions, NEW p \in Plans, NEW target \in Releases,
           NEW refs \in RefLists, NEW reason \in Reasons, NEW now \in Nat
    PROVE  PreparedRow(PreparedSpec(s, p, target, refs, reason, now), refs) \in PlanType
<1> DEFINE spec == PreparedSpec(s, p, target, refs, reason, now)
<1>1. Fingerprint(spec) \in FingerprintType
  BY PreparedDigest DEF FingerprintType
<1>2. /\ spec.session = s /\ spec.created_at = now
      /\ spec.expected \in Releases /\ spec.target \in Releases
      /\ spec.reason \in ReasonTexts
  BY PreparedDigest DEF PreparedSpec, PreparedCommand, PlanSpec, Command
<1>3. Bare("prepared") \in StateType
  BY BareType DEF PlanStatus, ActiveStatus
<1>4. {refs[i] : i \in DOMAIN refs} \in SUBSET EvidenceIds
  BY StoreAssumption DEF EvidenceIds
<1>5. clock \in Nat
  BY DEF TypeOK
<1> HIDE DEF spec
<1>6. PreparedRow(spec, refs) \in PlanType
  BY <1>1, <1>2, <1>3, <1>4, <1>5 DEF PreparedRow, PlanType, Texts
<1> QED BY <1>6 DEF spec

\* The state a decision leads to is a state.
LEMMA DecidedStateTyped ==
    ASSUME TypeOK, NEW p \in Plans, NEW decision \in Decisions, NEW now \in Nat,
           DecisionError(LoadedSpec(p), plan[p].state, decision, now) = "ok"
    PROVE  DecidedState(LoadedSpec(p), plan[p].state, decision, now) \in StateType
<1>1. plan[p].state \in StateType
  BY DEF TypeOK, PlanType
<1>2. CASE decision.kind = "reject"
  BY <1>2, BareType DEF DecidedState, PlanStatus, TerminalStatus
<1>3. CASE decision.kind = "approve"
  <2>1. /\ plan[p].state.status \in {"prepared", "approved"}
        /\ decision.fingerprint = Fingerprint(LoadedSpec(p))
    BY <1>3, DecisionOk
  <2>2. decision.fingerprint \in FingerprintType
    BY <1>3 DEF Decisions, TypeOK, PlanType
  <2>3. Approved(now, Fingerprint(LoadedSpec(p))) \in StateType
    BY <2>1, <2>2, ApprovedType
  <2> QED BY <1>1, <1>3, <2>1, <2>3 DEF DecidedState
<1> QED BY <1>2, <1>3 DEF Decisions

-----------------------------------------------------------------------------
\* One lemma per operation: the tables stay well typed.

\* create_session deletes rows and inserts seeded ones.
LEMMA TypeCreateSession ==
    ASSUME TypeOK, NEW s \in Sessions, NEW now \in Instants, CreateSession(s, now)
    PROVE  TypeOK'
<1> USE DEF CreateSession
<1>1. now \in Nat
  BY InstantType
<1>2. LiveSession(now) \in SessionType
  BY <1>1 DEF LiveSession, SessionType, TypeOK
<1>3. session' \in [Sessions -> SessionType]
  BY <1>2, AbsentTypes DEF TypeOK
<1>4. production' \in [Sessions -> ProductionType]
  BY AbsentTypes DEF TypeOK
<1>5. plan' \in [Plans -> PlanType]
  BY AbsentTypes DEF TypeOK
<1>6. diagnostic' \in [Diagnostics -> DiagnosticType]
  BY AbsentTypes DEF TypeOK, KeptDiagnostics
<1> QED BY <1>3, <1>4, <1>5, <1>6 DEF TypeOK

\* reset_session inserts a seeded session and invalidates plans.
LEMMA TypeResetSession ==
    ASSUME TypeOK, NEW s \in Sessions, NEW r \in Sessions, NEW now \in Instants,
           ResetSession(s, r, now)
    PROVE  TypeOK'
<1> USE DEF ResetSession
<1>1. now \in Nat
  BY InstantType
<1>2. LiveSession(now) \in SessionType
  BY <1>1 DEF LiveSession, SessionType, TypeOK
<1>3. session' \in [Sessions -> SessionType]
  BY <1>2 DEF TypeOK, SessionType
<1>4. production' \in [Sessions -> ProductionType]
  BY AbsentTypes DEF TypeOK
<1>5. plan' \in [Plans -> PlanType]
  <2>1. Bare("invalidated") \in StateType
    BY BareType DEF PlanStatus, TerminalStatus
  <2>2. \A p \in Plans : InvalidateRecovery(plan[p].state) \in StateType
    BY <2>1 DEF InvalidateRecovery, TypeOK, PlanType
  <2> QED BY <2>2 DEF TypeOK, PlanType
<1>6. audit' \subseteq AuditType
  BY <1>1, AuditTyped DEF TypeOK, Events
<1> QED BY <1>3, <1>4, <1>5, <1>6 DEF TypeOK

\* run_database_diagnostic inserts a diagnostic row.
LEMMA TypeRunDatabaseDiagnostic ==
    ASSUME TypeOK, NEW s \in Sessions, NEW d \in Diagnostics, NEW now \in Instants,
           RunDatabaseDiagnostic(s, d, now)
    PROVE  TypeOK'
<1> USE DEF RunDatabaseDiagnostic
<1>1. production[s].release \in Texts(Releases)
  BY DEF TypeOK, ProductionType, Texts
<1>2. diagnostic' \in [Diagnostics -> DiagnosticType]
  BY <1>1, DiagnosticRowTyped DEF TypeOK
<1> QED BY <1>2 DEF TypeOK

\* prepare_recovery expires plans and inserts one.
LEMMA TypePrepareRecovery ==
    ASSUME TypeOK, NEW s \in Sessions, NEW p \in Plans, NEW now \in Instants,
           NEW target \in Releases, NEW refs \in RefLists, NEW reason \in Reasons,
           PrepareRecovery(s, p, target, refs, reason, now)
    PROVE  TypeOK'
<1> USE DEF PrepareRecovery
<1>1. now \in Nat
  BY InstantType
<1>2. plan' \in [Plans -> PlanType]
  BY <1>1, ExpireTyped, PreparedRowTyped
<1>3. ExpiredAudit(s, OverduePlans(s, now), now) \subseteq AuditType
  BY <1>1, ExpiredAuditTyped DEF OverduePlans, PlansOf
<1>4. Audit(s, "recovery_prepared", p, now) \subseteq AuditType
  BY <1>1, AuditTyped DEF Events
<1> QED BY <1>2, <1>3, <1>4 DEF TypeOK

\* current_recovery expires plans.
LEMMA TypeCurrentRecovery ==
    ASSUME TypeOK, NEW s \in Sessions, NEW now \in Instants, CurrentRecovery(s, now)
    PROVE  TypeOK'
<1> USE DEF CurrentRecovery
<1>1. now \in Nat
  BY InstantType
<1>2. plan' \in [Plans -> PlanType]
  BY ExpireTyped
<1>3. ExpiredAudit(s, OverduePlans(s, now), now) \subseteq AuditType
  BY <1>1, ExpiredAuditTyped DEF OverduePlans, PlansOf
<1> QED BY <1>2, <1>3 DEF TypeOK

\* A late decision or execution expires its plan.
LEMMA TypeExpireInstead ==
    ASSUME TypeOK, NEW s \in Sessions, NEW p \in Plans, NEW now \in Instants,
           ExpireInstead(s, p, now)
    PROVE  TypeOK'
<1> USE DEF ExpireInstead
<1>1. plan' \in [Plans -> PlanType]
  BY BareType DEF TypeOK, PlanType, PlanStatus, TerminalStatus
<1>2. audit' \subseteq AuditType
  BY InstantType, AuditTyped DEF TypeOK, Events
<1> QED BY <1>1, <1>2 DEF TypeOK

\* decide_recovery writes an approved or a rejected state.
LEMMA TypeDecideRecovery ==
    ASSUME TypeOK, NEW s \in Sessions, NEW p \in Plans, NEW now \in Instants,
           NEW decision \in Decisions, DecideRecovery(s, p, decision, now)
    PROVE  TypeOK'
<1> USE DEF DecideRecovery
<1>1. now \in Nat
  BY InstantType
<1>2. plan' \in [Plans -> PlanType]
  BY <1>1, DecidedStateTyped DEF TypeOK, PlanType
<1>3. audit' \subseteq AuditType
  <2>1. /\ Audit(s, "human_approval", p, now) \subseteq AuditType
        /\ Audit(s, "human_rejection", p, now) \subseteq AuditType
    BY <1>1, AuditTyped DEF Events
  <2> QED BY <2>1 DEF TypeOK
<1> QED BY <1>2, <1>3 DEF TypeOK

\* execute_recovery writes five tables; its target is a release because
\* validate_execution found it eligible.
LEMMA TypeExecuteRecovery ==
    ASSUME TypeOK, NEW s \in Sessions, NEW p \in Plans, NEW d \in Diagnostics,
           NEW now \in Instants, ExecuteRecovery(s, p, d, now)
    PROVE  TypeOK'
<1> USE DEF ExecuteRecovery
<1>1. now \in Nat
  BY InstantType
<1>2. plan[p] \in PlanType /\ plan[p].state \in StateType /\ plan[p].target \in Texts(Releases)
  BY DEF TypeOK, PlanType
<1>3. plan[p].target \in Releases
  <2>1. ReleaseState(plan[p].target) = "healthy_baseline"
    BY ExecutionOk DEF ExecutionFacts
  <2> QED BY <2>1 DEF ReleaseState, Releases
<1>4. production' \in [Sessions -> ProductionType]
  BY <1>3 DEF TypeOK, ProductionType
<1>5. diagnostic' \in [Diagnostics -> DiagnosticType]
  BY <1>2, DiagnosticRowTyped DEF TypeOK, AfterStateDiagnostic
<1>6. executions' \subseteq ExecutionType
  BY <1>1, <1>2 DEF TypeOK, ExecutionType, PlanType
<1>7. plan' \in [Plans -> PlanType]
  <2>1. CompleteExecution(ClaimedState(plan[p].state), now) \in StateType
    BY <1>1, <1>2, CompletedType
  <2> QED BY <2>1 DEF TypeOK, PlanType
<1>8. audit' \subseteq AuditType
  BY <1>1, AuditTyped DEF TypeOK, Events
<1> QED BY <1>4, <1>5, <1>6, <1>7, <1>8 DEF TypeOK

\* verify_recovery only adds an event.
LEMMA TypeVerifyRecovery ==
    ASSUME TypeOK, NEW s \in Sessions, NEW p \in Plans, NEW now \in Instants,
           VerifyRecovery(s, p, now)
    PROVE  TypeOK'
<1> USE DEF VerifyRecovery
<1>1. now \in Nat
  BY InstantType
<1>2. \A e : Audit(s, VerificationOutcome(s, p, e), p, now) \subseteq AuditType
  BY <1>1, AuditTyped DEF VerificationOutcome, Events
<1>3. audit' \subseteq AuditType
  BY <1>2 DEF TypeOK
<1> QED BY <1>3 DEF TypeOK, recoveryVars

\* Every step keeps every table well typed.
LEMMA TypeStep == TypeOK /\ [Next]_vars => TypeOK'
<1> SUFFICES ASSUME TypeOK, [Next]_vars PROVE TypeOK'
  OBVIOUS
<1>1. CASE Tick
  BY <1>1 DEF Tick, TypeOK, recoveryVars
<1>2. CASE UNCHANGED vars
  BY <1>2 DEF vars, TypeOK
<1> QED
  BY <1>1, <1>2, TypeCreateSession, TypeResetSession, TypeRunDatabaseDiagnostic,
     TypePrepareRecovery, TypeCurrentRecovery, TypeExpireInstead, TypeDecideRecovery,
     TypeExecuteRecovery, TypeVerifyRecovery, Zenon
     DEF Next, Operation, DecideLate, ExecuteLate

\* The empty database is well typed.
LEMMA TypeInit == Init => TypeOK
BY AbsentTypes DEF Init, TypeOK

\* Whatever is committed, in whatever order, every table holds well-typed rows.
THEOREM TypeCorrect == Spec => []TypeOK
BY TypeInit, TypeStep, PTL DEF Spec

-----------------------------------------------------------------------------
\* One active plan.

Usable(p) == Status(p) \in {"prepared", "approved"}

\* What every step but a preparation does to authority: no plan becomes
\* pending, changes its session while it is, or is left in execution.
NoNewAuthority ==
    \A p \in Plans :
        /\ Usable(p)' => Usable(p) /\ plan'[p].session = plan[p].session
        /\ Status(p)' # "executing"

\* A session keeps at most one active plan when no plan becomes pending.
LEMMA NoNewAuthorityKeepsOneActivePlan ==
    ASSUME OneActivePlan, NoNewAuthority
    PROVE  OneActivePlan'
<1> SUFFICES ASSUME NEW p \in Plans, NEW q \in Plans,
                    Exists(p)', (plan[p].session = plan[q].session)',
                    Usable(p)', Usable(q)'
             PROVE  p = q
  BY DEF OneActivePlan, NoNewAuthority, Usable
<1>1. Usable(p) /\ Usable(q) /\ Exists(p) /\ plan[p].session = plan[q].session
  BY DEF NoNewAuthority, Exists
<1> QED BY <1>1 DEF OneActivePlan, Usable

\* Expiry never grants authority, and takes it from every plan it is applied to.
LEMMA ExpireNarrows ==
    ASSUME TypeOK, OneActivePlan, NEW overdue, NEW now, NEW p \in Plans
    PROVE  LET row == Expire(overdue, now)[p]
           IN  /\ row.session = plan[p].session
               /\ row.state.status \in {Status(p), "expired"}
               /\ row.state.status # Status(p) => p \in overdue /\ Usable(p)
<1>1. plan[p] \in PlanType
  BY DEF TypeOK
<1> QED BY <1>1 DEF Expire, ExpireRecovery, Bare, Status, Overdue, Usable, PlanType

\* The plans prepare_recovery finds overdue are expired by the step.
LEMMA OverdueExpires ==
    ASSUME TypeOK, NEW s \in Sessions, NEW now \in Nat, NEW p \in OverduePlans(s, now)
    PROVE  Expire(OverduePlans(s, now), now)[p].state = Bare("expired")
<1>1. p \in Plans /\ plan[p] \in PlanType
  BY DEF OverduePlans, PlansOf, TypeOK
<1>2. Overdue(LoadedSpec(p), plan[p].state, now)
  BY DEF Overdue, OverduePlans, PlanExpiry, LoadedSpec, PlanSpec, LoadedCommand, Command
<1> QED BY <1>1, <1>2 DEF Expire, ExpireRecovery, PlanType

\* A preparation expires every other active plan of the session it adds one to.
LEMMA OnePrepareRecovery ==
    ASSUME TypeOK, OneActivePlan, NEW s \in Sessions, NEW p \in Plans, NEW now \in Instants,
           NEW target \in Releases, NEW refs \in RefLists, NEW reason \in Reasons,
           PrepareRecovery(s, p, target, refs, reason, now)
    PROVE  OneActivePlan'
<1> DEFINE overdue == OverduePlans(s, now)
<1>1. now \in Nat
  BY InstantType
<1>2. /\ plan'[p].session = s /\ Status(p)' = "prepared"
      /\ \A q \in Plans \ {p} : plan'[q] = Expire(overdue, now)[q]
  BY DEF PrepareRecovery, PreparedRow, PreparedSpec, PlanSpec, PreparedCommand,
         Command, Status, Bare, Expire
<1>3. \A q \in Plans \ {p} : /\ plan'[q].session = plan[q].session
                             /\ Status(q)' \in {Status(q), "expired"}
  BY <1>2, ExpireNarrows DEF Status
<1>4. \A q \in Plans \ {p} : plan'[q].session = s => ~Usable(q)'
  <2> SUFFICES ASSUME NEW q \in Plans \ {p}, plan'[q].session = s, Usable(q)'
               PROVE  FALSE
    OBVIOUS
  <2>1. Usable(q) /\ plan[q].session = s
    BY <1>3 DEF Usable
  <2>2. q \in overdue
    BY <2>1 DEF PrepareRecovery, ActivePlans, PlansOf, ActiveStatus, Usable, Status
  <2> QED BY <1>1, <1>2, <2>2, OverdueExpires DEF Usable, Status, Bare
<1> SUFFICES ASSUME NEW x \in Plans, NEW y \in Plans
             PROVE  /\ Status(x)' # "executing"
                    /\ /\ Exists(x)' /\ (plan[x].session = plan[y].session)'
                       /\ Usable(x)' /\ Usable(y)'
                       => x = y
  BY DEF OneActivePlan, Usable
<1>5. Status(x)' # "executing"
  BY <1>2, <1>3 DEF OneActivePlan
<1>6. ASSUME Exists(x)', (plan[x].session = plan[y].session)', Usable(x)', Usable(y)',
             x # p, y # p
      PROVE  x = y
  BY <1>3, <1>6 DEF OneActivePlan, Usable, Exists
<1> QED BY <1>2, <1>4, <1>5, <1>6

\* Every operation but a preparation narrows authority.
LEMMA OtherStepsNarrow ==
    ASSUME TypeOK, OneActivePlan, [Next]_vars,
           ~ \E s \in Sessions, p \in Plans, now \in Instants :
               \E target \in Releases, refs \in RefLists, reason \in Reasons :
                 PrepareRecovery(s, p, target, refs, reason, now)
    PROVE  NoNewAuthority
<1>1. ASSUME plan' = plan PROVE NoNewAuthority
  BY <1>1 DEF NoNewAuthority, Usable, Status, OneActivePlan
<1>2. ASSUME NEW s \in Sessions, NEW now \in Instants, CreateSession(s, now)
      PROVE  NoNewAuthority
  BY <1>2 DEF CreateSession, NoNewAuthority, Usable, Status, AbsentPlan, Bare, OneActivePlan
<1>3. ASSUME NEW s \in Sessions, NEW r \in Sessions, NEW now \in Instants,
             ResetSession(s, r, now)
      PROVE  NoNewAuthority
  <2> SUFFICES ASSUME NEW p \in Plans
               PROVE  /\ plan'[p].session = plan[p].session
                      /\ Status(p)' \in {Status(p), "invalidated"}
    BY DEF NoNewAuthority, Usable, OneActivePlan
  <2> QED BY <1>3 DEF ResetSession, InvalidateRecovery, Status, Bare, TypeOK, PlanType
<1>4. ASSUME NEW s \in Sessions, NEW now \in Instants, CurrentRecovery(s, now)
      PROVE  NoNewAuthority
  BY <1>4, ExpireNarrows DEF CurrentRecovery, NoNewAuthority, Usable, Status, OneActivePlan
<1>5. ASSUME NEW s \in Sessions, NEW p \in Plans, NEW now \in Instants,
             ExpireInstead(s, p, now)
      PROVE  NoNewAuthority
  BY <1>5 DEF ExpireInstead, NoNewAuthority, Usable, Status, Bare, OneActivePlan,
              TypeOK, PlanType
<1>6. ASSUME NEW s \in Sessions, NEW p \in Plans, NEW now \in Instants,
             NEW decision \in Decisions, DecideRecovery(s, p, decision, now)
      PROVE  NoNewAuthority
  <2> DEFINE next == DecidedState(LoadedSpec(p), plan[p].state, decision, now)
  <2>1. decision.kind \in {"approve", "reject"}
    BY DEF Decisions
  <2>2. \/ next.status = "rejected"
        \/ next.status = "approved" /\ Usable(p)
    BY <1>6, <2>1, DecisionOk
       DEF DecideRecovery, DecidedState, Approved, Bare, Usable, Status
  <2>3. plan' = [plan EXCEPT ![p].state = next]
    BY <1>6 DEF DecideRecovery
  <2> HIDE DEF next
  <2> QED BY <2>2, <2>3 DEF NoNewAuthority, Usable, Status, OneActivePlan, TypeOK, PlanType
<1>7. ASSUME NEW s \in Sessions, NEW p \in Plans, NEW d \in Diagnostics,
             NEW now \in Instants, ExecuteRecovery(s, p, d, now)
      PROVE  NoNewAuthority
  <2>1. CompleteExecution(ClaimedState(plan[p].state), now).status = "executed"
    BY DEF CompleteExecution
  <2> QED BY <1>7, <2>1 DEF ExecuteRecovery, NoNewAuthority, Usable, Status,
              OneActivePlan, TypeOK, PlanType
<1>8. CASE UNCHANGED vars
  BY <1>1, <1>8 DEF vars
<1>9. CASE Tick
  BY <1>1, <1>9 DEF Tick, recoveryVars
<1>10. ASSUME NEW s \in Sessions, NEW d \in Diagnostics, NEW now \in Instants,
              RunDatabaseDiagnostic(s, d, now)
       PROVE  NoNewAuthority
  BY <1>1, <1>10 DEF RunDatabaseDiagnostic
<1>11. ASSUME NEW s \in Sessions, NEW p \in Plans, NEW now \in Instants,
              VerifyRecovery(s, p, now)
       PROVE  NoNewAuthority
  BY <1>1, <1>11 DEF VerifyRecovery, recoveryVars
<1> QED
  BY <1>2, <1>3, <1>4, <1>5, <1>6, <1>7, <1>8, <1>9, <1>10, <1>11, Zenon
     DEF Next, Operation, DecideLate, ExecuteLate

\* The empty database has no plan.
LEMMA OneActivePlanInit == Init => OneActivePlan
<1>1. Init => \A p \in Plans : Status(p) = "absent"
  <2>1. AbsentPlan.state.status = "absent"
    BY DEF AbsentPlan, Bare
  <2> QED BY <2>1 DEF Init, Status
<1> QED BY <1>1 DEF OneActivePlan

\* Every step keeps at most one active plan per session.
LEMMA OneActivePlanStep == TypeOK /\ OneActivePlan /\ [Next]_vars => OneActivePlan'
BY OnePrepareRecovery, OtherStepsNarrow, NoNewAuthorityKeepsOneActivePlan

\* A session never holds two plans that could still be approved or executed,
\* whatever expiries, rejections and resets came between the preparations.
THEOREM AtMostOneActivePlan == Spec => []OneActivePlan
BY TypeInit, TypeStep, OneActivePlanInit, OneActivePlanStep, PTL DEF Spec

-----------------------------------------------------------------------------
\* Recovery is all or nothing.

\* A session that was never created, or whose rows were deleted, owns no row.
AbsentOwnsNothing ==
    \A s \in Sessions : session[s].status = "absent" =>
        /\ \A p \in Plans : plan[p].session # s
        /\ \A e \in executions : e.session # s
        /\ production[s] = SeededProduction

\* The diagnostic of an execution belongs to the session of the execution, so
\* neither a new diagnostic nor the deletion of other sessions touches it.
ExecutionsOwnTheirDiagnostic ==
    \A e \in executions : diagnostic[e.diagnostic].session = e.session

\* A row no session owns is no plan.
FreeRowsAreAbsent ==
    \A p \in Plans : plan[p].session = NoSession => Status(p) = "absent"

RecoveryInv ==
    /\ TypeOK
    /\ OneActivePlan
    /\ AbsentOwnsNothing
    /\ ExecutionsOwnTheirDiagnostic
    /\ FreeRowsAreAbsent
    /\ RecoveredTogether

ExecutedPlans(s) == {p \in Plans : plan[p].session = s /\ Status(p) = "executed"}
ExecutionRows(s) == {e \in executions : e.session = s}

\* The after-state that `p' and its execution row `e' leave behind in `s'.
AfterState(s, p, e) ==
    /\ ExecutedPlans(s) = {p} /\ ExecutionRows(s) = {e}
    /\ production[s] = [release |-> plan[p].target, health |-> "healthy",
                        incident |-> "resolved"]
    /\ e.plan = p /\ e.previous = plan[p].expected
    /\ e.current = plan[p].target
    /\ e.executed_at = plan[p].state.executed_at
    /\ diagnostic[e.diagnostic].plan = p

Untouched(s) == production[s] = SeededProduction /\ ExecutionRows(s) = {}

\* RecoveredTogether, said of one session at a time.
RecoveredAlone(s) ==
    \/ ExecutedPlans(s) = {} /\ Untouched(s)
    \/ \E p \in Plans, e \in executions : AfterState(s, p, e)

\* The property is one statement per session.
LEMMA RecoveredTogetherAlone == RecoveredTogether <=> \A s \in Sessions : RecoveredAlone(s)
<1>1. ASSUME RecoveredTogether, NEW s \in Sessions PROVE RecoveredAlone(s)
  BY <1>1 DEF RecoveredTogether, RecoveredAlone, ExecutedPlans, ExecutionRows, Untouched, AfterState
<1>2. ASSUME \A s \in Sessions : RecoveredAlone(s) PROVE RecoveredTogether
  <2> SUFFICES ASSUME NEW s \in Sessions
               PROVE  IF ExecutedPlans(s) = {} THEN Untouched(s)
                      ELSE \E p \in ExecutedPlans(s), e \in ExecutionRows(s) : AfterState(s, p, e)
    BY DEF RecoveredTogether, ExecutedPlans, ExecutionRows, Untouched, AfterState
  <2>1. \A p \in Plans, e \in executions :
          AfterState(s, p, e) => p \in ExecutedPlans(s) /\ e \in ExecutionRows(s)
    BY DEF AfterState
  <2> QED BY <1>2, <2>1, Zenon DEF RecoveredAlone
<1> QED BY <1>1, <1>2

\* The same after a step.
LEMMA RecoveredTogetherAloneNext ==
    RecoveredTogether' <=> \A s \in Sessions : RecoveredAlone(s)'
<1>1. (RecoveredTogether <=> \A s \in Sessions : RecoveredAlone(s))'
  BY RecoveredTogetherAlone, PTL
<1> QED BY <1>1

\* A session is still recovered, or still untouched, when a step changes none
\* of what the after-state is made of.
LEMMA UndisturbedSession ==
    ASSUME NEW s \in Sessions, RecoveredAlone(s), ExecutionsOwnTheirDiagnostic,
           production'[s] = production[s],
           {e \in executions' : e.session = s} = ExecutionRows(s),
           \A p \in Plans :
             \/ /\ plan[p].session = s /\ Status(p) = "executed"
                /\ plan'[p] = plan[p]
             \/ /\ ~(plan[p].session = s /\ Status(p) = "executed")
                /\ ~(plan'[p].session = s /\ Status(p)' = "executed"),
           executions \subseteq ExecutionType,
           \A d \in Diagnostics : diagnostic[d].session = s => diagnostic'[d] = diagnostic[d]
    PROVE  RecoveredAlone(s)'
<1>1. ExecutedPlans(s)' = ExecutedPlans(s)
  BY DEF ExecutedPlans, Status
<1>2. ExecutionRows(s)' = ExecutionRows(s)
  BY DEF ExecutionRows
<1>3. CASE ExecutedPlans(s) = {} /\ Untouched(s)
  BY <1>1, <1>2, <1>3 DEF RecoveredAlone, Untouched
<1>4. ASSUME NEW p \in Plans, NEW e \in executions, AfterState(s, p, e)
      PROVE  RecoveredAlone(s)'
  <2>1. p \in ExecutedPlans(s) /\ e \in ExecutionRows(s)
    BY <1>4 DEF AfterState
  <2>2. plan'[p] = plan[p] /\ e \in executions' /\ e.session = s
    BY <2>1 DEF ExecutedPlans, ExecutionRows
  <2>3. diagnostic'[e.diagnostic] = diagnostic[e.diagnostic]
    BY <2>2 DEF ExecutionsOwnTheirDiagnostic, ExecutionType
  <2>4. AfterState(s, p, e)'
    BY <1>1, <1>2, <1>4, <2>2, <2>3 DEF AfterState
  <2> QED BY <2>2, <2>4 DEF RecoveredAlone
<1> QED BY <1>3, <1>4 DEF RecoveredAlone

\* Creation empties the sessions it removes and the one it seeds.
LEMMA RecoveryCreateSession ==
    ASSUME RecoveryInv, NEW s \in Sessions, NEW now \in Instants, CreateSession(s, now)
    PROVE  AbsentOwnsNothing' /\ ExecutionsOwnTheirDiagnostic' /\ RecoveredTogether'
<1> DEFINE gone == Removable(now)
<1>0. NoSession \notin gone /\ \A p \in Plans : AbsentPlan.session = NoSession /\ NoSession \notin Sessions
  BY StoreAssumption DEF Removable, AbsentPlan
<1>1. /\ \A p \in Plans : plan'[p] = IF plan[p].session \in gone THEN AbsentPlan ELSE plan[p]
      /\ \A d \in Diagnostics :
           diagnostic'[d] = IF diagnostic[d].session \in gone THEN AbsentDiagnostic
                            ELSE diagnostic[d]
      /\ executions' = {e \in executions : e.session \notin gone}
      /\ \A t \in Sessions :
           /\ t \in gone \cup {s} => production'[t] = SeededProduction
           /\ t \notin gone \cup {s} => /\ production'[t] = production[t]
                                        /\ session'[t] = session[t]
  BY DEF CreateSession, KeptDiagnostics
<1>2. s \in gone \/ session[s].status = "absent"
  BY DEF CreateSession, Remaining, RecoveryInv, TypeOK, SessionType, Removable
<1>3. \A t \in gone \cup {s} : /\ \A p \in Plans : plan'[p].session # t
                               /\ \A e \in executions' : e.session # t
  BY <1>0, <1>1, <1>2 DEF RecoveryInv, AbsentOwnsNothing, Removable
<1>4. AbsentOwnsNothing'
  <2> SUFFICES ASSUME NEW t \in Sessions, session'[t].status = "absent"
               PROVE  /\ \A p \in Plans : plan'[p].session # t
                      /\ \A e \in executions' : e.session # t
                      /\ production'[t] = SeededProduction
    BY DEF AbsentOwnsNothing
  <2>1. CASE t \in gone \cup {s}
    BY <1>1, <1>3, <2>1
  <2>2. CASE t \notin gone \cup {s}
    BY <1>0, <1>1, <2>2 DEF RecoveryInv, AbsentOwnsNothing
  <2> QED BY <2>1, <2>2
<1>5. ExecutionsOwnTheirDiagnostic'
  BY <1>1 DEF RecoveryInv, ExecutionsOwnTheirDiagnostic, TypeOK, ExecutionType
<1>6. ASSUME NEW t \in Sessions PROVE RecoveredAlone(t)'
  <2>1. CASE t \in gone \cup {s}
    <3>1. ExecutedPlans(t)' = {} /\ Untouched(t)'
      BY <1>1, <1>3, <2>1 DEF ExecutedPlans, Untouched, ExecutionRows
    <3> QED BY <3>1 DEF RecoveredAlone
  <2>2. CASE t \notin gone \cup {s}
    <3>1. /\ RecoveredAlone(t) /\ ExecutionsOwnTheirDiagnostic
          /\ executions \subseteq ExecutionType
      BY RecoveredTogetherAlone DEF RecoveryInv, TypeOK
    <3>2. {e \in executions' : e.session = t} = ExecutionRows(t)
      BY <1>1, <2>2 DEF ExecutionRows
    <3>3. production'[t] = production[t]
      BY <1>1, <2>2
    <3>4. \A p \in Plans : \/ plan'[p] = plan[p]
                           \/ plan[p].session # t /\ plan'[p].session # t
      BY <1>0, <1>1, <2>2
    <3>5. \A d \in Diagnostics : diagnostic[d].session = t => diagnostic'[d] = diagnostic[d]
      BY <1>1, <2>2
    <3> QED BY <3>1, <3>2, <3>3, <3>4, <3>5, UndisturbedSession DEF Status
  <2> QED BY <2>1, <2>2
<1> QED BY <1>4, <1>5, <1>6, RecoveredTogetherAloneNext

\* What every step but a creation and an execution does: production and the
\* execution rows stay, an executed plan stays as it is and no other becomes
\* one, only a live session is given a plan, and no session is forgotten.
QuietStep ==
    /\ production' = production /\ executions' = executions
    /\ \A t \in Sessions : session'[t].status = "absent" => session[t].status = "absent"
    /\ \A d \in Diagnostics :
         diagnostic[d].session # NoSession => diagnostic'[d] = diagnostic[d]
    /\ \A p \in Plans :
         /\ Status(p) = "executed" => plan'[p] = plan[p]
         /\ Status(p)' = "executed" => Status(p) = "executed"
         /\ \/ plan'[p].session = plan[p].session
            \/ session'[plan'[p].session].status = "live"

\* A step that neither recovers nor creates a session leaves every session as
\* recovered, or as broken, as it was.
LEMMA RecoveryQuietStep ==
    ASSUME RecoveryInv, QuietStep
    PROVE  AbsentOwnsNothing' /\ ExecutionsOwnTheirDiagnostic' /\ RecoveredTogether'
<1>1. AbsentOwnsNothing'
  BY DEF RecoveryInv, AbsentOwnsNothing, QuietStep
<1>2. ExecutionsOwnTheirDiagnostic'
  BY StoreAssumption
     DEF RecoveryInv, ExecutionsOwnTheirDiagnostic, QuietStep, TypeOK, ExecutionType
<1>3. ASSUME NEW t \in Sessions PROVE RecoveredAlone(t)'
  <2>1. /\ RecoveredAlone(t) /\ ExecutionsOwnTheirDiagnostic
        /\ executions \subseteq ExecutionType
    BY RecoveredTogetherAlone DEF RecoveryInv, TypeOK
  <2>2. {e \in executions' : e.session = t} = ExecutionRows(t)
    BY DEF ExecutionRows, QuietStep
  <2>3. \A d \in Diagnostics : diagnostic[d].session = t => diagnostic'[d] = diagnostic[d]
    BY StoreAssumption DEF QuietStep
  <2>4. ASSUME NEW p \in Plans
        PROVE  \/ /\ plan[p].session = t /\ Status(p) = "executed"
                  /\ plan'[p] = plan[p]
               \/ /\ ~(plan[p].session = t /\ Status(p) = "executed")
                  /\ ~(plan'[p].session = t /\ Status(p)' = "executed")
    BY DEF QuietStep
  <2>5. production'[t] = production[t]
    BY DEF QuietStep
  <2> QED BY <2>1, <2>2, <2>3, <2>4, <2>5, UndisturbedSession
<1> QED BY <1>1, <1>2, <1>3, RecoveredTogetherAloneNext

\* A reset is such a step: no executed plan is invalidated.
LEMMA QuietResetSession ==
    ASSUME RecoveryInv, NEW s \in Sessions, NEW r \in Sessions, NEW now \in Instants,
           ResetSession(s, r, now)
    PROVE  QuietStep
<1> USE DEF ResetSession
<1>1. production' = production
  BY DEF RecoveryInv, AbsentOwnsNothing, TypeOK
<1>2. \A t \in Sessions : session'[t].status = "absent" => session[t].status = "absent"
  BY DEF RecoveryInv, TypeOK, SessionType, LiveSession
<1>3. \A p \in Plans : /\ plan'[p].session = plan[p].session
                       /\ Status(p) = "executed" => plan'[p] = plan[p]
                       /\ Status(p)' = "executed" => Status(p) = "executed"
  BY DEF RecoveryInv, TypeOK, PlanType, StateType, InvalidateRecovery, Status, Bare, ActiveStatus
<1> QED BY <1>1, <1>2, <1>3 DEF QuietStep

\* So is a preparation: the plan it adds is not executed.
LEMMA QuietPrepareRecovery ==
    ASSUME RecoveryInv, NEW s \in Sessions, NEW p \in Plans, NEW now \in Instants,
           NEW target \in Releases, NEW refs \in RefLists, NEW reason \in Reasons,
           PrepareRecovery(s, p, target, refs, reason, now)
    PROVE  QuietStep
<1> DEFINE overdue == OverduePlans(s, now)
<1>1. /\ plan'[p].session = s /\ Status(p)' = "prepared"
      /\ \A q \in Plans \ {p} : plan'[q] = Expire(overdue, now)[q]
      /\ session[s].status = "live"
  BY DEF PrepareRecovery, PreparedRow, PreparedSpec, PlanSpec, PreparedCommand,
         Command, Status, Bare, Expire, LockActive
<1>2. \A q \in Plans \ {p} : /\ plan'[q].session = plan[q].session
                             /\ Status(q)' \in {Status(q), "expired"}
                             /\ Status(q)' # Status(q) => q \in overdue
  BY <1>1, ExpireNarrows DEF Status, RecoveryInv
<1>3. \A q \in Plans \ {p} : Status(q) = "executed" => plan'[q] = plan[q]
  BY <1>1 DEF Expire, OverduePlans, PlansOf, Status
<1>4. Status(p) # "executed"
  BY DEF PrepareRecovery, RecoveryInv, FreeRowsAreAbsent, Status
<1> QED BY <1>1, <1>2, <1>3, <1>4 DEF QuietStep, PrepareRecovery

\* So is an expiry on read: no executed plan expires.
LEMMA QuietCurrentRecovery ==
    ASSUME RecoveryInv, NEW s \in Sessions, NEW now \in Instants, CurrentRecovery(s, now)
    PROVE  QuietStep
<1>1. \A q \in Plans : /\ plan'[q].session = plan[q].session
                       /\ Status(q)' \in {Status(q), "expired"}
  BY ExpireNarrows DEF Status, RecoveryInv, CurrentRecovery
<1>2. \A q \in Plans : Status(q) = "executed" => plan'[q] = plan[q]
  BY DEF CurrentRecovery, Expire, OverduePlans, PlansOf, Status
<1> QED BY <1>1, <1>2 DEF QuietStep, CurrentRecovery

\* So is a late decision or execution.
LEMMA QuietExpireInstead ==
    ASSUME RecoveryInv, NEW s \in Sessions, NEW p \in Plans, NEW now \in Instants,
           ExpireInstead(s, p, now), Usable(p)
    PROVE  QuietStep
BY DEF ExpireInstead, QuietStep, Status, Bare, Usable, RecoveryInv, TypeOK, PlanType

\* So is a decision: it is refused on an executed plan.
LEMMA QuietDecideRecovery ==
    ASSUME RecoveryInv, NEW s \in Sessions, NEW p \in Plans, NEW now \in Instants,
           NEW decision \in Decisions, DecideRecovery(s, p, decision, now)
    PROVE  QuietStep
<1> DEFINE next == DecidedState(LoadedSpec(p), plan[p].state, decision, now)
<1>1. decision.kind \in {"approve", "reject"}
  BY DEF Decisions
<1>2. next.status \in {"approved", "rejected"} /\ Status(p) # "executed"
  BY <1>1, DecisionOk DEF DecideRecovery, DecidedState, Approved, Bare, Status
<1>3. plan' = [plan EXCEPT ![p].state = next]
  BY DEF DecideRecovery
<1> HIDE DEF next
<1> QED BY <1>2, <1>3 DEF DecideRecovery, QuietStep, Status, RecoveryInv, TypeOK, PlanType

\* An execution writes the whole after-state of a session that had none.
LEMMA RecoveryExecuteRecovery ==
    ASSUME RecoveryInv, NEW s \in Sessions, NEW p \in Plans, NEW d \in Diagnostics,
           NEW now \in Instants, ExecuteRecovery(s, p, d, now)
    PROVE  AbsentOwnsNothing' /\ ExecutionsOwnTheirDiagnostic' /\ RecoveredTogether'
<1> DEFINE e == [session |-> s, plan |-> p, previous |-> plan[p].expected,
                 current |-> plan[p].target, diagnostic |-> d, executed_at |-> now]
           done == CompleteExecution(ClaimedState(plan[p].state), now)
<1>1. /\ plan[p].session = s /\ session[s].status = "live" /\ diagnostic[d].session = NoSession
      /\ production' = [production EXCEPT ![s] =
                          [release |-> plan[p].target, health |-> "healthy",
                           incident |-> "resolved"]]
      /\ diagnostic' = [diagnostic EXCEPT ![d] = DiagnosticRow(s, plan[p].target, p)]
      /\ executions' = executions \cup {e}
      /\ plan' = [plan EXCEPT ![p].state = done]
      /\ session' = session
  BY DEF ExecuteRecovery, Locked, LockActive, AfterStateDiagnostic
<1>2. done.status = "executed" /\ done.executed_at = now
  BY DEF CompleteExecution
<1>3. Status(p) = "approved" /\ production[s].incident = "active"
  BY ExecutionOk DEF ExecuteRecovery, ExecutionFacts, Status
<1>4. plan \in [Plans -> PlanType] /\ diagnostic \in [Diagnostics -> DiagnosticType]
      /\ production \in [Sessions -> ProductionType] /\ executions \subseteq ExecutionType
  BY DEF RecoveryInv, TypeOK
<1>5. /\ plan'[p].session = s /\ Status(p)' = "executed"
      /\ plan'[p].target = plan[p].target /\ plan'[p].expected = plan[p].expected
      /\ plan'[p].state.executed_at = now
      /\ \A q \in Plans \ {p} : plan'[q] = plan[q]
  <2> HIDE DEF done
  <2> QED BY <1>1, <1>2, <1>4 DEF Status, PlanType
<1>6. /\ diagnostic'[d].session = s /\ diagnostic'[d].plan = p
      /\ \A x \in Diagnostics \ {d} : diagnostic'[x] = diagnostic[x]
  BY <1>1, <1>4 DEF DiagnosticRow
<1> HIDE DEF done
<1>7. AbsentOwnsNothing'
  BY <1>1, <1>4, <1>5 DEF RecoveryInv, AbsentOwnsNothing
<1>8. \A x \in executions : x.diagnostic # d
  BY <1>1, <1>4, StoreAssumption DEF RecoveryInv, ExecutionsOwnTheirDiagnostic, ExecutionType
<1>9. ExecutionsOwnTheirDiagnostic'
  BY <1>1, <1>4, <1>6, <1>8
     DEF RecoveryInv, ExecutionsOwnTheirDiagnostic, ExecutionType
<1>10. RecoveredAlone(s)'
  <2>1. ExecutedPlans(s) = {} /\ Untouched(s)
    <3>1. RecoveredAlone(s)
      BY RecoveredTogetherAlone DEF RecoveryInv
    <3>2. ~ \E q \in Plans, x \in executions : AfterState(s, q, x)
      <4>1. \A q \in Plans, x \in executions :
              AfterState(s, q, x) => production[s].incident = "resolved"
        BY DEF AfterState
      <4> QED BY <1>3, <4>1
    <3> QED BY <3>1, <3>2 DEF RecoveredAlone
  <2>2. ExecutedPlans(s)' = {p}
    BY <1>5, <2>1 DEF ExecutedPlans, Status
  <2>3. ExecutionRows(s)' = {e}
    BY <1>1, <2>1 DEF ExecutionRows, Untouched
  <2>4. production'[s] = [release |-> plan[p].target, health |-> "healthy",
                          incident |-> "resolved"]
    BY <1>1, <1>4
  <2>5. AfterState(s, p, e)'
    BY <1>5, <1>6, <2>2, <2>3, <2>4 DEF AfterState
  <2> QED BY <1>1, <2>5 DEF RecoveredAlone
<1>11. ASSUME NEW t \in Sessions \ {s} PROVE RecoveredAlone(t)'
  <2>1. /\ RecoveredAlone(t) /\ ExecutionsOwnTheirDiagnostic
        /\ executions \subseteq ExecutionType
    BY RecoveredTogetherAlone DEF RecoveryInv, TypeOK
  <2>2. {x \in executions' : x.session = t} = ExecutionRows(t)
    BY <1>1 DEF ExecutionRows
  <2>3. \A x \in Diagnostics : diagnostic[x].session = t => diagnostic'[x] = diagnostic[x]
    BY <1>1, <1>6, StoreAssumption
  <2>4. \A q \in Plans : \/ plan'[q] = plan[q]
                         \/ plan[q].session # t /\ plan'[q].session # t
    BY <1>1, <1>5
  <2>5. production'[t] = production[t]
    BY <1>1
  <2> QED BY <2>1, <2>2, <2>3, <2>4, <2>5, UndisturbedSession DEF Status
<1> QED BY <1>7, <1>9, <1>10, <1>11, RecoveredTogetherAloneNext

\* No operation changes the state of a row that no session owns.
LEMMA FreeRowsStep ==
    ASSUME RecoveryInv, [Next]_vars
    PROVE  FreeRowsAreAbsent'
<1>1. ASSUME \A p \in Plans :
               \/ plan'[p].session \in Sessions
               \/ plan'[p].session = NoSession /\ plan'[p] = plan[p]
               \/ plan'[p] = AbsentPlan
      PROVE  FreeRowsAreAbsent'
  <2>1. AbsentPlan.state.status = "absent"
    BY DEF AbsentPlan, Bare
  <2> QED BY <1>1, <2>1, StoreAssumption DEF RecoveryInv, FreeRowsAreAbsent, Status
<1>2. /\ plan \in [Plans -> PlanType]
      /\ \A p \in Plans : plan[p].session \in Sessions \/ plan[p].session = NoSession
  BY DEF RecoveryInv, TypeOK, PlanType
<1>3. ASSUME UNCHANGED plan PROVE FreeRowsAreAbsent'
  BY <1>1, <1>2, <1>3
<1>4. ASSUME NEW s \in Sessions, NEW now \in Instants, CreateSession(s, now)
      PROVE  FreeRowsAreAbsent'
  BY <1>1, <1>2, <1>4 DEF CreateSession
<1>5. ASSUME NEW s \in Sessions, NEW r \in Sessions, NEW now \in Instants,
             ResetSession(s, r, now)
      PROVE  FreeRowsAreAbsent'
  BY <1>1, <1>2, <1>5 DEF ResetSession, PlanType
<1>6. ASSUME NEW s \in Sessions, NEW p \in Plans, NEW now \in Instants,
             NEW target \in Releases, NEW refs \in RefLists, NEW reason \in Reasons,
             PrepareRecovery(s, p, target, refs, reason, now)
      PROVE  FreeRowsAreAbsent'
  <2>1. plan'[p].session = s
    <3> DEFINE row == PreparedRow(PreparedSpec(s, p, target, refs, reason, now), refs)
               expired == Expire(OverduePlans(s, now), now)
    <3>1. row.session = s
      BY DEF PreparedRow, PreparedSpec, PlanSpec, PreparedCommand, Command
    <3>2. plan' = [expired EXCEPT ![p] = row]
      BY <1>6, Zenon DEF PrepareRecovery
    <3>3. DOMAIN expired = Plans
      BY DEF Expire
    <3> HIDE DEF row, expired
    <3> QED BY <3>1, <3>2, <3>3
  <2>2. \A q \in Plans \ {p} : plan'[q] = Expire(OverduePlans(s, now), now)[q]
    BY <1>6 DEF PrepareRecovery, Expire
  <2>3. \A q \in Plans \ {p} : \/ plan'[q] = plan[q]
                               \/ plan[q].session = s /\ plan'[q].session = plan[q].session
    <3> SUFFICES ASSUME NEW q \in Plans \ {p}
                 PROVE  \/ plan'[q] = plan[q]
                        \/ plan[q].session = s /\ plan'[q].session = plan[q].session
      OBVIOUS
    <3>1. CASE q \in OverduePlans(s, now)
      <4>1. PICK state : plan'[q] = [plan[q] EXCEPT !.state = state]
        BY <2>2, <3>1 DEF Expire
      <4>2. plan[q].session = s
        BY <3>1 DEF OverduePlans, PlansOf
      <4> QED BY <1>2, <4>1, <4>2 DEF PlanType
    <3>2. CASE q \notin OverduePlans(s, now)
      BY <2>2, <3>2 DEF Expire
    <3> QED BY <3>1, <3>2
  <2> QED BY <1>1, <1>2, <2>1, <2>3
<1>7. ASSUME NEW s \in Sessions, NEW now \in Instants, CurrentRecovery(s, now)
      PROVE  FreeRowsAreAbsent'
  <2>1. \A q \in Plans : \/ plan'[q] = plan[q]
                         \/ plan[q].session = s /\ plan'[q].session = plan[q].session
    BY <1>2, <1>7 DEF CurrentRecovery, Expire, OverduePlans, PlansOf, PlanType
  <2> QED BY <1>1, <1>2, <2>1
<1>8. ASSUME NEW s \in Sessions, NEW p \in Plans, NEW state, plan[p].session = s,
             plan' = [plan EXCEPT ![p].state = state]
      PROVE  FreeRowsAreAbsent'
  BY <1>1, <1>2, <1>8 DEF PlanType
<1> QED
  <2>1. CASE \E s \in Sessions, p \in Plans, now \in Instants :
               \/ DecideLate(s, p, now)
               \/ \E decision \in Decisions : DecideRecovery(s, p, decision, now)
               \/ ExecuteLate(s, p, now)
               \/ \E d \in Diagnostics : ExecuteRecovery(s, p, d, now)
    BY <1>8, <2>1 DEF DecideLate, ExecuteLate, ExpireInstead, DecideRecovery,
                      ExecuteRecovery, Locked
  <2>2. CASE \/ Tick \/ UNCHANGED vars
             \/ \E s \in Sessions, d \in Diagnostics, now \in Instants :
                  RunDatabaseDiagnostic(s, d, now)
             \/ \E s \in Sessions, p \in Plans, now \in Instants : VerifyRecovery(s, p, now)
    BY <1>3, <2>2 DEF Tick, vars, recoveryVars, RunDatabaseDiagnostic, VerifyRecovery
  <2> QED BY <1>4, <1>5, <1>6, <1>7, <2>1, <2>2, Zenon DEF Next, Operation

\* The empty database satisfies the invariant.
LEMMA RecoveryInit == Init => RecoveryInv
<1> SUFFICES ASSUME Init PROVE RecoveryInv
  OBVIOUS
<1>1. \A p \in Plans : plan[p].session = NoSession /\ Status(p) = "absent"
  <2>1. AbsentPlan.session = NoSession /\ AbsentPlan.state.status = "absent"
    BY DEF AbsentPlan, Bare
  <2> QED BY <2>1 DEF Init, Status
<1>2. executions = {} /\ \A s \in Sessions : production[s] = SeededProduction
  BY DEF Init
<1>3. AbsentOwnsNothing /\ ExecutionsOwnTheirDiagnostic /\ FreeRowsAreAbsent
  BY <1>1, <1>2, StoreAssumption
     DEF AbsentOwnsNothing, ExecutionsOwnTheirDiagnostic, FreeRowsAreAbsent
<1>4. RecoveredTogether
  BY <1>1, <1>2 DEF RecoveredTogether
<1> QED BY <1>3, <1>4, TypeInit, OneActivePlanInit DEF RecoveryInv

\* Every step keeps the invariant.
LEMMA RecoveryStep == RecoveryInv /\ [Next]_vars => RecoveryInv'
<1> SUFFICES ASSUME RecoveryInv, [Next]_vars
             PROVE  AbsentOwnsNothing' /\ ExecutionsOwnTheirDiagnostic' /\ RecoveredTogether'
  BY TypeStep, OneActivePlanStep, FreeRowsStep DEF RecoveryInv
<1>1. ASSUME QuietStep
      PROVE  AbsentOwnsNothing' /\ ExecutionsOwnTheirDiagnostic' /\ RecoveredTogether'
  BY <1>1, RecoveryQuietStep
<1>2. ASSUME UNCHANGED <<session, production, plan, executions>>,
             \/ UNCHANGED diagnostic
             \/ \E s \in Sessions, d \in Diagnostics, now \in Instants :
                  RunDatabaseDiagnostic(s, d, now)
      PROVE  QuietStep
  <2>1. \A d \in Diagnostics :
          diagnostic[d].session # NoSession => diagnostic'[d] = diagnostic[d]
    BY <1>2 DEF RunDatabaseDiagnostic, RecoveryInv, TypeOK
  <2> QED BY <1>2, <2>1 DEF QuietStep, Status
<1>3. ASSUME NEW s \in Sessions, NEW p \in Plans, NEW now \in Instants,
             DecideLate(s, p, now) \/ ExecuteLate(s, p, now)
      PROVE  QuietStep
  BY <1>3, QuietExpireInstead
     DEF DecideLate, ExecuteLate, Overdue, LateExecution, Usable, Status
<1>4. CASE \/ Tick \/ UNCHANGED vars
           \/ \E s \in Sessions, d \in Diagnostics, now \in Instants :
                RunDatabaseDiagnostic(s, d, now)
           \/ \E s \in Sessions, p \in Plans, now \in Instants : VerifyRecovery(s, p, now)
  <2>1. QuietStep
    BY <1>2, <1>4 DEF Tick, vars, recoveryVars, RunDatabaseDiagnostic, VerifyRecovery
  <2> QED BY <1>1, <2>1
<1> QED
  BY <1>1, <1>3, <1>4, RecoveryCreateSession, QuietResetSession, QuietPrepareRecovery,
     QuietCurrentRecovery, QuietDecideRecovery, RecoveryExecuteRecovery, Zenon
     DEF Next, Operation

\* The after-state is all or nothing in every reachable state: the release, the
\* health, the incident, the executed plan and its execution row are committed
\* together, and a session is recovered by at most one plan.
THEOREM RecoveryIsAtomic == Spec => []RecoveredTogether
<1>1. RecoveryInv => RecoveredTogether
  BY DEF RecoveryInv
<1> QED BY <1>1, RecoveryInit, RecoveryStep, PTL DEF Spec

-----------------------------------------------------------------------------
\* No recovery without a recorded human approval.

\* The approval of an approved plan is in the audit trail of its session.
ApprovalIsAudited ==
    \A p \in Plans : Status(p) = "approved" =>
        /\ plan[p].session \in Sessions
        /\ \E e \in audit : /\ e.event = "human_approval" /\ e.subject = p
                            /\ e.session = plan[p].session

\* A step that keeps the audit trail keeps the approval of a plan that stays.
LEMMA ApprovalStaysAudited ==
    ASSUME ApprovalIsAudited, audit \subseteq audit',
           \A p \in Plans : Status(p)' = "approved" =>
              Status(p) = "approved" /\ plan'[p].session = plan[p].session
    PROVE  ApprovalIsAudited'
BY DEF ApprovalIsAudited

\* Creation deletes an approved plan and its events together.
LEMMA AuditedCreateSession ==
    ASSUME ApprovalIsAudited, NEW s \in Sessions, NEW now \in Instants, CreateSession(s, now)
    PROVE  ApprovalIsAudited'
<1> SUFFICES ASSUME NEW p \in Plans, Status(p)' = "approved"
             PROVE  /\ plan'[p].session \in Sessions
                    /\ \E e \in audit' : /\ e.event = "human_approval" /\ e.subject = p
                                         /\ e.session = plan'[p].session
  BY DEF ApprovalIsAudited
<1>1. AbsentPlan.state.status # "approved"
  BY DEF AbsentPlan, Bare
<1>2. plan'[p] = plan[p] /\ plan[p].session \notin Removable(now)
  BY <1>1 DEF CreateSession, Status
<1> QED BY <1>2 DEF ApprovalIsAudited, Status, CreateSession

\* An approval is recorded by the transaction that grants it.
LEMMA AuditedDecideRecovery ==
    ASSUME TypeOK, ApprovalIsAudited, NEW s \in Sessions, NEW p \in Plans,
           NEW now \in Instants, NEW decision \in Decisions,
           DecideRecovery(s, p, decision, now)
    PROVE  ApprovalIsAudited'
<1> DEFINE next == DecidedState(LoadedSpec(p), plan[p].state, decision, now)
<1>1. /\ plan' = [plan EXCEPT ![p].state = next] /\ plan[p].session = s
      /\ audit \subseteq audit'
      /\ next.status = "approved" /\ next # plan[p].state =>
           audit' = audit \cup Audit(s, "human_approval", p, now)
  BY DEF DecideRecovery, Locked
<1> HIDE DEF next
<1>2. /\ plan'[p].state = next /\ plan'[p].session = s
      /\ \A q \in Plans \ {p} : plan'[q] = plan[q]
  BY <1>1 DEF TypeOK, PlanType
<1>3. ASSUME next.status = "approved"
      PROVE  \E e \in audit' : e.event = "human_approval" /\ e.subject = p /\ e.session = s
  <2>1. CASE next = plan[p].state
    BY <1>1, <1>3, <2>1 DEF ApprovalIsAudited, Status
  <2>2. CASE next # plan[p].state
    <3>1. audit' = audit \cup Audit(s, "human_approval", p, now)
      BY <1>1, <1>3, <2>2
    <3>2. \E e \in audit \cup Audit(s, "human_approval", p, now) :
            e.event = "human_approval" /\ e.subject = p /\ e.session = s
      <4>1. CASE Recorded(s, "human_approval", p)
        BY <4>1 DEF Recorded
      <4>2. CASE ~Recorded(s, "human_approval", p)
        <5>1. Event(s, "human_approval", p, now) \in Audit(s, "human_approval", p, now)
          BY <4>2 DEF Audit
        <5>2. Event(s, "human_approval", p, now).subject = p
          BY DEF Event
        <5>3. /\ Event(s, "human_approval", p, now).event = "human_approval"
              /\ Event(s, "human_approval", p, now).session = s
          BY DEF Event
        <5> QED BY <5>1, <5>2, <5>3
      <4> QED BY <4>1, <4>2
    <3> QED BY <3>1, <3>2
  <2> QED BY <2>1, <2>2
<1> QED BY <1>1, <1>2, <1>3 DEF ApprovalIsAudited, Status

\* The other operations approve nothing and only add to the trail.
LEMMA AuditedQuietly ==
    ASSUME TypeOK, ApprovalIsAudited, [Next]_vars
    PROVE  ApprovalIsAudited'
<1>1. plan \in [Plans -> PlanType]
  BY DEF TypeOK
<1>2. ASSUME UNCHANGED plan, audit \subseteq audit' PROVE ApprovalIsAudited'
  BY <1>2, ApprovalStaysAudited DEF Status
<1>3. ASSUME NEW s \in Sessions, NEW r \in Sessions, NEW now \in Instants,
             ResetSession(s, r, now)
      PROVE  ApprovalIsAudited'
  <2>1. \A p \in Plans : /\ plan'[p].session = plan[p].session
                         /\ Status(p)' \in {Status(p), "invalidated"}
    BY <1>1, <1>3 DEF ResetSession, InvalidateRecovery, Status, Bare, PlanType
  <2> QED BY <1>3, <2>1, ApprovalStaysAudited DEF ResetSession
<1>4. ASSUME NEW overdue, NEW now, NEW p \in Plans
      PROVE  /\ Expire(overdue, now)[p].session = plan[p].session
             /\ Expire(overdue, now)[p].state.status \in {Status(p), "expired"}
  BY <1>1 DEF Expire, ExpireRecovery, Bare, Status, PlanType
<1>5. ASSUME NEW s \in Sessions, NEW p \in Plans, NEW now \in Instants,
             NEW target \in Releases, NEW refs \in RefLists, NEW reason \in Reasons,
             PrepareRecovery(s, p, target, refs, reason, now)
      PROVE  ApprovalIsAudited'
  <2>1. \A q \in Plans \ {p} : plan'[q] = Expire(OverduePlans(s, now), now)[q]
    BY <1>5 DEF PrepareRecovery, Expire
  <2>2. Status(p)' = "prepared"
    BY <1>5 DEF PrepareRecovery, PreparedRow, Status, Bare, Expire
  <2>3. audit \subseteq audit'
    BY <1>5 DEF PrepareRecovery
  <2> QED BY <1>4, <2>1, <2>2, <2>3, ApprovalStaysAudited DEF Status
<1>6. ASSUME NEW s \in Sessions, NEW now \in Instants, CurrentRecovery(s, now)
      PROVE  ApprovalIsAudited'
  <2>1. plan' = Expire(OverduePlans(s, now), now) /\ audit \subseteq audit'
    BY <1>6 DEF CurrentRecovery
  <2> QED BY <1>4, <2>1, ApprovalStaysAudited DEF Status
<1>7. ASSUME NEW p \in Plans, NEW state, state.status # "approved",
             plan' = [plan EXCEPT ![p].state = state], audit \subseteq audit'
      PROVE  ApprovalIsAudited'
  BY <1>1, <1>7, ApprovalStaysAudited DEF Status, PlanType
<1>8. ASSUME NEW s \in Sessions, NEW p \in Plans, NEW now \in Instants,
             DecideLate(s, p, now) \/ ExecuteLate(s, p, now)
      PROVE  ApprovalIsAudited'
  <2>1. Bare("expired").status # "approved"
    BY DEF Bare
  <2> QED BY <1>7, <1>8, <2>1 DEF DecideLate, ExecuteLate, ExpireInstead
<1>9. ASSUME NEW s \in Sessions, NEW p \in Plans, NEW d \in Diagnostics,
             NEW now \in Instants, ExecuteRecovery(s, p, d, now)
      PROVE  ApprovalIsAudited'
  <2>1. CompleteExecution(ClaimedState(plan[p].state), now).status # "approved"
    BY DEF CompleteExecution
  <2> QED BY <1>7, <1>9, <2>1 DEF ExecuteRecovery
<1>10. CASE \/ Tick \/ UNCHANGED vars
            \/ \E s \in Sessions, d \in Diagnostics, now \in Instants :
                 RunDatabaseDiagnostic(s, d, now)
            \/ \E s \in Sessions, p \in Plans, now \in Instants : VerifyRecovery(s, p, now)
  BY <1>2, <1>10 DEF Tick, vars, recoveryVars, RunDatabaseDiagnostic, VerifyRecovery
<1> QED
  BY <1>3, <1>5, <1>6, <1>8, <1>9, <1>10, AuditedCreateSession, AuditedDecideRecovery, Zenon
     DEF Next, Operation

\* Only an execution resolves an incident.
LEMMA OnlyExecutionRecovers ==
    ASSUME TypeOK, [Next]_vars, NEW s \in Sessions,
           production[s].incident = "active", production'[s].incident = "resolved"
    PROVE  \E p \in Plans, d \in Diagnostics, now \in Instants : ExecuteRecovery(s, p, d, now)
<1>1. SeededProduction.incident = "active"
  BY DEF SeededProduction
<1>2. ASSUME NEW t \in Sessions, NEW now \in Instants, CreateSession(t, now) PROVE FALSE
  BY <1>1, <1>2 DEF CreateSession
<1>3. ASSUME NEW t \in Sessions, NEW r \in Sessions, NEW now \in Instants,
             ResetSession(t, r, now)
      PROVE  FALSE
  BY <1>1, <1>3 DEF ResetSession, TypeOK
<1>4. ASSUME NEW t \in Sessions, NEW p \in Plans, NEW d \in Diagnostics,
             NEW now \in Instants, ExecuteRecovery(t, p, d, now)
      PROVE  t = s
  BY <1>4 DEF ExecuteRecovery, TypeOK
<1>5. ASSUME UNCHANGED production PROVE FALSE
  BY <1>5
<1> QED
  <2>1. CASE UNCHANGED vars
    BY <1>5, <2>1 DEF vars
  <2>2. CASE Tick
    BY <1>5, <2>2 DEF Tick
  <2>3. \A t \in Sessions, d \in Diagnostics, now \in Instants :
          ~RunDatabaseDiagnostic(t, d, now)
    BY <1>5 DEF RunDatabaseDiagnostic
  <2>4. \A t \in Sessions, p \in Plans, now \in Instants :
          \A target \in Releases, refs \in RefLists, reason \in Reasons :
            ~PrepareRecovery(t, p, target, refs, reason, now)
    BY <1>5 DEF PrepareRecovery
  <2>5. \A t \in Sessions, now \in Instants : ~CurrentRecovery(t, now)
    BY <1>5 DEF CurrentRecovery
  <2>6. \A t \in Sessions, p \in Plans, now \in Instants :
          /\ ~DecideLate(t, p, now) /\ ~ExecuteLate(t, p, now) /\ ~VerifyRecovery(t, p, now)
          /\ \A decision \in Decisions : ~DecideRecovery(t, p, decision, now)
    BY <1>5 DEF DecideLate, ExecuteLate, ExpireInstead, VerifyRecovery, DecideRecovery
  <2> QED
    BY <1>2, <1>3, <1>4, <2>1, <2>2, <2>3, <2>4, <2>5, <2>6, Zenon DEF Next, Operation

\* Production recovers only by executing a plan of that session that a human had
\* approved on exactly the stored facts, with the approval on record.
THEOREM RecoveryRequiresApproval == Spec => RecoveryNeedsApproval
<1>1. Init => ApprovalIsAudited
  <2>1. AbsentPlan.state.status # "approved"
    BY DEF AbsentPlan, Bare
  <2> QED BY <2>1 DEF Init, ApprovalIsAudited, Status
<1>2. ASSUME TypeOK, ApprovalIsAudited, [Next]_vars, NEW s \in Sessions,
             production[s].incident = "active", production'[s].incident = "resolved"
      PROVE  RecoveryStepAllowed(s)
  <2>1. PICK p \in Plans, d \in Diagnostics, now \in Instants : ExecuteRecovery(s, p, d, now)
    BY <1>2, OnlyExecutionRecovers
  <2>2. /\ plan[p].session = s /\ Status(p) = "approved"
        /\ plan[p].state.approved_fingerprint = Fingerprint(LoadedSpec(p))
    BY <2>1, ExecutionOk DEF ExecuteRecovery, Locked, Status
  <2>3. Status(p)' = "executed"
    <3>1. CompleteExecution(ClaimedState(plan[p].state), now).status = "executed"
      BY DEF CompleteExecution
    <3> QED BY <1>2, <2>1, <3>1 DEF ExecuteRecovery, Status, TypeOK, PlanType
  <2>4. production'[s].release = plan[p].target
    BY <1>2, <2>1 DEF ExecuteRecovery, TypeOK
  <2>5. \E e \in audit : e.event = "human_approval" /\ e.subject = p
    BY <1>2, <2>2 DEF ApprovalIsAudited
  <2> QED BY <2>2, <2>3, <2>4, <2>5 DEF RecoveryStepAllowed
<1>3. TypeOK /\ ApprovalIsAudited /\ [Next]_vars =>
        [\A s \in Sessions :
           production[s].incident = "active" /\ production'[s].incident = "resolved"
             => RecoveryStepAllowed(s)]_vars
  BY <1>2
<1>4. TypeOK /\ ApprovalIsAudited /\ [Next]_vars => ApprovalIsAudited'
  BY AuditedQuietly
<1> QED BY <1>1, <1>3, <1>4, TypeInit, TypeStep, PTL DEF Spec, RecoveryNeedsApproval
=============================================================================
