----------------------- MODULE RecoveryLifecycleProofs -----------------------
(***************************************************************************)
(* Theorems about the life of plans and sessions in RecoveryStore: what a  *)
(* row may become, that its reviewed facts stay what a human approved,     *)
(* that it can still be loaded and executed, and what verification finds;  *)
(* how many sessions there are, what is left of a revoked one, that no     *)
(* operation reaches into another one, and that the audit trail of a       *)
(* session is the story of its plans.  Then that the store implements      *)
(* RecoveryAuthority, and how far instants that were read before a request *)
(* waited can be from the order of the commits.                            *)
(***************************************************************************)
EXTENDS RecoveryRefinement, RecoveryStoreProofs

-----------------------------------------------------------------------------
\* What a step may do to one plan.

\* The approval pair is stored with an approved or executed plan and nowhere
\* else, and only an existing row has a status.
StatesKeepTheirColumns ==
    \A p \in Plans :
        /\ Exists(p) <=> Status(p) # "absent"
        /\ Status(p) \notin {"approved", "executed"} => plan[p].state = Bare(Status(p))
        /\ Status(p) = "approved" => plan[p].state.executed_at = NoTime

StateChanges(p, state) == plan'[p] = [plan[p] EXCEPT !.state = state]

\* Rejection, expiry or invalidation of a plan that could still be used.
Withdraws(p) ==
    /\ Usable(p)
    /\ \E status \in {"rejected", "expired", "invalidated"} : StateChanges(p, Bare(status))

\* A transition at an instant inside the plan's window.
InWindow(p, now) == plan[p].since <= now /\ now < PlanExpiry(p)
Approves(p, now) ==
    /\ Status(p) = "prepared" /\ InWindow(p, now)
    /\ StateChanges(p, Approved(now, Fingerprint(LoadedSpec(p))))
Executes(p, now) ==
    /\ Status(p) = "approved" /\ InWindow(p, now)
    /\ StateChanges(p, CompleteExecution(ClaimedState(plan[p].state), now))

\* The row disappears with its session.
Removed(p) ==
    /\ plan'[p] = AbsentPlan
    /\ \E now \in Instants :
         /\ plan[p].session \in Removable(now)
         /\ session'[plan[p].session] # session[plan[p].session]

\* prepare_recovery inserts the row.
Added(p) ==
    \E s \in Sessions, now \in Instants :
        \E target \in Releases, refs \in RefLists, reason \in Reasons :
            /\ PrepareRecovery(s, p, target, refs, reason, now)
            /\ plan'[p] = PreparedRow(PreparedSpec(s, p, target, refs, reason, now), refs)

PlanMoves(p) ==
    \/ plan'[p] = plan[p]
    \/ Withdraws(p)
    \/ \E now \in Instants : Approves(p, now) \/ Executes(p, now)
    \/ Removed(p)
    \/ Added(p)

\* A row given the state it has is the row.
LEMMA RowWithItsState ==
    ASSUME TypeOK, NEW p \in Plans
    PROVE  [plan[p] EXCEPT !.state = plan[p].state] = plan[p]
BY DEF TypeOK, PlanType

\* Expiry withdraws the plans it changes.
LEMMA ExpireMoves ==
    ASSUME TypeOK, NEW overdue, NEW now, NEW p \in Plans,
           plan'[p] = Expire(overdue, now)[p]
    PROVE  plan'[p] = plan[p] \/ Withdraws(p)
<1>1. CASE p \in overdue /\ Overdue(LoadedSpec(p), plan[p].state, now)
  BY <1>1 DEF Expire, ExpireRecovery, Withdraws, StateChanges, Usable, Status, Overdue
<1>2. CASE ~(p \in overdue /\ Overdue(LoadedSpec(p), plan[p].state, now))
  <2>1. plan'[p] = plan[p] \/ plan'[p] = [plan[p] EXCEPT !.state = plan[p].state]
    BY <1>2 DEF Expire, ExpireRecovery
  <2> QED BY <2>1, RowWithItsState
<1> QED BY <1>1, <1>2

\* A late decision or execution withdraws its plan and touches no other.
LEMMA ExpireInsteadMoves ==
    ASSUME TypeOK, NEW s \in Sessions, NEW q \in Plans, NEW now, Usable(q),
           ExpireInstead(s, q, now), NEW p \in Plans
    PROVE  plan'[p] = plan[p] \/ Withdraws(p)
BY DEF ExpireInstead, TypeOK, Withdraws, StateChanges

\* The instants of a transition taken under the lock are inside the window.
LEMMA LockedInWindow ==
    ASSUME NEW s, NEW p \in Plans, NEW now, Locked(s, p, now), ~(now >= PlanExpiry(p)),
           TypeOK, now \in Nat
    PROVE  InWindow(p, now)
<1>1. plan[p].since \in Nat /\ PlanExpiry(p) \in Int
  BY DomainAssumption DEF TypeOK, PlanType, PlanExpiry
<1> QED BY <1>1 DEF Locked, InWindow

\* A decision approves a prepared plan, withdraws a usable one, or repeats
\* itself and changes nothing.
LEMMA DecideMoves ==
    ASSUME TypeOK, StatesKeepTheirColumns, NEW s \in Sessions, NEW q \in Plans,
           NEW now \in Instants, NEW decision \in Decisions,
           DecideRecovery(s, q, decision, now), NEW p \in Plans
    PROVE  plan'[p] = plan[p] \/ Withdraws(p) \/ Approves(p, now)
<1> DEFINE next == DecidedState(LoadedSpec(q), plan[q].state, decision, now)
<1>1. plan' = [plan EXCEPT ![q].state = next] /\ Locked(s, q, now)
  BY DEF DecideRecovery
<1>2. decision.kind \in {"approve", "reject"}
  BY DEF Decisions
<1>3. ~Overdue(LoadedSpec(q), plan[q].state, now)
  BY <1>2, DecisionOk DEF DecideRecovery
<1>4. CASE p # q
  BY <1>1, <1>4 DEF TypeOK
<1>5. CASE p = q /\ decision.kind = "approve"
  <2>1. Usable(q)
    BY <1>5, DecisionOk DEF DecideRecovery, Usable, Status
  <2>2. InWindow(q, now)
    BY <1>1, <1>3, <2>1, LockedInWindow, InstantType
       DEF Overdue, Usable, Status, LoadedSpec, PlanSpec, LoadedCommand, Command, PlanExpiry
  <2>3. CASE Status(q) = "prepared"
    <3>1. next = Approved(now, Fingerprint(LoadedSpec(q)))
      BY <1>5, <2>3 DEF DecidedState, Status
    <3> HIDE DEF next
    <3> QED BY <1>1, <1>5, <2>2, <2>3, <3>1 DEF Approves, StateChanges, TypeOK
  <2>4. CASE Status(q) = "approved"
    <3>1. next = plan[q].state
      BY <1>5, <2>4 DEF DecidedState, Status
    <3> HIDE DEF next
    <3> QED BY <1>1, <1>5, <3>1 DEF TypeOK, PlanType
  <2> QED BY <2>1, <2>3, <2>4 DEF Usable
<1>6. CASE p = q /\ decision.kind = "reject"
  <2>1. next = Bare("rejected") /\ (Usable(q) \/ Status(q) = "rejected")
    BY <1>6, DecisionOk DEF DecideRecovery, DecidedState, Usable, Status
  <2> HIDE DEF next
  <2>2. CASE Usable(q)
    BY <1>1, <1>6, <2>1, <2>2 DEF Withdraws, StateChanges, TypeOK
  <2>3. CASE Status(q) = "rejected"
    <3>1. next = plan[q].state
      BY <2>1, <2>3 DEF StatesKeepTheirColumns
    <3> QED BY <1>1, <1>6, <3>1 DEF TypeOK, PlanType
  <2> QED BY <2>1, <2>2, <2>3
<1> QED BY <1>2, <1>4, <1>5, <1>6

\* An execution completes the approved plan it was asked for.
LEMMA ExecuteMoves ==
    ASSUME TypeOK, NEW s \in Sessions, NEW q \in Plans, NEW d \in Diagnostics,
           NEW now \in Instants, ExecuteRecovery(s, q, d, now), NEW p \in Plans
    PROVE  plan'[p] = plan[p] \/ Executes(p, now)
<1>1. /\ plan' = [plan EXCEPT ![q].state =
                    CompleteExecution(ClaimedState(plan[q].state), now)]
      /\ Locked(s, q, now)
  BY DEF ExecuteRecovery
<1>2. Status(q) = "approved" /\ ~(now >= PlanExpiry(q))
  BY ExecutionOk DEF ExecuteRecovery, Status, LoadedSpec, PlanSpec, LoadedCommand,
                     Command, PlanExpiry
<1>3. InWindow(q, now)
  BY <1>1, <1>2, LockedInWindow, InstantType
<1> QED BY <1>1, <1>2, <1>3 DEF Executes, StateChanges, TypeOK

\* A creation removes the plans of the sessions it removes, and those sessions
\* are not what they were.
LEMMA CreateMoves ==
    ASSUME TypeOK, NEW s \in Sessions, NEW now \in Instants, CreateSession(s, now),
           NEW p \in Plans
    PROVE  plan'[p] = plan[p] \/ Removed(p)
<1> DEFINE t == plan[p].session
<1> SUFFICES ASSUME t \in Removable(now)
             PROVE  plan'[p] = AbsentPlan /\ session'[t] # session[t]
  BY DEF CreateSession, Removed, TypeOK
<1>1. session'[t] = IF t = s THEN LiveSession(now) ELSE AbsentSession
  BY DEF CreateSession, Removable
<1>2. session[t] \in SessionType /\ now \in Nat
  BY InstantType DEF Removable, TypeOK
<1>3. ~(session[t].status = "live" /\ session[t].created_at = now)
  BY <1>2, StoreAssumption DEF Removable, SessionExpiry, SessionType
<1>4. session[t].status # "absent"
  BY DEF Removable
<1> QED BY <1>1, <1>3, <1>4 DEF CreateSession, LiveSession, AbsentSession

\* Every step of the store moves every plan in one of these ways.
LEMMA StepsMovePlans ==
    ASSUME TypeOK, OneActivePlan, StatesKeepTheirColumns, [Next]_vars, NEW p \in Plans
    PROVE  PlanMoves(p)
<1> USE DEF PlanMoves
<1>1. ASSUME NEW s \in Sessions, NEW r \in Sessions, NEW now \in Instants,
             ResetSession(s, r, now)
      PROVE  plan'[p] = plan[p] \/ Withdraws(p)
  <2>1. plan[p] \in PlanType /\ Status(p) # "executing"
    BY DEF TypeOK, OneActivePlan
  <2> QED BY <1>1, <2>1
          DEF ResetSession, InvalidateRecovery, Withdraws, StateChanges, Usable,
              Status, ActiveStatus, PlanType
<1>2. ASSUME NEW s \in Sessions, NEW q \in Plans, NEW now \in Instants,
             DecideLate(s, q, now) \/ ExecuteLate(s, q, now)
      PROVE  plan'[p] = plan[p] \/ Withdraws(p)
  BY <1>2, ExpireInsteadMoves
     DEF DecideLate, ExecuteLate, Overdue, LateExecution, Usable, Status
<1>3. ASSUME NEW s \in Sessions, NEW q \in Plans, NEW now \in Instants,
             NEW target \in Releases, NEW refs \in RefLists, NEW reason \in Reasons,
             PrepareRecovery(s, q, target, refs, reason, now)
      PROVE  PlanMoves(p)
  <2>1. CASE p = q
    <3>1. plan'[p] = PreparedRow(PreparedSpec(s, p, target, refs, reason, now), refs)
      BY <1>3, <2>1 DEF PrepareRecovery, Expire
    <3> QED BY <1>3, <2>1, <3>1 DEF Added
  <2>2. CASE p # q
    <3>1. plan'[p] = Expire(OverduePlans(s, now), now)[p]
      BY <1>3, <2>2 DEF PrepareRecovery, Expire
    <3> QED BY <3>1, ExpireMoves
  <2> QED BY <2>1, <2>2
<1>4. ASSUME NEW s \in Sessions, NEW now \in Instants, CurrentRecovery(s, now)
      PROVE  plan'[p] = plan[p] \/ Withdraws(p)
  BY <1>4, ExpireMoves DEF CurrentRecovery
<1>5. ASSUME UNCHANGED plan PROVE PlanMoves(p)
  BY <1>5
<1>6. CASE \/ Tick \/ UNCHANGED vars
           \/ \E s \in Sessions, d \in Diagnostics, now \in Instants :
                RunDatabaseDiagnostic(s, d, now)
           \/ \E s \in Sessions, q \in Plans, now \in Instants : VerifyRecovery(s, q, now)
  BY <1>5, <1>6 DEF Tick, vars, recoveryVars, RunDatabaseDiagnostic, VerifyRecovery
<1> QED
  BY <1>1, <1>2, <1>3, <1>4, <1>6, CreateMoves, DecideMoves, ExecuteMoves, Zenon DEF Next, Operation

\* The columns prepare_recovery wrote stay.
SameFacts(p) ==
    /\ plan'[p].session = plan[p].session /\ plan'[p].expected = plan[p].expected
    /\ plan'[p].target = plan[p].target /\ plan'[p].reason = plan[p].reason
    /\ plan'[p].evidence = plan[p].evidence /\ plan'[p].created_at = plan[p].created_at
    /\ plan'[p].fingerprint = plan[p].fingerprint /\ plan'[p].since = plan[p].since

\* A transition of a row changes its state and nothing else.
LEMMA StateChangesOnlyState ==
    ASSUME TypeOK, NEW p \in Plans, NEW state, StateChanges(p, state)
    PROVE  SameFacts(p) /\ plan'[p].state = state /\ Facts(p)' = Facts(p)
<1>1. plan[p] \in PlanType
  BY DEF TypeOK
<1>2. SameFacts(p) /\ plan'[p].state = state
  BY <1>1 DEF StateChanges, SameFacts, PlanType
<1>3. DOMAIN plan'[p] = DOMAIN plan[p] /\ \A c \in DOMAIN plan[p] \ {"state"} : plan'[p][c] = plan[p][c]
  BY <1>1 DEF StateChanges, PlanType
<1>4. Facts(p)' = Facts(p)
  BY <1>3 DEF Facts
<1> QED BY <1>2, <1>4

\* The states a step can give to a row that stays.
LEMMA StayingRows ==
    ASSUME TypeOK, NEW p \in Plans, PlanMoves(p), ~Removed(p), ~Added(p)
    PROVE  /\ SameFacts(p) /\ Facts(p)' = Facts(p)
           /\ \/ plan'[p].state = plan[p].state
              \/ Usable(p) /\ \E status \in {"rejected", "expired", "invalidated"} :
                                 plan'[p].state = Bare(status)
              \/ \E now \in Instants : InWindow(p, now) /\
                    \/ /\ Status(p) = "prepared"
                       /\ plan'[p].state = Approved(now, Fingerprint(LoadedSpec(p)))
                    \/ /\ Status(p) = "approved"
                       /\ plan'[p].state = CompleteExecution(ClaimedState(plan[p].state), now)
<1>1. CASE plan'[p] = plan[p]
  BY <1>1 DEF SameFacts, Facts
<1>2. CASE Withdraws(p)
  BY <1>2, StateChangesOnlyState DEF Withdraws
<1>3. ASSUME NEW now \in Instants, Approves(p, now) \/ Executes(p, now)
      PROVE  /\ SameFacts(p) /\ Facts(p)' = Facts(p) /\ InWindow(p, now)
             /\ \/ /\ Status(p) = "prepared"
                   /\ plan'[p].state = Approved(now, Fingerprint(LoadedSpec(p)))
                \/ /\ Status(p) = "approved"
                   /\ plan'[p].state = CompleteExecution(ClaimedState(plan[p].state), now)
  BY <1>3, StateChangesOnlyState, Zenon DEF Approves, Executes
<1> QED BY <1>1, <1>2, <1>3, Zenon DEF PlanMoves

\* The row prepare_recovery inserts, column by column.
LEMMA AddedRow ==
    ASSUME NEW s, NEW p, NEW now, NEW target, NEW refs, NEW reason
    PROVE  LET row == PreparedRow(PreparedSpec(s, p, target, refs, reason, now), refs)
           IN  /\ row.session = s /\ row.expected = production[s].release
               /\ row.target = target /\ row.reason = Trimmed(reason)
               /\ row.evidence = {refs[i] : i \in DOMAIN refs} /\ row.created_at = now
               /\ row.fingerprint = Fingerprint(PreparedSpec(s, p, target, refs, reason, now))
               /\ row.state = Bare("prepared") /\ row.since = clock
BY DEF PreparedRow, PreparedSpec, PlanSpec, PreparedCommand, Command

\* Only a row that does not exist is inserted.
LEMMA AddedWasFree ==
    ASSUME NEW p \in Plans, Added(p)
    PROVE  ~Exists(p) /\ plan'[p].state = Bare("prepared") /\ plan'[p].session \in Sessions
BY AddedRow DEF Added, PrepareRecovery, Exists

\* The columns of the states.
LEMMA StateColumns ==
    /\ \A status : Bare(status).status = status
    /\ \A at, fingerprint :
         /\ Approved(at, fingerprint).status = "approved"
         /\ Approved(at, fingerprint).approved_at = at
         /\ Approved(at, fingerprint).approved_fingerprint = fingerprint
         /\ Approved(at, fingerprint).executed_at = NoTime
    /\ \A state, at :
         /\ CompleteExecution(ClaimedState(state), at).status = "executed"
         /\ CompleteExecution(ClaimedState(state), at).executed_at = at
    /\ AbsentPlan.state = Bare("absent") /\ AbsentPlan.session = NoSession
BY DEF Bare, Approved, CompleteExecution, AbsentPlan

\* The approval pair is written and cleared with the status it belongs to.
LEMMA ColumnsStep ==
    ASSUME TypeOK, OneActivePlan, StatesKeepTheirColumns, [Next]_vars
    PROVE  StatesKeepTheirColumns'
<1> SUFFICES ASSUME NEW p \in Plans
             PROVE  /\ Exists(p)' <=> Status(p)' # "absent"
                    /\ Status(p)' \notin {"approved", "executed"}
                         => plan'[p].state = Bare(Status(p)')
                    /\ Status(p)' = "approved" => plan'[p].state.executed_at = NoTime
  BY DEF StatesKeepTheirColumns
<1>1. PlanMoves(p)
  BY StepsMovePlans
<1>2. CASE Removed(p)
  BY <1>2, StateColumns DEF Removed, Exists, Status
<1>3. CASE Added(p)
  <2>1. plan'[p].state = Bare("prepared") /\ plan'[p].session # NoSession
    BY <1>3, AddedWasFree, StoreAssumption
  <2> QED BY <2>1, StateColumns DEF Exists, Status
<1>4. CASE ~Removed(p) /\ ~Added(p)
  <2>1. SameFacts(p)
    BY <1>1, <1>4, StayingRows
  <2>2. \/ plan'[p].state = plan[p].state
        \/ Status(p) # "absent" /\ \E status \in {"rejected", "expired", "invalidated"} :
                                     plan'[p].state = Bare(status)
        \/ Status(p) # "absent" /\ plan'[p].state.status = "approved"
           /\ plan'[p].state.executed_at = NoTime
        \/ Status(p) # "absent" /\ plan'[p].state.status = "executed"
    <3>1. /\ Usable(p) => Status(p) # "absent"
          /\ Status(p) = "prepared" => Status(p) # "absent"
          /\ Status(p) = "approved" => Status(p) # "absent"
      BY DEF Usable
    <3>2. ASSUME NEW now, \/ /\ Status(p) = "prepared"
                             /\ plan'[p].state = Approved(now, Fingerprint(LoadedSpec(p)))
                          \/ /\ Status(p) = "approved"
                             /\ plan'[p].state = CompleteExecution(ClaimedState(plan[p].state), now)
          PROVE  /\ Status(p) # "absent"
                 /\ \/ plan'[p].state.status = "approved" /\ plan'[p].state.executed_at = NoTime
                    \/ plan'[p].state.status = "executed"
      BY <3>1, <3>2, StateColumns
    <3> QED BY <1>1, <1>4, <3>1, <3>2, StayingRows, Zenon
  <2>3. Exists(p)' <=> Exists(p)
    BY <2>1 DEF SameFacts, Exists
  <2> QED BY <2>2, <2>3, StateColumns DEF StatesKeepTheirColumns, Status
<1> QED BY <1>2, <1>3, <1>4

\* An empty row has the columns of no state.
LEMMA ColumnsInit == Init => StatesKeepTheirColumns
BY StateColumns DEF Init, StatesKeepTheirColumns, Exists, Status

\* A terminal plan never changes again, a plan's reviewed facts never change,
\* and a plan row disappears only with its session.
THEOREM TerminalIsFinal == Spec => TerminalPlansAreFinal
<1>1. TypeOK /\ OneActivePlan /\ StatesKeepTheirColumns /\ [Next]_vars
        => [\A p \in Plans : PlanStepAllowed(p)]_vars
  <2> SUFFICES ASSUME TypeOK, OneActivePlan, StatesKeepTheirColumns, [Next]_vars,
                      NEW p \in Plans
               PROVE  PlanStepAllowed(p)
    OBVIOUS
  <2>1. PlanMoves(p)
    BY StepsMovePlans
  <2>2. CASE Removed(p)
    BY <2>2 DEF Removed, PlanStepAllowed
  <2>3. CASE Added(p)
    BY <2>3, AddedWasFree DEF PlanStepAllowed
  <2>4. CASE ~Removed(p) /\ ~Added(p)
    <3>1. Facts(p)' = Facts(p) /\ (plan'[p].state = plan[p].state \/ Usable(p))
      BY <2>1, <2>4, StayingRows DEF Usable
    <3> QED BY <3>1 DEF PlanStepAllowed, Usable, TerminalStatus
  <2> QED BY <2>2, <2>3, <2>4
<1> QED
  BY <1>1, TypeInit, TypeStep, OneActivePlanInit, OneActivePlanStep, ColumnsInit,
     ColumnsStep, PTL DEF Spec, TerminalPlansAreFinal

-----------------------------------------------------------------------------
\* The facts of a plan.

\* The evidence of a plan stays resolvable in its session.
EvidenceIsOwned ==
    \A p \in Plans : Exists(p) =>
        \A ref \in plan[p].evidence :
            ref \in Logs \/ diagnostic[ref].session = plan[p].session

\* The stored fingerprint, and the approved one, are those of the stored facts.
FingerprintsMatch ==
    \A p \in Plans : Exists(p) =>
        /\ plan[p].fingerprint = Fingerprint(LoadedSpec(p))
        /\ plan[p].fingerprint # NoFingerprint
        /\ Status(p) \in {"approved", "executed"} =>
             plan[p].state.approved_fingerprint = Fingerprint(LoadedSpec(p))

\* A plan is about the release that broke, and while it can be used its session
\* is still broken.
PlansAreAboutTheFault ==
    \A p \in Plans :
        /\ Exists(p) => plan[p].expected = SeededProduction.release
        /\ Usable(p) => production[plan[p].session] = SeededProduction

\* A plan was created no later than it was committed.
CreatedBeforeCommit == \A p \in Plans : plan[p].created_at <= plan[p].since

\* The diagnostic of an execution is the one of the release it restored.
DiagnosticsDescribeTheirRelease ==
    \A d \in Diagnostics : diagnostic[d].session # NoSession =>
        diagnostic[d].result = DatabaseConnectivityDiagnostic(diagnostic[d].release)
ExecutionsDiagnoseTheirTarget ==
    \A e \in executions : diagnostic[e.diagnostic].release = e.current

LifecycleInv ==
    /\ RecoveryInv
    /\ StatesKeepTheirColumns
    /\ EvidenceIsOwned
    /\ FingerprintsMatch
    /\ PlansReload
    /\ PlansAreAboutTheFault
    /\ CreatedBeforeCommit
    /\ DecisionsInWindow
    /\ DiagnosticsDescribeTheirRelease
    /\ ExecutionsDiagnoseTheirTarget

-----------------------------------------------------------------------------
\* The stored facts of a plan stay what they were.

\* A diagnostic row is only deleted with its session.
LEMMA OwnedDiagnosticsStay ==
    ASSUME TypeOK, [Next]_vars, NEW d \in Diagnostics, diagnostic[d].session # NoSession
    PROVE  \/ diagnostic'[d] = diagnostic[d]
           \/ \E s \in Sessions, now \in Instants :
                CreateSession(s, now) /\ diagnostic[d].session \in Removable(now)
<1>1. ASSUME UNCHANGED diagnostic PROVE diagnostic'[d] = diagnostic[d]
  BY <1>1
<1>2. ASSUME NEW s \in Sessions, NEW now \in Instants, CreateSession(s, now)
      PROVE  diagnostic'[d] = diagnostic[d] \/ diagnostic[d].session \in Removable(now)
  BY <1>2 DEF CreateSession, KeptDiagnostics
<1>3. ASSUME NEW s \in Sessions, NEW x \in Diagnostics, NEW now \in Instants,
             \/ RunDatabaseDiagnostic(s, x, now)
             \/ \E p \in Plans : ExecuteRecovery(s, p, x, now)
      PROVE  diagnostic'[d] = diagnostic[d]
  BY <1>3 DEF RunDatabaseDiagnostic, ExecuteRecovery, TypeOK
<1>4. ASSUME NEW s \in Sessions, NEW now \in Instants,
             \/ \E r \in Sessions : ResetSession(s, r, now)
             \/ CurrentRecovery(s, now)
             \/ \E p \in Plans, target \in Releases, refs \in RefLists, reason \in Reasons :
                  PrepareRecovery(s, p, target, refs, reason, now)
             \/ \E p \in Plans : \/ DecideLate(s, p, now) \/ ExecuteLate(s, p, now)
                                 \/ VerifyRecovery(s, p, now)
                                 \/ \E decision \in Decisions :
                                      DecideRecovery(s, p, decision, now)
      PROVE  UNCHANGED diagnostic
  BY <1>4 DEF ResetSession, CurrentRecovery, PrepareRecovery, DecideLate, ExecuteLate,
              ExpireInstead, VerifyRecovery, DecideRecovery, recoveryVars
<1>5. CASE Tick \/ UNCHANGED vars
  BY <1>5 DEF Tick, vars, recoveryVars
<1> QED BY <1>1, <1>2, <1>3, <1>4, <1>5, Zenon DEF Next, Operation

\* A creation deletes the diagnostics and the plans of the same sessions, so the
\* evidence of a plan that stays does too.
LEMMA EvidenceStays ==
    ASSUME TypeOK, EvidenceIsOwned, [Next]_vars,
           NEW p \in Plans, Exists(p), plan'[p] # AbsentPlan
    PROVE  \A ref \in plan[p].evidence : ref \in Logs \/ diagnostic'[ref] = diagnostic[ref]
<1> SUFFICES ASSUME NEW ref \in plan[p].evidence, ref \notin Logs
             PROVE  diagnostic'[ref] = diagnostic[ref]
  OBVIOUS
<1>1. diagnostic[ref].session = plan[p].session
  BY DEF EvidenceIsOwned
<1>2. ref \in Diagnostics /\ diagnostic[ref].session # NoSession
  BY <1>1 DEF TypeOK, PlanType, EvidenceIds, Exists
<1>3. ASSUME NEW s \in Sessions, NEW now \in Instants, CreateSession(s, now),
             plan[p].session \in Removable(now)
      PROVE  FALSE
  BY <1>3 DEF CreateSession
<1> QED BY <1>1, <1>2, <1>3, OwnedDiagnosticsStay

\* So the facts load_plan rebuilds, and whether it accepts them, do not change.
LEMMA LoadedFactsStay ==
    ASSUME NEW p \in Plans, SameFacts(p),
           \A ref \in plan[p].evidence : ref \in Logs \/ diagnostic'[ref] = diagnostic[ref]
    PROVE  /\ LoadedSpec(p)' = LoadedSpec(p)
           /\ Loads(p)' <=> Loads(p)
<1>1. LoadedCommand(p)' = LoadedCommand(p)
  BY DEF LoadedCommand, Command, SameFacts
<1>2. LoadedEvidence(p)' = LoadedEvidence(p)
  <2>1. \A ref \in plan[p].evidence :
          EvidenceRecord(plan[p].session, ref, plan[p].expected)'
            = EvidenceRecord(plan[p].session, ref, plan[p].expected)
    BY DEF EvidenceRecord, SameFacts
  <2> QED BY <2>1 DEF LoadedEvidence, SameFacts
<1> QED BY <1>1, <1>2 DEF LoadedSpec, Loads

\* A plan just prepared loads, as exactly the facts that were reviewed.
LEMMA AddedPlanLoads ==
    ASSUME TypeOK, NEW s \in Sessions, NEW p \in Plans, NEW now \in Instants,
           NEW target \in Releases, NEW refs \in RefLists, NEW reason \in Reasons,
           PrepareRecovery(s, p, target, refs, reason, now),
           plan'[p] = PreparedRow(PreparedSpec(s, p, target, refs, reason, now), refs)
    PROVE  /\ LoadedSpec(p)' = PreparedSpec(s, p, target, refs, reason, now)
           /\ Loads(p)'
<1> DEFINE list == EvidenceList(s, refs)
           items == {list[i] : i \in DOMAIN refs}
           old == PreparedCommand(s, p, target, reason, now)
           new == LoadedCommand(p)'
<1>1. /\ plan'[p].session = s /\ plan'[p].expected = production[s].release
      /\ plan'[p].target = target /\ plan'[p].reason = Trimmed(reason)
      /\ plan'[p].evidence = {refs[i] : i \in DOMAIN refs} /\ plan'[p].created_at = now
  BY AddedRow
<1>2. diagnostic' = diagnostic /\ PrepareError(old, list) = "ok"
  BY DEF PrepareRecovery
<1>3. LoadedEvidence(p)' = items
  <2>1. \A ref : EvidenceRecord(s, ref, production[s].release)'
                   = EvidenceRecord(s, ref, production[s].release)
    BY <1>2 DEF EvidenceRecord, PrepareRecovery
  <2>2. \A ref : EvidenceRecord(plan[p].session, ref, plan[p].expected)'
                   = EvidenceRecord(s, ref, production[s].release)
    BY <1>1, <1>2 DEF EvidenceRecord
  <2>3. LoadedEvidence(p)' = {EvidenceRecord(s, ref, production[s].release) :
                                ref \in {refs[i] : i \in DOMAIN refs}}
    BY <1>1, <2>2 DEF LoadedEvidence
  <2>4. \A i \in DOMAIN refs : list[i] = EvidenceRecord(s, refs[i], production[s].release)
    BY DEF EvidenceList
  <2> HIDE DEF list
  <2> QED BY <2>3, <2>4
<1>4. /\ new.plan = old.plan /\ new.session = old.session /\ new.incident = old.incident
      /\ new.service = old.service /\ new.generation = old.generation
      /\ new.expected = old.expected /\ new.target = old.target
      /\ new.target_service = old.target_service /\ new.target_state = old.target_state
      /\ new.created_at = old.created_at /\ Trimmed(new.reason) = Trimmed(old.reason)
  <2>1. new = Command(s, p, production[s].release, target, [text |-> Trimmed(reason)], now)
    BY <1>1 DEF LoadedCommand, Command
  <2> HIDE DEF new
  <2> QED BY <2>1 DEF PreparedCommand, Command, Trimmed
<1>5. LoadedSpec(p)' = PreparedSpec(s, p, target, refs, reason, now)
  <2>1. LoadedSpec(p)' = PlanSpec(new, items)
    <3> HIDE DEF items
    <3> QED BY <1>3 DEF LoadedSpec
  <2>2. PreparedSpec(s, p, target, refs, reason, now) = PlanSpec(old, items)
    BY DEF PreparedSpec
  <2> HIDE DEF new, old, items
  <2> QED BY <1>4, <2>1, <2>2 DEF PlanSpec
<1> HIDE DEF new, old
<1>6. CommandError(new) = CommandError(old)
  BY <1>4 DEF CommandError, ReasonAccepted
<1>7. CommandError(old) = "ok" /\ EvidenceListError(list, old) = "ok"
  BY <1>2 DEF PrepareError, old
<1>8. EvidenceAccepted(items, new) <=> EvidenceAccepted(items, old)
  BY <1>4 DEF EvidenceAccepted, ItemChecks
<1>9. EvidenceAccepted(items, old)
  <2> DEFINE S == {EvidenceRecord(s, ref, production[s].release) : ref \in EvidenceIds}
  <2>1. refs \in Seq(EvidenceIds)
    BY StoreAssumption DEF EvidenceIds
  <2>2. list \in Seq(S) /\ DOMAIN list = DOMAIN refs
    BY <2>1 DEF EvidenceList
  <2> HIDE DEF list, S
  <2> QED BY <1>7, <2>2, ListAcceptedAsSet
<1> QED BY <1>3, <1>5, <1>6, <1>7, <1>8, <1>9 DEF Loads, new

\* What a step does to a plan that exists after it: it was there with the same
\* facts, or it was just prepared.
LEMMA SurvivingPlan ==
    ASSUME LifecycleInv, [Next]_vars, NEW p \in Plans, Exists(p)', ~Added(p)
    PROVE  /\ Exists(p) /\ SameFacts(p)
           /\ \A ref \in plan[p].evidence : ref \in Logs \/ diagnostic'[ref] = diagnostic[ref]
           /\ LoadedSpec(p)' = LoadedSpec(p)
           /\ Loads(p)' <=> Loads(p)
<1>1. TypeOK /\ OneActivePlan /\ StatesKeepTheirColumns /\ EvidenceIsOwned
  BY DEF LifecycleInv, RecoveryInv
<1>2. plan'[p] # AbsentPlan /\ ~Removed(p)
  BY StateColumns DEF Exists, Removed
<1>3. SameFacts(p)
  BY <1>1, <1>2, StepsMovePlans, StayingRows
<1>4. Exists(p)
  BY <1>3 DEF Exists, SameFacts
<1>5. \A ref \in plan[p].evidence : ref \in Logs \/ diagnostic'[ref] = diagnostic[ref]
  BY <1>1, <1>2, <1>4, EvidenceStays
<1> QED BY <1>3, <1>4, <1>5, LoadedFactsStay

\* A plan just prepared refers to evidence of its own session only.
LEMMA EvidenceIsOwnedStep ==
    ASSUME LifecycleInv, [Next]_vars
    PROVE  EvidenceIsOwned'
<1> SUFFICES ASSUME NEW p \in Plans, Exists(p)', NEW ref \in plan'[p].evidence, ref \notin Logs
             PROVE  diagnostic'[ref].session = plan'[p].session
  BY DEF EvidenceIsOwned
<1>1. CASE Added(p)
  <2>1. PICK s \in Sessions, now \in Instants, target \in Releases, refs \in RefLists,
             reason \in Reasons :
               /\ PrepareRecovery(s, p, target, refs, reason, now)
               /\ plan'[p] = PreparedRow(PreparedSpec(s, p, target, refs, reason, now), refs)
    BY <1>1 DEF Added
  <2>2. plan'[p].session = s /\ plan'[p].evidence = {refs[i] : i \in DOMAIN refs}
    BY <2>1, AddedRow
  <2>3. PICK i \in DOMAIN refs : ref = refs[i]
    BY <2>2
  <2>4. Resolves(s, ref, now) /\ diagnostic' = diagnostic
    BY <2>1, <2>3 DEF PrepareRecovery
  <2> QED BY <2>2, <2>4 DEF Resolves
<1>2. CASE ~Added(p)
  BY <1>2, SurvivingPlan DEF LifecycleInv, EvidenceIsOwned, SameFacts
<1> QED BY <1>1, <1>2

\* A prepared plan stores the fingerprint of what it loads; an approval copies
\* the fingerprint of what it loads, and neither is ever overwritten.
LEMMA FingerprintsStep ==
    ASSUME LifecycleInv, [Next]_vars
    PROVE  FingerprintsMatch' /\ PlansReload'
<1> SUFFICES ASSUME NEW p \in Plans, Exists(p)'
             PROVE  /\ plan'[p].fingerprint = Fingerprint(LoadedSpec(p)')
                    /\ plan'[p].fingerprint # NoFingerprint
                    /\ Status(p)' \in {"approved", "executed"} =>
                         plan'[p].state.approved_fingerprint = Fingerprint(LoadedSpec(p)')
                    /\ Loads(p)'
  BY DEF FingerprintsMatch, PlansReload, Fingerprint
<1>1. CASE Added(p)
  <2>1. PICK s \in Sessions, now \in Instants, target \in Releases, refs \in RefLists,
             reason \in Reasons :
               /\ PrepareRecovery(s, p, target, refs, reason, now)
               /\ plan'[p] = PreparedRow(PreparedSpec(s, p, target, refs, reason, now), refs)
    BY <1>1 DEF Added
  <2>2. /\ LoadedSpec(p)' = PreparedSpec(s, p, target, refs, reason, now)
        /\ Loads(p)'
    BY <2>1, AddedPlanLoads DEF LifecycleInv, RecoveryInv
  <2>3. /\ plan'[p].fingerprint = Fingerprint(PreparedSpec(s, p, target, refs, reason, now))
        /\ Status(p)' = "prepared"
    BY <2>1, AddedRow, StateColumns DEF Status
  <2>4. Fingerprint(PreparedSpec(s, p, target, refs, reason, now)) # NoFingerprint
    <3>1. now \in Nat
      BY InstantType DEF LifecycleInv, RecoveryInv
    <3> QED BY <3>1, PreparedDigest, NullAssumption DEF LifecycleInv, RecoveryInv
  <2> QED BY <2>2, <2>3, <2>4
<1>2. CASE ~Added(p)
  <2>1. /\ Exists(p) /\ SameFacts(p) /\ LoadedSpec(p)' = LoadedSpec(p)
        /\ Loads(p)' <=> Loads(p)
    BY <1>2, SurvivingPlan
  <2>2. Status(p)' \in {"approved", "executed"} =>
          plan'[p].state.approved_fingerprint = Fingerprint(LoadedSpec(p))
    <3>1. ~Removed(p)
      BY StateColumns DEF Removed, Exists
    <3>2. PlanMoves(p)
      BY StepsMovePlans DEF LifecycleInv, RecoveryInv
    <3>3. CASE plan'[p].state = plan[p].state
      BY <2>1, <3>3 DEF LifecycleInv, FingerprintsMatch, Status
    <3>4. ASSUME NEW status \in {"rejected", "expired", "invalidated"},
                 plan'[p].state = Bare(status)
          PROVE  Status(p)' \notin {"approved", "executed"}
      BY <3>4, StateColumns DEF Status
    <3>5. ASSUME NEW now, plan'[p].state = Approved(now, Fingerprint(LoadedSpec(p)))
          PROVE  plan'[p].state.approved_fingerprint = Fingerprint(LoadedSpec(p))
      BY <3>5, StateColumns
    <3>6. ASSUME NEW now, Status(p) = "approved",
                 plan'[p].state = CompleteExecution(ClaimedState(plan[p].state), now)
          PROVE  plan'[p].state.approved_fingerprint = Fingerprint(LoadedSpec(p))
      <4>1. plan[p].state.approved_fingerprint = Fingerprint(LoadedSpec(p))
        BY <2>1, <3>6 DEF LifecycleInv, FingerprintsMatch
      <4>2. plan[p].state \in StateType
        BY DEF LifecycleInv, RecoveryInv, TypeOK, PlanType
      <4> QED BY <3>6, <4>1, <4>2 DEF CompleteExecution, ClaimedState, StateType
    <3> QED BY <1>2, <3>1, <3>2, <3>3, <3>4, <3>5, <3>6, StayingRows, Zenon
            DEF LifecycleInv, RecoveryInv
  <2> QED BY <2>1, <2>2 DEF LifecycleInv, FingerprintsMatch, PlansReload, SameFacts
<1> QED BY <1>1, <1>2

\* A transition keeps the instants it writes inside the window.
LEMMA WindowsStep ==
    ASSUME LifecycleInv, [Next]_vars
    PROVE  CreatedBeforeCommit' /\ DecisionsInWindow'
<1>1. TypeOK /\ OneActivePlan /\ StatesKeepTheirColumns
  BY DEF LifecycleInv, RecoveryInv
<1> SUFFICES ASSUME NEW p \in Plans
             PROVE  /\ plan'[p].created_at <= plan'[p].since
                    /\ \A at \in {plan'[p].state.approved_at, plan'[p].state.executed_at} :
                         at # NoTime => plan'[p].created_at <= at /\ at < PlanExpiry(p)'
  BY DEF CreatedBeforeCommit, DecisionsInWindow
<1>2. \A status : Bare(status).approved_at = NoTime /\ Bare(status).executed_at = NoTime
  BY DEF Bare
<1>3. CASE Removed(p)
  <2>1. /\ AbsentPlan.created_at <= AbsentPlan.since
        /\ AbsentPlan.state.approved_at = NoTime /\ AbsentPlan.state.executed_at = NoTime
    BY <1>2 DEF AbsentPlan
  <2> QED BY <1>3, <2>1 DEF Removed
<1>4. CASE Added(p)
  <2>1. PICK now \in Instants : /\ plan'[p].created_at = now /\ plan'[p].since = clock
                                /\ plan'[p].state = Bare("prepared")
    <3>1. PICK s \in Sessions, now \in Instants, target \in Releases, refs \in RefLists,
               reason \in Reasons :
                 plan'[p] = PreparedRow(PreparedSpec(s, p, target, refs, reason, now), refs)
      BY <1>4 DEF Added
    <3> QED BY <3>1, AddedRow
  <2>2. now <= clock
    BY <1>1, InstantType
  <2>3. plan'[p].state.approved_at = NoTime /\ plan'[p].state.executed_at = NoTime
    BY <1>2, <2>1, Zenon
  <2>4. plan'[p].created_at <= plan'[p].since
    BY <2>1, <2>2
  <2> QED BY <2>3, <2>4
<1>5. CASE ~Removed(p) /\ ~Added(p)
  <2>1. PlanMoves(p)
    BY <1>1, StepsMovePlans
  <2>2. SameFacts(p) /\ PlanExpiry(p)' = PlanExpiry(p)
    BY <1>1, <1>5, <2>1, StayingRows DEF SameFacts, PlanExpiry
  <2>3. plan[p].created_at <= plan[p].since /\ plan[p] \in PlanType /\ plan[p].state \in StateType
    BY <1>1 DEF LifecycleInv, CreatedBeforeCommit, TypeOK, PlanType
  <2> SUFFICES \A at \in {plan'[p].state.approved_at, plan'[p].state.executed_at} :
                 at # NoTime => plan[p].created_at <= at /\ at < PlanExpiry(p)
    BY <2>2, <2>3 DEF SameFacts
  <2>4. \A at \in {plan[p].state.approved_at, plan[p].state.executed_at} :
          at # NoTime => plan[p].created_at <= at /\ at < PlanExpiry(p)
    BY DEF LifecycleInv, DecisionsInWindow
  <2>5. \A now \in Instants : InWindow(p, now) =>
          plan[p].created_at <= now /\ now < PlanExpiry(p)
    <3> TAKE now \in Instants
    <3>1. now \in Nat
      BY <1>1, InstantType
    <3> QED BY <2>3, <3>1 DEF InWindow, PlanType
  <2>6. CASE plan'[p].state = plan[p].state
    BY <2>4, <2>6
  <2>7. ASSUME NEW status, plan'[p].state = Bare(status)
        PROVE  \A at \in {plan'[p].state.approved_at, plan'[p].state.executed_at} : at = NoTime
    BY <1>2, <2>7
  <2>8. ASSUME NEW now \in Instants, InWindow(p, now),
               \/ plan'[p].state = Approved(now, Fingerprint(LoadedSpec(p)))
               \/ plan'[p].state = CompleteExecution(ClaimedState(plan[p].state), now)
        PROVE  plan'[p].state.approved_at \in {now, plan[p].state.approved_at}
               /\ plan'[p].state.executed_at \in {now, NoTime}
    <3>1. ClaimedState(plan[p].state).approved_at = plan[p].state.approved_at
      BY <2>3 DEF ClaimedState, StateType
    <3>2. CompleteExecution(ClaimedState(plan[p].state), now).approved_at
            = plan[p].state.approved_at
      BY <3>1 DEF CompleteExecution
    <3> QED BY <2>8, <3>2, StateColumns
  <2>9. ASSUME NEW now \in Instants, InWindow(p, now),
               \/ plan'[p].state = Approved(now, Fingerprint(LoadedSpec(p)))
               \/ plan'[p].state = CompleteExecution(ClaimedState(plan[p].state), now)
        PROVE  \A at \in {plan'[p].state.approved_at, plan'[p].state.executed_at} :
                 at # NoTime => plan[p].created_at <= at /\ at < PlanExpiry(p)
    BY <2>4, <2>5, <2>8, <2>9
  <2> QED BY <1>1, <1>5, <2>1, <2>6, <2>7, <2>9, StayingRows, Zenon
<1> QED BY <1>3, <1>4, <1>5

\* Production of a session changes by an execution in it, or back to the seed.
LEMMA ProductionMoves ==
    ASSUME TypeOK, [Next]_vars, NEW s \in Sessions
    PROVE  \/ production'[s] \in {production[s], SeededProduction}
           \/ \E q \in Plans, d \in Diagnostics, now \in Instants : ExecuteRecovery(s, q, d, now)
<1> DEFINE Stays == production'[s] \in {production[s], SeededProduction}
<1>1. ASSUME NEW t \in Sessions, NEW now \in Instants,
             CreateSession(t, now) \/ \E r \in Sessions : ResetSession(t, r, now)
      PROVE  Stays
  BY <1>1 DEF CreateSession, ResetSession, TypeOK
<1>2. ASSUME NEW t \in Sessions, NEW q \in Plans, NEW d \in Diagnostics,
             NEW now \in Instants, ExecuteRecovery(t, q, d, now)
      PROVE  Stays \/ ExecuteRecovery(s, q, d, now)
  BY <1>2 DEF ExecuteRecovery, TypeOK
<1>3. ASSUME UNCHANGED production PROVE Stays
  BY <1>3
<1>4. ASSUME NEW t \in Sessions, NEW now \in Instants,
             \/ \E d \in Diagnostics : RunDatabaseDiagnostic(t, d, now)
             \/ CurrentRecovery(t, now)
             \/ \E q \in Plans, target \in Releases, refs \in RefLists, reason \in Reasons :
                  PrepareRecovery(t, q, target, refs, reason, now)
             \/ \E q \in Plans : \/ DecideLate(t, q, now) \/ ExecuteLate(t, q, now)
                                 \/ VerifyRecovery(t, q, now)
                                 \/ \E decision \in Decisions :
                                      DecideRecovery(t, q, decision, now)
      PROVE  Stays
  BY <1>3, <1>4 DEF RunDatabaseDiagnostic, CurrentRecovery, PrepareRecovery, DecideLate,
              ExecuteLate, ExpireInstead, VerifyRecovery, DecideRecovery
<1>5. ASSUME Tick \/ UNCHANGED vars PROVE Stays
  BY <1>3, <1>5 DEF Tick, vars
<1> HIDE DEF Stays
<1>6. Stays \/ \E q \in Plans, d \in Diagnostics, now \in Instants : ExecuteRecovery(s, q, d, now)
  BY <1>1, <1>2, <1>4, <1>5, Zenon DEF Next, Operation
<1> QED BY <1>6 DEF Stays

\* A session with an active incident is as it was seeded.
LEMMA ActiveMeansSeeded ==
    ASSUME RecoveredTogether, NEW s \in Sessions, production[s].incident = "active"
    PROVE  production[s] = SeededProduction
<1>1. RecoveredAlone(s)
  BY RecoveredTogetherAlone
<1>2. ASSUME NEW p \in Plans, NEW e \in executions, AfterState(s, p, e) PROVE FALSE
  BY <1>2 DEF AfterState
<1> QED BY <1>1, <1>2 DEF RecoveredAlone, Untouched

\* A plan is prepared for a broken session and withdrawn from use by the only
\* step that repairs it.
LEMMA FaultStep ==
    ASSUME LifecycleInv, [Next]_vars
    PROVE  PlansAreAboutTheFault'
<1>1. TypeOK /\ OneActivePlan /\ StatesKeepTheirColumns /\ PlansAreAboutTheFault /\ RecoveredTogether
  BY DEF LifecycleInv, RecoveryInv
<1> SUFFICES ASSUME NEW p \in Plans
             PROVE  /\ Exists(p)' => plan'[p].expected = SeededProduction.release
                    /\ Usable(p)' => production'[plan'[p].session] = SeededProduction
  BY DEF PlansAreAboutTheFault
<1>2. CASE Added(p)
  <2>1. PICK s \in Sessions, now \in Instants, target \in Releases, refs \in RefLists,
             reason \in Reasons :
               /\ PrepareRecovery(s, p, target, refs, reason, now)
               /\ plan'[p] = PreparedRow(PreparedSpec(s, p, target, refs, reason, now), refs)
    BY <1>2 DEF Added
  <2>2. plan'[p].session = s /\ plan'[p].expected = production[s].release
    BY <2>1, AddedRow
  <2>3. production' = production /\ production[s] = SeededProduction
    BY <1>1, <2>1, ActiveMeansSeeded DEF PrepareRecovery
  <2> QED BY <2>2, <2>3
<1>3. CASE ~Added(p)
  <2>1. Usable(p)' => Status(p)' # "absent" /\ Status(p)' # "executed"
    BY DEF Usable, Status
  <2>2. Usable(p)' => Exists(p)'
    BY <1>1, <2>1, ColumnsStep DEF StatesKeepTheirColumns
  <2>3. ASSUME Exists(p)' PROVE Exists(p) /\ SameFacts(p) /\ plan[p].session \in Sessions
    BY <1>1, <1>3, <2>3, SurvivingPlan DEF TypeOK, PlanType, Exists
  <2>4. ASSUME Exists(p)', Usable(p)' PROVE Usable(p)
    <3>1. ~Removed(p)
      BY <2>4, StateColumns DEF Removed, Exists
    <3>2. PlanMoves(p)
      BY <1>1, StepsMovePlans
    <3>3. CASE plan'[p].state = plan[p].state
      BY <2>4, <3>3 DEF Usable, Status
    <3> QED BY <1>1, <1>3, <3>1, <3>2, <3>3, StayingRows, Zenon DEF Usable
  <2>5. ASSUME Exists(p)', Usable(p)', NEW q \in Plans, NEW d \in Diagnostics,
               NEW now \in Instants, ExecuteRecovery(plan[p].session, q, d, now)
        PROVE  FALSE
    <3>1. Status(q) = "approved" /\ plan[q].session = plan[p].session
      BY <2>5, ExecutionOk DEF ExecuteRecovery, Locked, Status
    <3>2. p = q
      BY <1>1, <2>3, <2>4, <2>5, <3>1 DEF OneActivePlan, Usable
    <3>3. Status(p)' = "executed"
      BY <1>1, <2>5, <3>2, StateColumns DEF ExecuteRecovery, Status, TypeOK, PlanType
    <3> QED BY <2>1, <2>5, <3>3
  <2>6. ASSUME Exists(p)', Usable(p)' PROVE production'[plan'[p].session] = SeededProduction
    <3>1. plan'[p].session = plan[p].session /\ production[plan[p].session] = SeededProduction
      BY <1>1, <2>3, <2>4, <2>6 DEF SameFacts, PlansAreAboutTheFault
    <3>2. production'[plan[p].session] \in {production[plan[p].session], SeededProduction}
      BY <1>1, <2>3, <2>5, <2>6, ProductionMoves
    <3> QED BY <3>1, <3>2
  <2>7. Exists(p)' => plan'[p].expected = SeededProduction.release
    BY <1>1, <2>3 DEF SameFacts, PlansAreAboutTheFault
  <2> QED BY <2>2, <2>6, <2>7
<1> QED BY <1>2, <1>3

\* A diagnostic row is kept, deleted, or inserted with the result of the release
\* it names.
LEMMA DiagnosticMoves ==
    ASSUME TypeOK, [Next]_vars, NEW d \in Diagnostics
    PROVE  \/ diagnostic'[d] \in {diagnostic[d], AbsentDiagnostic}
           \/ \E s, release, p : diagnostic'[d] = DiagnosticRow(s, release, p)
<1> DEFINE Kept == diagnostic'[d] \in {diagnostic[d], AbsentDiagnostic}
           Inserted == \E s, release, p : diagnostic'[d] = DiagnosticRow(s, release, p)
<1>1. ASSUME NEW s \in Sessions, NEW now \in Instants, CreateSession(s, now) PROVE Kept
  BY <1>1 DEF CreateSession, KeptDiagnostics
<1>2. ASSUME NEW s \in Sessions, NEW x \in Diagnostics, NEW now \in Instants,
             RunDatabaseDiagnostic(s, x, now)
      PROVE  Kept \/ Inserted
  <2>1. CASE x = d
    BY <1>2, <2>1, Zenon DEF RunDatabaseDiagnostic, TypeOK
  <2>2. CASE x # d
    BY <1>2, <2>2 DEF RunDatabaseDiagnostic, TypeOK
  <2> QED BY <2>1, <2>2
<1>3. ASSUME NEW s \in Sessions, NEW x \in Diagnostics, NEW now \in Instants,
             NEW p \in Plans, ExecuteRecovery(s, p, x, now)
      PROVE  Kept \/ Inserted
  <2>1. CASE x = d
    BY <1>3, <2>1, Zenon DEF ExecuteRecovery, AfterStateDiagnostic, TypeOK
  <2>2. CASE x # d
    BY <1>3, <2>2 DEF ExecuteRecovery, TypeOK
  <2> QED BY <2>1, <2>2
<1>4. ASSUME UNCHANGED diagnostic PROVE Kept
  BY <1>4
<1>5. ASSUME NEW s \in Sessions, NEW now \in Instants,
             \/ \E r \in Sessions : ResetSession(s, r, now)
             \/ CurrentRecovery(s, now)
             \/ \E p \in Plans, target \in Releases, refs \in RefLists, reason \in Reasons :
                  PrepareRecovery(s, p, target, refs, reason, now)
             \/ \E p \in Plans : \/ DecideLate(s, p, now) \/ ExecuteLate(s, p, now)
                                 \/ VerifyRecovery(s, p, now)
                                 \/ \E decision \in Decisions :
                                      DecideRecovery(s, p, decision, now)
      PROVE  Kept
  BY <1>4, <1>5 DEF ResetSession, CurrentRecovery, PrepareRecovery, DecideLate, ExecuteLate,
              ExpireInstead, VerifyRecovery, DecideRecovery, recoveryVars
<1>6. ASSUME Tick \/ UNCHANGED vars PROVE Kept
  BY <1>4, <1>6 DEF Tick, vars, recoveryVars
<1> HIDE DEF Kept, Inserted
<1>7. Kept \/ Inserted
  BY <1>1, <1>2, <1>3, <1>5, <1>6, Zenon DEF Next, Operation
<1> QED BY <1>7, Zenon DEF Kept, Inserted

\* No column of a diagnostic is ever overwritten.
LEMMA DiagnosticsStep ==
    ASSUME LifecycleInv, [Next]_vars
    PROVE  DiagnosticsDescribeTheirRelease'
<1> SUFFICES ASSUME NEW d \in Diagnostics, diagnostic'[d].session # NoSession
             PROVE  diagnostic'[d].result
                      = DatabaseConnectivityDiagnostic(diagnostic'[d].release)
  BY DEF DiagnosticsDescribeTheirRelease
<1>1. AbsentDiagnostic.session = NoSession
  BY DEF AbsentDiagnostic
<1>2. \A s, release, p : /\ DiagnosticRow(s, release, p).release = release
                         /\ DiagnosticRow(s, release, p).result
                              = DatabaseConnectivityDiagnostic(release)
  BY DEF DiagnosticRow
<1>3. CASE diagnostic'[d] = diagnostic[d]
  BY <1>3 DEF LifecycleInv, DiagnosticsDescribeTheirRelease
<1>4. ASSUME NEW s, NEW release, NEW p, diagnostic'[d] = DiagnosticRow(s, release, p)
      PROVE  diagnostic'[d].result = DatabaseConnectivityDiagnostic(diagnostic'[d].release)
  BY <1>2, <1>4
<1>5. diagnostic'[d] # AbsentDiagnostic
  BY <1>1
<1>6. TypeOK
  BY DEF LifecycleInv, RecoveryInv
<1> QED BY <1>3, <1>4, <1>5, <1>6, DiagnosticMoves

\* The row an execution stores.
ExecutionRow(s, p, d, now) ==
    [session |-> s, plan |-> p, previous |-> plan[p].expected,
     current |-> plan[p].target, diagnostic |-> d, executed_at |-> now]

\* An execution row is stored by an execution and deleted with its session.
LEMMA ExecutionMoves ==
    ASSUME TypeOK, [Next]_vars, NEW e \in executions'
    PROVE  \/ /\ e \in executions
              /\ \A s \in Sessions, now \in Instants :
                   CreateSession(s, now) => e.session \notin Removable(now)
           \/ \E s \in Sessions, p \in Plans, d \in Diagnostics, now \in Instants :
                ExecuteRecovery(s, p, d, now) /\ e = ExecutionRow(s, p, d, now)
<1> DEFINE Stored == \E s \in Sessions, p \in Plans, d \in Diagnostics, now \in Instants :
                        ExecuteRecovery(s, p, d, now) /\ e = ExecutionRow(s, p, d, now)
<1>1. \A s \in Sessions, now \in Instants :
        CreateSession(s, now) => e \in executions /\ e.session \notin Removable(now)
  BY DEF CreateSession
<1>2. ASSUME NEW s \in Sessions, NEW p \in Plans, NEW d \in Diagnostics,
             NEW now \in Instants, ExecuteRecovery(s, p, d, now)
      PROVE  e \in executions \/ Stored
  <2>1. e \in executions \/ e = ExecutionRow(s, p, d, now)
    BY <1>2 DEF ExecuteRecovery, ExecutionRow
  <2> QED BY <1>2, <2>1, Zenon
<1>3. ASSUME UNCHANGED executions PROVE e \in executions
  BY <1>3
<1>4. ASSUME NEW s \in Sessions, NEW now \in Instants,
             \/ \E r \in Sessions : ResetSession(s, r, now)
             \/ \E d \in Diagnostics : RunDatabaseDiagnostic(s, d, now)
             \/ CurrentRecovery(s, now)
             \/ \E p \in Plans, target \in Releases, refs \in RefLists, reason \in Reasons :
                  PrepareRecovery(s, p, target, refs, reason, now)
             \/ \E p \in Plans : \/ DecideLate(s, p, now) \/ ExecuteLate(s, p, now)
                                 \/ VerifyRecovery(s, p, now)
                                 \/ \E decision \in Decisions :
                                      DecideRecovery(s, p, decision, now)
      PROVE  e \in executions
  BY <1>3, <1>4 DEF ResetSession, RunDatabaseDiagnostic, CurrentRecovery, PrepareRecovery,
              DecideLate, ExecuteLate, ExpireInstead, VerifyRecovery, DecideRecovery,
              recoveryVars
<1>5. ASSUME Tick \/ UNCHANGED vars PROVE e \in executions
  BY <1>3, <1>5 DEF Tick, vars, recoveryVars
<1> HIDE DEF Stored
<1>6. e \in executions \/ Stored
  BY <1>1, <1>2, <1>4, <1>5, Zenon DEF Next, Operation
<1> QED BY <1>1, <1>6 DEF Stored

\* An execution links the diagnostic of its target, and both rows stay together.
LEMMA ExecutionsStep ==
    ASSUME LifecycleInv, [Next]_vars
    PROVE  ExecutionsDiagnoseTheirTarget'
<1>1. TypeOK /\ ExecutionsOwnTheirDiagnostic /\ ExecutionsDiagnoseTheirTarget
  BY DEF LifecycleInv, RecoveryInv
<1> SUFFICES ASSUME NEW e \in executions'
             PROVE  diagnostic'[e.diagnostic].release = e.current
  BY DEF ExecutionsDiagnoseTheirTarget
<1>2. ASSUME e \in executions,
             \A s \in Sessions, now \in Instants :
                CreateSession(s, now) => e.session \notin Removable(now)
      PROVE  diagnostic'[e.diagnostic].release = e.current
  <2>1. e.diagnostic \in Diagnostics /\ e.session \in Sessions
    BY <1>1, <1>2 DEF TypeOK, ExecutionType
  <2>2. diagnostic[e.diagnostic].session = e.session /\ e.session # NoSession
    BY <1>1, <1>2, <2>1, StoreAssumption DEF ExecutionsOwnTheirDiagnostic
  <2>3. diagnostic'[e.diagnostic] = diagnostic[e.diagnostic]
    BY <1>1, <1>2, <2>1, <2>2, OwnedDiagnosticsStay
  <2> QED BY <1>1, <1>2, <2>3 DEF ExecutionsDiagnoseTheirTarget
<1>3. ASSUME NEW s \in Sessions, NEW p \in Plans, NEW d \in Diagnostics,
             NEW now \in Instants, ExecuteRecovery(s, p, d, now),
             e = ExecutionRow(s, p, d, now)
      PROVE  diagnostic'[e.diagnostic].release = e.current
  <2>1. e.diagnostic = d /\ e.current = plan[p].target
    BY <1>3 DEF ExecutionRow
  <2>2. diagnostic'[d] = AfterStateDiagnostic(s, p)
    BY <1>1, <1>3 DEF ExecuteRecovery, TypeOK
  <2>3. AfterStateDiagnostic(s, p).release = plan[p].target
    BY DEF AfterStateDiagnostic, DiagnosticRow
  <2> QED BY <2>1, <2>2, <2>3
<1> QED BY <1>1, <1>2, <1>3, ExecutionMoves

\* The empty tables.
LEMMA LifecycleInit == Init => LifecycleInv
<1> SUFFICES ASSUME Init PROVE LifecycleInv
  OBVIOUS
<1>1. RecoveryInv /\ StatesKeepTheirColumns
  BY RecoveryInit, ColumnsInit
<1>2. \A p \in Plans : plan[p] = AbsentPlan /\ ~Exists(p) /\ ~Usable(p)
  BY StateColumns DEF Init, Exists, Usable, Status
<1>3. EvidenceIsOwned /\ FingerprintsMatch /\ PlansReload /\ PlansAreAboutTheFault
  BY <1>2 DEF EvidenceIsOwned, FingerprintsMatch, PlansReload, PlansAreAboutTheFault
<1>4. /\ AbsentPlan.created_at = 0 /\ AbsentPlan.since = 0
      /\ AbsentPlan.state.approved_at = NoTime /\ AbsentPlan.state.executed_at = NoTime
  BY DEF AbsentPlan, Bare
<1>5. CreatedBeforeCommit /\ DecisionsInWindow
  BY <1>2, <1>4 DEF CreatedBeforeCommit, DecisionsInWindow
<1>6. \A d \in Diagnostics : diagnostic[d].session = NoSession
  BY DEF Init, AbsentDiagnostic
<1>7. DiagnosticsDescribeTheirRelease /\ ExecutionsDiagnoseTheirTarget
  BY <1>6 DEF DiagnosticsDescribeTheirRelease, ExecutionsDiagnoseTheirTarget, Init
<1> QED BY <1>1, <1>3, <1>5, <1>7 DEF LifecycleInv

\* Every step of the store keeps the lifecycle invariant.
LEMMA LifecycleStep == LifecycleInv /\ [Next]_vars => LifecycleInv'
<1> SUFFICES ASSUME LifecycleInv, [Next]_vars PROVE LifecycleInv'
  OBVIOUS
<1>1. RecoveryInv /\ TypeOK /\ OneActivePlan /\ StatesKeepTheirColumns
  BY DEF LifecycleInv, RecoveryInv
<1>2. RecoveryInv' /\ StatesKeepTheirColumns'
  BY <1>1, RecoveryStep, ColumnsStep
<1> QED BY <1>2, EvidenceIsOwnedStep, FingerprintsStep, FaultStep, WindowsStep,
           DiagnosticsStep, ExecutionsStep DEF LifecycleInv

\* The lifecycle invariant holds in every reachable state.
LEMMA LifecycleHolds == Spec => []LifecycleInv
BY LifecycleInit, LifecycleStep, PTL DEF Spec

\* What a human approved is what the stored rows still say: the fingerprint
\* recomputed from the plan, its evidence rows and the diagnostics they point at
\* equals the stored one and the approved one.
THEOREM ApprovalsBindFacts == Spec => []ApprovalBindsFacts
<1>1. LifecycleInv => ApprovalBindsFacts
  <2> SUFFICES ASSUME LifecycleInv, NEW p \in Plans, Exists(p)
               PROVE  /\ plan[p].fingerprint = Fingerprint(LoadedSpec(p))
                      /\ plan[p].state.approved_fingerprint # NoFingerprint
                           => plan[p].state.approved_fingerprint = Fingerprint(LoadedSpec(p))
                      /\ Status(p) \in {"approved", "executed"}
                           <=> plan[p].state.approved_fingerprint # NoFingerprint
    BY DEF ApprovalBindsFacts
  <2>1. /\ plan[p].fingerprint = Fingerprint(LoadedSpec(p))
        /\ plan[p].fingerprint # NoFingerprint
        /\ Status(p) \in {"approved", "executed"} =>
             plan[p].state.approved_fingerprint = Fingerprint(LoadedSpec(p))
    BY DEF LifecycleInv, FingerprintsMatch
  <2>2. \A status : Bare(status).approved_fingerprint = NoFingerprint
    BY DEF Bare
  <2>3. Status(p) \notin {"approved", "executed"} =>
          plan[p].state.approved_fingerprint = NoFingerprint
    BY <2>2 DEF LifecycleInv, StatesKeepTheirColumns
  <2> QED BY <2>1, <2>3
<1> QED BY <1>1, LifecycleHolds, PTL

\* A stored plan can always be loaded again: no deletion and no later write makes
\* its evidence fail the validation load_plan repeats.
THEOREM StoredPlansReload == Spec => []PlansReload
<1>1. LifecycleInv => PlansReload
  BY DEF LifecycleInv
<1> QED BY <1>1, LifecycleHolds, PTL

\* Every approval and every execution carries an instant inside the window of
\* its plan, whatever the delay between reading the clock and committing.
THEOREM DecisionsStayInWindow == Spec => []DecisionsInWindow
<1>1. LifecycleInv => DecisionsInWindow
  BY DEF LifecycleInv
<1> QED BY <1>1, LifecycleHolds, PTL

-----------------------------------------------------------------------------
\* What an approved plan and an executed plan can count on.

\* The facts execution and verification compare with are those of the plan.
LEMMA LoadedColumns ==
    ASSUME NEW p
    PROVE  LET spec == LoadedSpec(p)
           IN  /\ spec.plan = p /\ spec.session = plan[p].session
               /\ spec.incident = SeededIncident /\ spec.service = SeededService
               /\ spec.generation = SeededGeneration /\ spec.expected = plan[p].expected
               /\ spec.target = plan[p].target /\ spec.expires_at = PlanExpiry(p)
BY DEF LoadedSpec, PlanSpec, LoadedCommand, Command, PlanExpiry

\* A stored plan targets the healthy baseline, and that is one release.
LEMMA TargetIsBaseline ==
    ASSUME TypeOK, PlansReload, NEW p \in Plans, Exists(p)
    PROVE  /\ ReleaseState(plan[p].target) = "healthy_baseline"
           /\ plan[p].target = "release_283"
<1>1. LoadedCommand(p).target_state = ReleaseState(plan[p].target)
  BY DEF LoadedCommand, Command
<1>2. ReleaseState(plan[p].target) = "healthy_baseline"
  BY <1>1, CommandOk DEF PlansReload, Loads
<1>3. plan[p].target \in Texts(Releases)
  BY DEF TypeOK, PlanType
<1> QED BY <1>2, <1>3 DEF ReleaseState, Texts, Releases

\* An approved plan whose window is open can be executed: nothing another
\* operation commits makes one of the fifteen preconditions fail.
THEOREM ApprovedPlansCanExecute == Spec => []ApprovedCanExecute
<1>1. LifecycleInv => ApprovedCanExecute
  <2> SUFFICES ASSUME LifecycleInv, NEW p \in Plans, Exists(p), Status(p) = "approved",
                      clock < PlanExpiry(p)
               PROVE  ExecutionError(LoadedSpec(p), plan[p].state,
                                     ExecutionFacts(plan[p].session, p), clock) = "ok"
    BY DEF ApprovedCanExecute
  <2> DEFINE spec == LoadedSpec(p)
             facts == ExecutionFacts(plan[p].session, p)
  <2>1. /\ spec.session = plan[p].session
        /\ spec.incident = SeededIncident /\ spec.service = SeededService
        /\ spec.generation = SeededGeneration /\ spec.expected = plan[p].expected
        /\ spec.target = plan[p].target /\ spec.expires_at = PlanExpiry(p)
    BY LoadedColumns
  <2>2. /\ facts.session = plan[p].session /\ facts.generation = SeededGeneration
        /\ facts.incident = SeededIncident /\ facts.target = plan[p].target
        /\ facts.incident_status = production[plan[p].session].incident
        /\ facts.release = production[plan[p].session].release
        /\ facts.target_service = SeededService
        /\ facts.target_state = ReleaseState(plan[p].target)
        /\ facts.stored_fingerprint = plan[p].fingerprint
    BY DEF ExecutionFacts
  <2> HIDE DEF spec, facts
  <2>3. /\ production[plan[p].session] = SeededProduction
        /\ plan[p].expected = SeededProduction.release
    BY DEF LifecycleInv, PlansAreAboutTheFault, Usable
  <2>4. ReleaseState(plan[p].target) = "healthy_baseline"
    BY TargetIsBaseline DEF LifecycleInv, RecoveryInv
  <2>5. plan[p].fingerprint = Fingerprint(spec)
        /\ plan[p].state.approved_fingerprint = Fingerprint(spec)
    BY DEF LifecycleInv, FingerprintsMatch, spec
  <2>6. SeededProduction.incident = "active"
    BY DEF SeededProduction
  <2>7. clock \in Int /\ PlanExpiry(p) \in Int
    BY DomainAssumption DEF LifecycleInv, RecoveryInv, TypeOK, PlanType, PlanExpiry
  <2>8. plan[p].state.status = "approved" /\ ~(clock >= spec.expires_at)
    BY <2>1, <2>7 DEF Status
  <2> QED BY <2>1, <2>2, <2>3, <2>4, <2>5, <2>6, <2>8, ExecutionPasses DEF spec, facts
<1> QED BY <1>1, LifecycleHolds, PTL

\* Whatever was committed since an execution, its facts still agree with the
\* plan and with the diagnostic the execution linked.
LEMMA ExecutedPlansVerify ==
    ASSUME LifecycleInv, NEW s \in Sessions, NEW p \in Plans, NEW e \in executions,
           plan[p].session = s, Status(p) = "executed", e.session = s, e.plan = p
    PROVE  VerificationOutcome(s, p, e) = "verified_healthy"
<1> DEFINE spec == LoadedSpec(p)
           facts == VerificationFacts(s, p, e)
<1>1. TypeOK /\ RecoveredTogether /\ PlansReload
  BY DEF LifecycleInv, RecoveryInv
<1>2. /\ spec.plan = p /\ spec.incident = SeededIncident /\ spec.service = SeededService
      /\ spec.generation = SeededGeneration /\ spec.expected = plan[p].expected
      /\ spec.target = plan[p].target
  BY LoadedColumns
<1>3. /\ facts.execution_plan = e.plan /\ facts.generation = SeededGeneration
      /\ facts.previous = e.previous /\ facts.current = e.current
      /\ facts.service = SeededService /\ facts.health = production[s].health
      /\ facts.incident = SeededIncident /\ facts.incident_status = production[s].incident
      /\ facts.diagnostic = diagnostic[e.diagnostic]
      /\ facts.stored_fingerprint = plan[p].fingerprint
  BY DEF VerificationFacts
<1>4. AfterState(s, p, e)
  <2>1. RecoveredAlone(s) /\ p \in ExecutedPlans(s) /\ e \in ExecutionRows(s)
    BY <1>1, RecoveredTogetherAlone DEF ExecutedPlans, ExecutionRows
  <2>2. PICK q \in Plans, f \in executions : AfterState(s, q, f)
    BY <2>1 DEF RecoveredAlone
  <2>3. p = q /\ e = f
    BY <2>1, <2>2 DEF AfterState
  <2> QED BY <2>2, <2>3
<1>5. /\ production[s].health = "healthy" /\ production[s].incident = "resolved"
      /\ e.previous = plan[p].expected /\ e.current = plan[p].target
      /\ diagnostic[e.diagnostic].plan = p
  BY <1>4 DEF AfterState
<1>6. Exists(p) /\ e.diagnostic \in Diagnostics
  BY <1>1, StoreAssumption DEF Exists, TypeOK, ExecutionType
<1>7. /\ diagnostic[e.diagnostic].release = plan[p].target
      /\ diagnostic[e.diagnostic].session # NoSession
  BY <1>5, StoreAssumption DEF LifecycleInv, RecoveryInv, ExecutionsDiagnoseTheirTarget,
                               ExecutionsOwnTheirDiagnostic
<1>8. diagnostic[e.diagnostic].result = DatabaseConnectivityDiagnostic("release_283")
  BY <1>1, <1>6, <1>7, TargetIsBaseline DEF LifecycleInv, DiagnosticsDescribeTheirRelease
<1>9. /\ diagnostic[e.diagnostic].result.status = "passed"
      /\ diagnostic[e.diagnostic].result.code = "DB_CONNECTION_OK"
  BY <1>8 DEF DatabaseConnectivityDiagnostic
<1>10. plan[p].fingerprint = Fingerprint(spec)
       /\ plan[p].state.approved_fingerprint = Fingerprint(spec)
  BY <1>6 DEF LifecycleInv, FingerprintsMatch
<1> HIDE DEF spec, facts
<1>11. VerificationMismatches(spec, plan[p].state, facts) = {}
  BY <1>2, <1>3, <1>5, <1>7, <1>9, <1>10, VerificationAgrees
<1> QED BY <1>11 DEF VerificationOutcome, spec, facts

\* Only verification records an outcome, and it never finds a mismatch.
LEMMA VerificationStep ==
    ASSUME LifecycleInv, VerificationPasses, [Next]_vars
    PROVE  VerificationPasses'
<1> SUFFICES ASSUME NEW e \in audit' PROVE e.event # "verified_mismatch"
  BY DEF VerificationPasses
<1>1. ASSUME e \in audit PROVE e.event # "verified_mismatch"
  BY <1>1 DEF VerificationPasses
<1>2. \A s, event, subject, at : \A f \in Audit(s, event, subject, at) : f.event = event
  BY DEF Audit, Event
<1>3. ASSUME NEW s \in Sessions, NEW p \in Plans, NEW now \in Instants,
             VerifyRecovery(s, p, now)
      PROVE  e.event # "verified_mismatch"
  <2>1. PICK x \in executions :
          /\ x.session = s /\ x.plan = p
          /\ audit' = audit \cup Audit(s, VerificationOutcome(s, p, x), p, now)
    BY <1>3 DEF VerifyRecovery
  <2>2. VerificationOutcome(s, p, x) = "verified_healthy"
    BY <1>3, <2>1, ExecutedPlansVerify DEF VerifyRecovery, Locked, Status
  <2> QED BY <1>1, <1>2, <2>1, <2>2
<1>4. ASSUME NEW s, NEW overdue, NEW now, e \in ExpiredAudit(s, overdue, now)
      PROVE  e.event # "verified_mismatch"
  BY <1>2, <1>4 DEF ExpiredAudit
<1>5. ASSUME NEW s \in Sessions, NEW now \in Instants,
             \/ CreateSession(s, now) \/ CurrentRecovery(s, now)
             \/ \E r \in Sessions : ResetSession(s, r, now)
             \/ \E d \in Diagnostics : RunDatabaseDiagnostic(s, d, now)
             \/ \E p \in Plans, target \in Releases, refs \in RefLists, reason \in Reasons :
                  PrepareRecovery(s, p, target, refs, reason, now)
             \/ \E p \in Plans : \/ DecideLate(s, p, now) \/ ExecuteLate(s, p, now)
                                 \/ \E d \in Diagnostics : ExecuteRecovery(s, p, d, now)
      PROVE  e.event # "verified_mismatch"
  BY <1>1, <1>2, <1>4, <1>5
     DEF CreateSession, CurrentRecovery, ResetSession, RunDatabaseDiagnostic,
         PrepareRecovery, DecideLate, ExecuteLate, ExpireInstead, ExecuteRecovery
<1>6. ASSUME NEW s \in Sessions, NEW p \in Plans, NEW now \in Instants,
             NEW decision \in Decisions, DecideRecovery(s, p, decision, now)
      PROVE  e.event # "verified_mismatch"
  <2>1. PICK event \in {"human_approval", "human_rejection"} :
          audit' = audit \/ audit' = audit \cup Audit(s, event, p, now)
    BY <1>6 DEF DecideRecovery
  <2> QED BY <1>1, <1>2, <2>1
<1>7. CASE Tick \/ UNCHANGED vars
  BY <1>1, <1>7 DEF Tick, vars
<1> QED BY <1>3, <1>5, <1>6, <1>7, Zenon DEF Next, Operation

\* Verification of an executed plan never finds a mismatch: no operation that
\* follows the execution disturbs the facts it compares.
THEOREM VerificationAlwaysPasses == Spec => []VerificationPasses
<1>1. Init => VerificationPasses
  BY DEF Init, VerificationPasses
<1> QED BY <1>1, LifecycleInit, LifecycleStep, VerificationStep, PTL DEF Spec

-----------------------------------------------------------------------------
\* What a step does to the session rows.

\* Only a creation and a reset write the sessions and their lineage.
LEMMA SessionMoves ==
    ASSUME [Next]_vars
    PROVE  \/ \E s \in Sessions, now \in Instants : CreateSession(s, now)
           \/ \E s \in Sessions, r \in Sessions, now \in Instants : ResetSession(s, r, now)
           \/ UNCHANGED <<session, resets>>
<1>1. ASSUME NEW s \in Sessions, NEW now \in Instants,
             \/ \E d \in Diagnostics : RunDatabaseDiagnostic(s, d, now)
             \/ CurrentRecovery(s, now)
             \/ \E p \in Plans, target \in Releases, refs \in RefLists, reason \in Reasons :
                  PrepareRecovery(s, p, target, refs, reason, now)
             \/ \E p \in Plans : \/ DecideLate(s, p, now) \/ ExecuteLate(s, p, now)
                                 \/ \E d \in Diagnostics : ExecuteRecovery(s, p, d, now)
                                 \/ VerifyRecovery(s, p, now)
                                 \/ \E decision \in Decisions :
                                      DecideRecovery(s, p, decision, now)
      PROVE  UNCHANGED <<session, resets>>
  BY <1>1 DEF RunDatabaseDiagnostic, CurrentRecovery, PrepareRecovery, DecideLate,
              ExecuteLate, ExpireInstead, ExecuteRecovery, VerifyRecovery, DecideRecovery
<1>2. CASE Tick \/ UNCHANGED vars
  BY <1>2 DEF Tick, vars
<1> QED BY <1>1, <1>2, Zenon DEF Next, Operation

\* The status of every session after a creation: no revoked session is left.
LEMMA CreatedStatus ==
    ASSUME TypeOK, NEW s \in Sessions, NEW now \in Instants, CreateSession(s, now),
           NEW t \in Sessions
    PROVE  /\ session'[t].status =
                IF t = s THEN "live" ELSE IF t \in Removable(now) THEN "absent"
                ELSE session[t].status
           /\ session'[t].status # "revoked"
           /\ session'[t].status = "live" <=> t = s \/ t \in Remaining(now)
<1>1. LiveSession(now).status = "live" /\ AbsentSession.status = "absent"
  BY DEF LiveSession, AbsentSession
<1>2. session'[t] = IF t = s THEN LiveSession(now)
                    ELSE IF t \in Removable(now) THEN AbsentSession ELSE session[t]
  BY DEF CreateSession
<1> QED BY <1>1, <1>2 DEF Remaining, Removable

\* The status of every session after a reset.
LEMMA ResetStatus ==
    ASSUME TypeOK, NEW s \in Sessions, NEW r \in Sessions, NEW now \in Instants,
           ResetSession(s, r, now), NEW t \in Sessions
    PROVE  /\ s # r /\ session[s].status = "live" /\ session[r].status = "absent"
           /\ session'[t].status = IF t = s THEN "revoked" ELSE IF t = r THEN "live"
                                   ELSE session[t].status
<1>1. s # r /\ session[s].status = "live" /\ session[r].status = "absent"
  BY DEF ResetSession, LockActive
<1>2. LiveSession(now).status = "live"
  BY DEF LiveSession
<1>3. session' = [session EXCEPT ![r] = LiveSession(now), ![s].status = "revoked"]
  BY DEF ResetSession
<1>4. session[s] \in SessionType /\ session \in [Sessions -> SessionType]
  BY DEF TypeOK
<1> QED BY <1>1, <1>2, <1>3, <1>4 DEF SessionType

-----------------------------------------------------------------------------
\* The ceiling.

Live == {s \in Sessions : session[s].status = "live"}

\* A ceiling on a set says something only of a finite one.
CeilingInv == IsFiniteSet(Live) /\ Cardinality(Live) <= MaxActiveSessions

\* A creation counts the sessions it leaves before it adds one.
LEMMA CreateWithinCeiling ==
    ASSUME TypeOK, CeilingInv, NEW s \in Sessions, NEW now \in Instants, CreateSession(s, now)
    PROVE  CeilingInv'
<1> DEFINE left == Remaining(now)
<1>1. Live' = left \cup {s}
  BY CreatedStatus DEF Live, Remaining
<1>2. left \subseteq Live /\ s \notin left /\ Cardinality(left) < MaxActiveSessions
  BY DEF Remaining, Live, CreateSession, HasCapacity
<1> HIDE DEF left
<1>3. IsFiniteSet(left) /\ Cardinality(left) \in Nat
  BY <1>2, FS_Subset, FS_CardinalityType DEF CeilingInv
<1>4. IsFiniteSet(left \cup {s}) /\ Cardinality(left \cup {s}) = Cardinality(left) + 1
  BY <1>2, <1>3, FS_AddElement
<1> QED BY <1>1, <1>2, <1>3, <1>4, StoreAssumption DEF CeilingInv

\* A reset adds one session and takes one away.
LEMMA ResetWithinCeiling ==
    ASSUME TypeOK, CeilingInv, NEW s \in Sessions, NEW r \in Sessions, NEW now \in Instants,
           ResetSession(s, r, now)
    PROVE  CeilingInv'
<1> DEFINE rest == Live \ {s}
<1>1. s \in Live /\ r \notin Live /\ s # r
  BY ResetStatus DEF Live
<1>2. Live' = rest \cup {r}
  BY ResetStatus DEF Live
<1>3. IsFiniteSet(rest) /\ Cardinality(rest) = Cardinality(Live) - 1
  BY <1>1, FS_RemoveElement DEF CeilingInv
<1>4. r \notin rest
  BY <1>1
<1> HIDE DEF rest
<1>5. IsFiniteSet(rest \cup {r}) /\ Cardinality(rest \cup {r}) = Cardinality(rest) + 1
  BY <1>3, <1>4, FS_AddElement
<1>6. Cardinality(Live) \in Nat
  BY FS_CardinalityType DEF CeilingInv
<1>7. Cardinality(Live') = Cardinality(Live)
  BY <1>2, <1>3, <1>5, <1>6
<1> QED BY <1>2, <1>5, <1>7 DEF CeilingInv

\* The ceiling holds before any session exists.
LEMMA CeilingInit == Init => CeilingInv
<1> SUFFICES ASSUME Init PROVE CeilingInv
  OBVIOUS
<1>1. Live = {}
  BY DEF Live, Init, AbsentSession
<1> QED BY <1>1, FS_EmptySet, StoreAssumption DEF CeilingInv

\* A step keeps the ceiling.
LEMMA CeilingStep == TypeOK /\ CeilingInv /\ [Next]_vars => CeilingInv'
<1> SUFFICES ASSUME TypeOK, CeilingInv, [Next]_vars PROVE CeilingInv'
  OBVIOUS
<1>1. CASE UNCHANGED <<session, resets>>
  BY <1>1 DEF CeilingInv, Live
<1> QED BY <1>1, SessionMoves, CreateWithinCeiling, ResetWithinCeiling

\* The sessions that are not revoked stay within the ceiling, whatever mix of
\* creations, expiries and resets led there.
THEOREM SessionsStayWithinCeiling == Spec => []SessionCeiling
<1>1. CeilingInv => SessionCeiling
  BY DEF CeilingInv, SessionCeiling, Live
<1> QED BY <1>1, CeilingInit, CeilingStep, TypeInit, TypeStep, PTL DEF Spec

-----------------------------------------------------------------------------
\* Revocation.

\* A revoked session owns no plan that could still be used.
RevokedIsIdle ==
    \A p \in Plans : Exists(p) /\ Usable(p) => session[plan[p].session].status # "revoked"

\* A lineage row names a revoked session, the only one to do so, and a
\* replacement that is not deleted before its original.
LineageIsKept ==
    /\ \A r \in resets : /\ session[r.original].status = "revoked"
                         /\ session[r.replacement].status # "absent"
    /\ \A s \in Sessions : session[s].status = "revoked" =>
         \E r \in resets : r.original = s
    /\ \A q, r \in resets : q.original = r.original => q = r

RevokedInv == RevokedIsIdle /\ LineageIsKept

\* A creation deletes every revoked session, and so every lineage.
LEMMA CreateForgetsRevoked ==
    ASSUME TypeOK, RevokedInv, NEW s \in Sessions, NEW now \in Instants, CreateSession(s, now)
    PROVE  RevokedInv'
<1>1. \A t \in Sessions : session'[t].status # "revoked"
  BY CreatedStatus
<1>2. resets' = {}
  <2> SUFFICES ASSUME NEW r \in resets PROVE r.original \in Removable(now)
    BY DEF CreateSession
  <2> QED BY DEF RevokedInv, LineageIsKept, Removable, TypeOK
<1>3. \A p \in Plans : Exists(p)' => plan'[p].session \in Sessions
  <2> SUFFICES ASSUME NEW p \in Plans, plan'[p].session # NoSession
               PROVE  plan'[p].session \in Sessions
    BY DEF Exists
  <2>1. plan'[p] = plan[p]
    BY StateColumns DEF CreateSession
  <2> QED BY <2>1 DEF TypeOK, PlanType
<1> QED BY <1>1, <1>2, <1>3 DEF RevokedInv, RevokedIsIdle, LineageIsKept

\* A reset invalidates what the session could still use and records the one
\* replacement it gets: it was live, so it had none.
LEMMA ResetRecordsLineage ==
    ASSUME TypeOK, OneActivePlan, RevokedInv, NEW s \in Sessions, NEW r \in Sessions,
           NEW now \in Instants, ResetSession(s, r, now)
    PROVE  RevokedInv'
<1>1. /\ s # r /\ session[s].status = "live" /\ session[r].status = "absent"
      /\ \A t \in Sessions :
           session'[t].status = IF t = s THEN "revoked" ELSE IF t = r THEN "live"
                                ELSE session[t].status
  BY ResetStatus
<1>2. RevokedIsIdle'
  <2> SUFFICES ASSUME NEW p \in Plans, Exists(p)', Usable(p)'
               PROVE  session'[plan'[p].session].status # "revoked"
    BY DEF RevokedIsIdle
  <2>1. plan[p] \in PlanType
    BY DEF TypeOK
  <2>2. CASE plan[p].session = s
    BY <2>1, <2>2 DEF ResetSession, InvalidateRecovery, Usable, Status, Bare, PlanType,
                      ActiveStatus
  <2>3. CASE plan[p].session # s
    <3>1. plan'[p] = plan[p]
      BY <2>3 DEF ResetSession
    <3>2. Exists(p) /\ Usable(p) /\ plan[p].session \in Sessions
      BY <2>1, <3>1 DEF Exists, Usable, Status, PlanType
    <3> QED BY <1>1, <2>3, <3>1, <3>2 DEF RevokedInv, RevokedIsIdle
  <2> QED BY <2>2, <2>3
<1>3. LineageIsKept'
  <2> DEFINE row == [original |-> s, replacement |-> r]
  <2>1. resets' = resets \cup {row} /\ row.original = s /\ row.replacement = r
    BY DEF ResetSession
  <2> HIDE DEF row
  <2>2. \A x \in resets : /\ x.original \in Sessions /\ x.replacement \in Sessions
                          /\ session[x.original].status = "revoked"
                          /\ session[x.replacement].status # "absent"
    BY DEF RevokedInv, LineageIsKept, TypeOK
  <2>3. \A x \in resets' : /\ session'[x.original].status = "revoked"
                           /\ session'[x.replacement].status # "absent"
    BY <1>1, <2>1, <2>2
  <2>4. \A t \in Sessions : session'[t].status = "revoked" => \E x \in resets' : x.original = t
    BY <1>1, <2>1 DEF RevokedInv, LineageIsKept
  <2>5. \A x, y \in resets' : x.original = y.original => x = y
    BY <1>1, <2>1, <2>2 DEF RevokedInv, LineageIsKept
  <2> QED BY <2>3, <2>4, <2>5 DEF LineageIsKept
<1> QED BY <1>2, <1>3 DEF RevokedInv

\* Every other step gives new authority to a live session only.
LEMMA RevokedStays ==
    ASSUME TypeOK, OneActivePlan, RevokedInv, [Next]_vars, UNCHANGED <<session, resets>>
    PROVE  RevokedInv'
<1>1. LineageIsKept'
  BY DEF RevokedInv, LineageIsKept
<1> SUFFICES ASSUME NEW p \in Plans, Exists(p)', Usable(p)'
             PROVE  session[plan'[p].session].status # "revoked"
  BY <1>1 DEF RevokedInv, RevokedIsIdle
<1>2. CASE Usable(p) /\ plan'[p].session = plan[p].session
  BY <1>2 DEF RevokedInv, RevokedIsIdle, Exists
<1>3. ASSUME NEW s \in Sessions, NEW q \in Plans, NEW now \in Instants,
             NEW target \in Releases, NEW refs \in RefLists, NEW reason \in Reasons,
             PrepareRecovery(s, q, target, refs, reason, now)
      PROVE  session[plan'[p].session].status # "revoked"
  <2>1. session[s].status = "live"
    BY <1>3 DEF PrepareRecovery, LockActive
  <2>2. CASE p = q
    <3>1. plan'[p].session = s
      BY <1>3, <2>2, AddedRow DEF PrepareRecovery, Expire
    <3> QED BY <2>1, <3>1
  <2>3. CASE p # q
    <3>1. plan'[p] = Expire(OverduePlans(s, now), now)[p]
      BY <1>3, <2>3 DEF PrepareRecovery, Expire
    <3>2. plan'[p].session = plan[p].session /\ Status(p)' \in {Status(p), "expired"}
      BY <3>1, ExpireNarrows DEF Status
    <3>3. Usable(p)
      BY <3>2 DEF Usable
    <3> QED BY <1>2, <3>2, <3>3
  <2> QED BY <2>2, <2>3
<1>4. CASE NoNewAuthority
  BY <1>2, <1>4 DEF NoNewAuthority
<1> QED BY <1>3, <1>4, OtherStepsNarrow

\* What is left of a revoked session is the same in every state.
LEMMA RevokedHolds == Spec => []RevokedInv
<1>1. Init => RevokedInv
  <2> SUFFICES ASSUME Init PROVE RevokedInv
    OBVIOUS
  <2>1. \A p \in Plans : ~Exists(p)
    BY StateColumns DEF Init, Exists
  <2>2. \A s \in Sessions : session[s].status = "absent"
    BY DEF Init, AbsentSession
  <2> QED BY <2>1, <2>2 DEF RevokedInv, RevokedIsIdle, LineageIsKept, Init
<1>2. TypeOK /\ OneActivePlan /\ RevokedInv /\ [Next]_vars => RevokedInv'
  BY SessionMoves, CreateForgetsRevoked, ResetRecordsLineage, RevokedStays
<1> QED
  BY <1>1, <1>2, TypeInit, TypeStep, OneActivePlanInit, OneActivePlanStep, PTL DEF Spec

\* Revocation ends every authority of a session and leaves its lineage: a
\* revoked session has no active plan and exactly one replacement; a session
\* that was not reset has none.
THEOREM RevocationIsFinal == Spec => []RevokedHasNoAuthority
<1>1. TypeOK /\ OneActivePlan /\ StatesKeepTheirColumns /\ RevokedInv => RevokedHasNoAuthority
  <2> SUFFICES ASSUME TypeOK, OneActivePlan, StatesKeepTheirColumns, RevokedInv,
                      NEW s \in Sessions
               PROVE  LET lineage == {r \in resets : r.original = s}
                      IN  IF session[s].status = "revoked"
                          THEN /\ \A p \in Plans : plan[p].session = s =>
                                    Status(p) \in TerminalStatus
                               /\ \E r \in lineage :
                                    /\ lineage = {r}
                                    /\ session[r.replacement].status # "absent"
                          ELSE lineage = {}
    BY DEF RevokedHasNoAuthority
  <2>1. ASSUME session[s].status = "revoked", NEW p \in Plans, plan[p].session = s
        PROVE  Status(p) \in TerminalStatus
    <3>1. Exists(p)
      BY <2>1, StoreAssumption DEF Exists
    <3>2. Status(p) # "absent" /\ Status(p) # "executing" /\ ~Usable(p)
      BY <2>1, <3>1 DEF StatesKeepTheirColumns, OneActivePlan, RevokedInv, RevokedIsIdle
    <3>3. Status(p) \in PlanStatus \cup {"absent"}
      BY DEF Status, TypeOK, PlanType, StateType
    <3> QED BY <3>2, <3>3 DEF PlanStatus, ActiveStatus, Usable
  <2>2. CASE session[s].status = "revoked"
    <3>1. PICK r \in resets : r.original = s
      BY <2>2 DEF RevokedInv, LineageIsKept
    <3>2. {x \in resets : x.original = s} = {r} /\ session[r.replacement].status # "absent"
      BY <3>1 DEF RevokedInv, LineageIsKept
    <3> QED BY <2>1, <2>2, <3>2
  <2>3. CASE session[s].status # "revoked"
    BY <2>3 DEF RevokedInv, LineageIsKept
  <2> QED BY <2>2, <2>3
<1> QED
  BY <1>1, RevokedHolds, TypeInit, TypeStep, OneActivePlanInit, OneActivePlanStep,
     ColumnsInit, ColumnsStep, PTL DEF Spec

-----------------------------------------------------------------------------
\* Isolation.

\* A step leaves a session alone: every row it changes belongs to another one.
LeavesAlone(t) ==
    /\ production'[t] = production[t]
    /\ \A p \in Plans : plan'[p] = plan[p] \/ (plan[p].session # t /\ plan'[p].session # t)
    /\ \A d \in Diagnostics :
         diagnostic'[d] = diagnostic[d] \/ (diagnostic[d].session # t /\ diagnostic'[d].session # t)
    /\ \A e : e.session = t => (e \in executions' <=> e \in executions)
    /\ \A e : e.session = t => (e \in audit' <=> e \in audit)

\* Then the rows of that session are what they were.
LEMMA AloneKeepsRows ==
    ASSUME NEW t \in Sessions, LeavesAlone(t)
    PROVE  RowsOf(t)' = RowsOf(t)
<1>1. {<<p, plan'[p]>> : p \in {x \in Plans : plan'[x].session = t}}
        = {<<p, plan[p]>> : p \in {x \in Plans : plan[x].session = t}}
  <2>1. \A p \in Plans : /\ plan'[p].session = t <=> plan[p].session = t
                         /\ plan[p].session = t => plan'[p] = plan[p]
    BY DEF LeavesAlone
  <2> QED BY <2>1
<1>2. {<<d, diagnostic'[d]>> : d \in {x \in Diagnostics : diagnostic'[x].session = t}}
        = {<<d, diagnostic[d]>> : d \in {x \in Diagnostics : diagnostic[x].session = t}}
  <2>1. \A d \in Diagnostics : /\ diagnostic'[d].session = t <=> diagnostic[d].session = t
                               /\ diagnostic[d].session = t => diagnostic'[d] = diagnostic[d]
    BY DEF LeavesAlone
  <2> QED BY <2>1
<1>3. /\ {e \in executions' : e.session = t} = {e \in executions : e.session = t}
      /\ {e \in audit' : e.session = t} = {e \in audit : e.session = t}
  BY DEF LeavesAlone
<1>4. production'[t] = production[t]
  BY DEF LeavesAlone
<1> QED BY <1>1, <1>2, <1>3, <1>4, Zenon DEF RowsOf

\* Events are recorded for the session that acts.
LEMMA RecordedForActor ==
    ASSUME NEW s, NEW t, s # t
    PROVE  /\ \A event, subject, at : \A e \in Audit(s, event, subject, at) : e.session # t
           /\ \A overdue, now : \A e \in ExpiredAudit(s, overdue, now) : e.session # t
BY DEF Audit, Event, ExpiredAudit

\* Expiry changes rows of one session.
LEMMA ExpiryStaysInSession ==
    ASSUME TypeOK, NEW s \in Sessions, NEW t \in Sessions, s # t, NEW now, NEW p \in Plans
    PROVE  LET row == Expire(OverduePlans(s, now), now)[p]
           IN  row = plan[p] \/ (plan[p].session # t /\ row.session # t)
<1>1. plan[p] \in PlanType
  BY DEF TypeOK
<1>2. CASE p \in OverduePlans(s, now)
  BY <1>1, <1>2 DEF Expire, OverduePlans, PlansOf, PlanType
<1>3. CASE p \notin OverduePlans(s, now)
  BY <1>3 DEF Expire
<1> QED BY <1>2, <1>3

\* A creation prunes no session that is still alive: its instant is past.
LEMMA CreateLeavesAlone ==
    ASSUME TypeOK, NEW s \in Sessions, NEW now \in Instants, CreateSession(s, now),
           NEW t \in Sessions, Alive(t), s # t
    PROVE  LeavesAlone(t) /\ session'[t] = session[t]
<1>1. t \notin Removable(now)
  <2>1. session[t].created_at \in Nat /\ now \in Nat /\ clock \in Nat /\ now <= clock
    BY StoreAssumption DEF TypeOK, SessionType, Instants
  <2>2. SessionExpiry(t) \in Nat /\ clock < SessionExpiry(t) /\ session[t].status = "live"
    BY <2>1, StoreAssumption DEF SessionExpiry, Alive
  <2> QED BY <2>1, <2>2 DEF Removable
<1>2. AbsentPlan.session # t /\ AbsentDiagnostic.session # t
  BY StoreAssumption DEF AbsentPlan, AbsentDiagnostic
<1> QED BY <1>1, <1>2 DEF CreateSession, KeptDiagnostics, LeavesAlone

\* A reset leaves alone the sessions that it neither revokes nor creates.
LEMMA ResetLeavesAlone ==
    ASSUME TypeOK, NEW s \in Sessions, NEW r \in Sessions, NEW now \in Instants,
           ResetSession(s, r, now), NEW t \in Sessions, Alive(t), s # t
    PROVE  LeavesAlone(t) /\ session'[t] = session[t]
<1>1. t # s /\ t # r
  BY DEF ResetSession, Alive
<1>2. \A p \in Plans : plan'[p] = plan[p] \/ (plan[p].session # t /\ plan'[p].session # t)
  <2> SUFFICES ASSUME NEW p \in Plans, plan[p].session = s
               PROVE  plan'[p].session # t
    BY <1>1 DEF ResetSession
  <2>1. plan[p] \in PlanType
    BY DEF TypeOK
  <2> QED BY <1>1, <2>1 DEF ResetSession, PlanType
<1>3. production'[t] = production[t]
  BY <1>1 DEF ResetSession, TypeOK
<1>4. \A e : e.session = t => (e \in audit' <=> e \in audit)
  BY <1>1, RecordedForActor DEF ResetSession
<1>5. session'[t] = session[t]
  BY <1>1 DEF ResetSession, TypeOK
<1> QED BY <1>2, <1>3, <1>4, <1>5 DEF ResetSession, LeavesAlone

\* Every other operation acts on the rows of the session that asked for it.
LEMMA PrepareLeavesAlone ==
    ASSUME TypeOK, NEW s \in Sessions, NEW p \in Plans, NEW now \in Instants,
           NEW target \in Releases, NEW refs \in RefLists, NEW reason \in Reasons,
           PrepareRecovery(s, p, target, refs, reason, now), NEW t \in Sessions, s # t
    PROVE  LeavesAlone(t)
<1>1. \A q \in Plans : plan'[q] = plan[q] \/ (plan[q].session # t /\ plan'[q].session # t)
  <2> SUFFICES ASSUME NEW q \in Plans
               PROVE  plan'[q] = plan[q] \/ (plan[q].session # t /\ plan'[q].session # t)
    OBVIOUS
  <2>1. CASE q = p
    <3>1. plan'[q].session = s /\ plan[q].session = NoSession
      BY <2>1, AddedRow DEF PrepareRecovery, Expire
    <3> QED BY <3>1, StoreAssumption
  <2>2. CASE q # p
    <3>1. plan'[q] = Expire(OverduePlans(s, now), now)[q]
      BY <2>2 DEF PrepareRecovery, Expire
    <3> QED BY <3>1, ExpiryStaysInSession
  <2> QED BY <2>1, <2>2
<1>2. \A e : e.session = t => (e \in audit' <=> e \in audit)
  BY RecordedForActor DEF PrepareRecovery
<1> QED BY <1>1, <1>2 DEF PrepareRecovery, LeavesAlone

\* An execution changes the production, the plan and one new diagnostic of the
\* session that asked for it.
LEMMA ExecuteLeavesAlone ==
    ASSUME TypeOK, NEW s \in Sessions, NEW p \in Plans, NEW d \in Diagnostics,
           NEW now \in Instants, ExecuteRecovery(s, p, d, now), NEW t \in Sessions, s # t
    PROVE  LeavesAlone(t)
<1>1. \A q \in Plans : plan'[q] = plan[q] \/ (plan[q].session # t /\ plan'[q].session # t)
  BY DEF ExecuteRecovery, Locked, TypeOK, PlanType
<1>2. \A x \in Diagnostics : \/ diagnostic'[x] = diagnostic[x]
                             \/ diagnostic[x].session # t /\ diagnostic'[x].session # t
  <2>1. diagnostic[d].session = NoSession
    BY DEF ExecuteRecovery
  <2>2. AfterStateDiagnostic(s, p).session = s
    BY DEF AfterStateDiagnostic, DiagnosticRow
  <2> QED BY <2>1, <2>2, StoreAssumption DEF ExecuteRecovery, TypeOK
<1>3. production'[t] = production[t]
  BY DEF ExecuteRecovery, TypeOK
<1>4. \A e : e.session = t => (e \in audit' <=> e \in audit)
  BY RecordedForActor DEF ExecuteRecovery
<1>5. \A e : e.session = t => (e \in executions' <=> e \in executions)
  BY DEF ExecuteRecovery
<1> QED BY <1>1, <1>2, <1>3, <1>4, <1>5 DEF LeavesAlone

\* So do a diagnostic, a read, a decision, an expiry and a verification.
LEMMA OthersLeaveAlone ==
    ASSUME TypeOK, NEW s \in Sessions, NEW now \in Instants, NEW t \in Sessions, s # t,
           \/ \E d \in Diagnostics : RunDatabaseDiagnostic(s, d, now)
           \/ CurrentRecovery(s, now)
           \/ \E p \in Plans : \/ DecideLate(s, p, now) \/ ExecuteLate(s, p, now)
                               \/ VerifyRecovery(s, p, now)
                               \/ \E decision \in Decisions : DecideRecovery(s, p, decision, now)
    PROVE  LeavesAlone(t)
<1>1. ASSUME NEW d \in Diagnostics, RunDatabaseDiagnostic(s, d, now) PROVE LeavesAlone(t)
  <2>1. DiagnosticRow(s, production[s].release, NoPlan).session = s
    BY DEF DiagnosticRow
  <2> QED BY <1>1, <2>1, StoreAssumption DEF RunDatabaseDiagnostic, LeavesAlone, TypeOK
<1>2. ASSUME CurrentRecovery(s, now) PROVE LeavesAlone(t)
  BY <1>2, ExpiryStaysInSession, RecordedForActor DEF CurrentRecovery, LeavesAlone
<1>3. ASSUME NEW p \in Plans, DecideLate(s, p, now) \/ ExecuteLate(s, p, now)
      PROVE  LeavesAlone(t)
  <2>1. Locked(s, p, now) /\ ExpireInstead(s, p, now)
    BY <1>3 DEF DecideLate, ExecuteLate
  <2>2. \A q \in Plans : plan'[q] = plan[q] \/ (plan[q].session # t /\ plan'[q].session # t)
    BY <2>1 DEF Locked, ExpireInstead, TypeOK, PlanType
  <2>3. \A e : e.session = t => (e \in audit' <=> e \in audit)
    BY <2>1, RecordedForActor DEF ExpireInstead
  <2> QED BY <2>1, <2>2, <2>3 DEF ExpireInstead, LeavesAlone
<1>4. ASSUME NEW p \in Plans, VerifyRecovery(s, p, now) PROVE LeavesAlone(t)
  BY <1>4, RecordedForActor DEF VerifyRecovery, LeavesAlone, recoveryVars
<1>5. ASSUME NEW p \in Plans, NEW decision \in Decisions, DecideRecovery(s, p, decision, now)
      PROVE  LeavesAlone(t)
  <2>1. PICK next, event : /\ plan' = [plan EXCEPT ![p].state = next]
                           /\ \/ audit' = audit
                              \/ audit' = audit \cup Audit(s, event, p, now)
    BY <1>5, Zenon DEF DecideRecovery
  <2>2. \A q \in Plans : plan'[q] = plan[q] \/ (plan[q].session # t /\ plan'[q].session # t)
    BY <1>5, <2>1 DEF DecideRecovery, Locked, TypeOK, PlanType
  <2>3. \A e : e.session = t => (e \in audit' <=> e \in audit)
    BY <2>1, RecordedForActor
  <2> QED BY <1>5, <2>2, <2>3 DEF DecideRecovery, LeavesAlone
<1> QED BY <1>1, <1>2, <1>3, <1>4, <1>5

\* An operation leaves alone every other session that is alive.
LEMMA OperationLeavesAlone ==
    ASSUME TypeOK, NEW s \in Sessions, NEW now \in Instants, Operation(s, now),
           NEW t \in Sessions, Alive(t), s # t
    PROVE  LeavesAlone(t) /\ session'[t] = session[t]
<1>1. CASE CreateSession(s, now)
  BY <1>1, CreateLeavesAlone
<1>2. ASSUME NEW r \in Sessions, ResetSession(s, r, now)
      PROVE  LeavesAlone(t) /\ session'[t] = session[t]
  BY <1>2, ResetLeavesAlone
<1>3. ASSUME NEW p \in Plans, NEW target \in Releases, NEW refs \in RefLists,
             NEW reason \in Reasons, PrepareRecovery(s, p, target, refs, reason, now)
      PROVE  LeavesAlone(t) /\ session'[t] = session[t]
  BY <1>3, PrepareLeavesAlone DEF PrepareRecovery
<1>4. ASSUME NEW p \in Plans, NEW d \in Diagnostics, ExecuteRecovery(s, p, d, now)
      PROVE  LeavesAlone(t) /\ session'[t] = session[t]
  BY <1>4, ExecuteLeavesAlone DEF ExecuteRecovery
<1>5. ASSUME \/ \E d \in Diagnostics : RunDatabaseDiagnostic(s, d, now)
             \/ CurrentRecovery(s, now)
             \/ \E p \in Plans : \/ DecideLate(s, p, now) \/ ExecuteLate(s, p, now)
                                 \/ VerifyRecovery(s, p, now)
                                 \/ \E decision \in Decisions : DecideRecovery(s, p, decision, now)
      PROVE  LeavesAlone(t) /\ session'[t] = session[t]
  <2>1. LeavesAlone(t)
    BY <1>5, OthersLeaveAlone
  <2>2. session' = session
    BY <1>5 DEF RunDatabaseDiagnostic, CurrentRecovery, DecideLate, ExecuteLate,
                ExpireInstead, VerifyRecovery, DecideRecovery
  <2> QED BY <2>1, <2>2
<1> QED BY <1>1, <1>2, <1>3, <1>4, <1>5, Zenon DEF Operation

\* An operation of one session changes no row of another one that is alive.
THEOREM SessionsAreIsolated == Spec => SessionsIsolated
<1>1. TypeOK /\ [Next]_vars =>
        [\A s, t \in Sessions :
           s # t /\ Alive(t) /\ Disturbed(t) => \A now \in Instants : ~Operation(s, now)]_vars
  BY OperationLeavesAlone, AloneKeepsRows DEF Disturbed
<1> QED BY <1>1, TypeInit, TypeStep, PTL DEF Spec, SessionsIsolated

-----------------------------------------------------------------------------
\* The audit trail.

Logged(p, event) == \E e \in audit : e.event = event /\ e.subject = p

\* What the trail of a plan says is what became of it.
Trail(p) ==
    /\ Exists(p) <=> Logged(p, "recovery_prepared")
    /\ Status(p) = "executed" <=> Logged(p, "recovery_execution")
    /\ Status(p) = "rejected" <=> Logged(p, "human_rejection")
    /\ Status(p) = "expired" <=> Logged(p, "recovery_expired")
    /\ Status(p) \in {"approved", "executed"} => Logged(p, "human_approval")
    /\ Status(p) = "prepared" => ~Logged(p, "human_approval")
    /\ Status(p) # "executed" => ~Logged(p, "verified_healthy") /\ ~Logged(p, "verified_mismatch")

\* The events about a plan are deleted with the plan, and those about a
\* replacement session with the session it replaced.
AuditIsOwned ==
    \A e \in audit :
        /\ e.event = "session_reset" <=> e.subject \notin Plans
        /\ e.subject \in Plans => plan[e.subject].session = e.session
        /\ e.subject \notin Plans => /\ session[e.session].status = "revoked"
                                     /\ session[e.subject].status # "absent"

\* The deduplication key is unique across sessions too.
AuditIsDistinct ==
    \A e, f \in audit : e.event = f.event /\ e.subject = f.subject => e = f

AuditInv == AuditIsOwned /\ AuditIsDistinct /\ \A p \in Plans : Trail(p)

\* A step records exactly these events about a plan.
LogsExactly(p, events) ==
    \A event \in Events : Logged(p, event)' <=> Logged(p, event) \/ event \in events

\* A plan changes its status and records it in one step, or neither.
LogsItsMove(p) ==
    \/ /\ ~Exists(p) /\ Exists(p)' /\ Status(p)' = "prepared"
       /\ LogsExactly(p, {"recovery_prepared"})
    \/ /\ Exists(p) /\ Exists(p)'
       /\ \/ /\ Usable(p) /\ Status(p)' = "expired"
             /\ LogsExactly(p, {"recovery_expired"})
          \/ /\ Usable(p) /\ Status(p)' = "rejected"
             /\ LogsExactly(p, {"human_rejection"})
          \/ /\ Status(p) = "prepared" /\ Status(p)' = "approved"
             /\ LogsExactly(p, {"human_approval"})
          \/ /\ Status(p) = "approved" /\ Status(p)' = "executed"
             /\ LogsExactly(p, {"recovery_execution"})
          \/ Usable(p) /\ Status(p)' = "invalidated" /\ LogsExactly(p, {})
    \/ /\ Status(p)' = Status(p) /\ (Exists(p)' <=> Exists(p))
       /\ \/ LogsExactly(p, {})
          \/ /\ Status(p) = "executed"
             /\ \E event \in {"verified_healthy", "verified_mismatch"} : LogsExactly(p, {event})

\* Nothing is recorded about a plan that does not exist.
LEMMA FreeIsUnlogged ==
    ASSUME TypeOK, AuditIsOwned, NEW p \in Plans, ~Exists(p)
    PROVE  \A event : ~Logged(p, event)
BY StoreAssumption DEF Logged, AuditIsOwned, Exists, TypeOK, AuditType

\* Then the trail still says what became of the plan.
LEMMA TrailStep ==
    ASSUME TypeOK, StatesKeepTheirColumns, AuditIsOwned, NEW p \in Plans, Trail(p),
           LogsItsMove(p)
    PROVE  Trail(p)'
<1> USE DEF Events
<1>1. Exists(p) <=> Status(p) # "absent"
  BY DEF StatesKeepTheirColumns
<1>2. CASE /\ ~Exists(p) /\ Exists(p)' /\ Status(p)' = "prepared"
           /\ LogsExactly(p, {"recovery_prepared"})
  BY <1>2, FreeIsUnlogged DEF Trail, LogsExactly
<1>3. CASE Exists(p) /\ Exists(p)' /\ Usable(p) /\ Status(p)' = "expired"
           /\ LogsExactly(p, {"recovery_expired"})
  BY <1>3 DEF Trail, LogsExactly, Usable
<1>4. CASE Exists(p) /\ Exists(p)' /\ Usable(p) /\ Status(p)' = "rejected"
           /\ LogsExactly(p, {"human_rejection"})
  BY <1>4 DEF Trail, LogsExactly, Usable
<1>5. CASE Exists(p) /\ Exists(p)' /\ Status(p) = "prepared" /\ Status(p)' = "approved"
           /\ LogsExactly(p, {"human_approval"})
  BY <1>5 DEF Trail, LogsExactly
<1>6. CASE Exists(p) /\ Exists(p)' /\ Status(p) = "approved" /\ Status(p)' = "executed"
           /\ LogsExactly(p, {"recovery_execution"})
  BY <1>6 DEF Trail, LogsExactly
<1>7. CASE Exists(p) /\ Exists(p)' /\ Usable(p) /\ Status(p)' = "invalidated"
           /\ LogsExactly(p, {})
  BY <1>7 DEF Trail, LogsExactly, Usable
<1>8. CASE /\ Status(p)' = Status(p) /\ (Exists(p)' <=> Exists(p))
           /\ \/ LogsExactly(p, {})
              \/ /\ Status(p) = "executed"
                 /\ \E event \in {"verified_healthy", "verified_mismatch"} :
                      LogsExactly(p, {event})
  <2>1. \A event \in Events \ {"verified_healthy", "verified_mismatch"} :
          Logged(p, event)' <=> Logged(p, event)
    BY <1>8 DEF LogsExactly
  <2>2. Status(p) # "executed" => LogsExactly(p, {})
    BY <1>8
  <2> QED BY <1>8, <2>1, <2>2 DEF Trail, LogsExactly
<1> QED BY <1>2, <1>3, <1>4, <1>5, <1>6, <1>7, <1>8 DEF LogsItsMove

-----------------------------------------------------------------------------
\* What recording does to the trail.

\* insert_audit leaves the event recorded about its subject and no other.
LEMMA AuditLogs ==
    ASSUME NEW s, NEW event, NEW q, NEW at, NEW p \in Plans, NEW other \in Events
    PROVE  Logged(p, other) \/ (\E e \in Audit(s, event, q, at) : e.event = other /\ e.subject = p)
             <=> Logged(p, other) \/ (p = q /\ other = event)
<1>1. CASE Recorded(s, event, q)
  BY <1>1 DEF Logged, Audit, Recorded
<1>2. CASE ~Recorded(s, event, q)
  <2>1. Audit(s, event, q, at) = {Event(s, event, q, at)}
    BY <1>2 DEF Audit
  <2>2. Event(s, event, q, at).event = event /\ Event(s, event, q, at).subject = q
    BY DEF Event
  <2> QED BY <2>1, <2>2
<1> QED BY <1>1, <1>2

\* The expiries of several plans, too.
LEMMA ExpiriesLogged ==
    ASSUME NEW s, NEW overdue, NEW at, NEW p \in Plans, NEW other \in Events
    PROVE  Logged(p, other)
             \/ (\E e \in ExpiredAudit(s, overdue, at) : e.event = other /\ e.subject = p)
             <=> Logged(p, other) \/ (p \in overdue /\ other = "recovery_expired")
<1>1. \A e : e \in ExpiredAudit(s, overdue, at)
               <=> \E q \in overdue : e \in Audit(s, "recovery_expired", q, at)
  BY DEF ExpiredAudit
<1>2. \A q : Logged(p, other)
               \/ (\E e \in Audit(s, "recovery_expired", q, at) : e.event = other /\ e.subject = p)
               <=> Logged(p, other) \/ (p = q /\ other = "recovery_expired")
  BY AuditLogs
<1> QED BY <1>1, <1>2

\* A step that adds these events logs them on top of what was logged.
LEMMA GrowthLogs ==
    ASSUME NEW new, audit' = audit \cup new, NEW p \in Plans, NEW event
    PROVE  Logged(p, event)' <=>
             Logged(p, event) \/ \E e \in new : e.event = event /\ e.subject = p
BY DEF Logged

\* Events about a session's own plans, each new to the trail, and no plan that
\* changes hands: the trail stays owned and free of repetitions.
Extends(s, new) ==
    /\ audit' = audit \cup new
    /\ UNCHANGED session
    /\ \A e \in new :
         /\ e.event # "session_reset" /\ e.session = s /\ e.subject \in Plans
         /\ plan'[e.subject].session = s
         /\ ~Logged(e.subject, e.event)
    /\ \A e, f \in new : e.event = f.event /\ e.subject = f.subject => e = f
    /\ \A p \in Plans : Exists(p) => plan'[p].session = plan[p].session

\* Events not on record yet keep the trail owned and distinct.
LEMMA ExtendsKeepsTrail ==
    ASSUME TypeOK, AuditIsOwned, AuditIsDistinct, NEW s \in Sessions, NEW new, Extends(s, new)
    PROVE  AuditIsOwned' /\ AuditIsDistinct'
<1>1. ASSUME NEW e \in audit, e.subject \in Plans
      PROVE  plan'[e.subject].session = e.session
  BY <1>1, StoreAssumption DEF AuditIsOwned, Extends, Exists, TypeOK, AuditType
<1>2. AuditIsOwned'
  BY <1>1 DEF AuditIsOwned, Extends
<1>3. AuditIsDistinct'
  <2>1. \A e \in audit, f \in new : ~(e.event = f.event /\ e.subject = f.subject)
    BY DEF Extends, Logged
  <2> QED BY <2>1 DEF AuditIsDistinct, Extends
<1> QED BY <1>2, <1>3

\* An event insert_audit adds is new to the trail: one about the same plan
\* would carry the same session and key.
LEMMA AuditIsNew ==
    ASSUME TypeOK, AuditIsOwned, NEW s \in Sessions, NEW p \in Plans,
           plan[p].session \in {s, NoSession}, NEW event, NEW at
    PROVE  \A e \in Audit(s, event, p, at) :
             /\ e = Event(s, event, p, at)
             /\ e.event = event /\ e.session = s /\ e.subject = p
             /\ ~Logged(p, event)
<1> SUFFICES ASSUME ~Recorded(s, event, p) PROVE ~Logged(p, event)
  BY DEF Audit, Event
<1> QED BY StoreAssumption DEF Recorded, Logged, AuditIsOwned, TypeOK, AuditType

\* A step that neither moves a plan nor records anything about it.
LEMMA StillLogged ==
    ASSUME NEW p \in Plans, plan'[p].session = plan[p].session, Status(p)' = Status(p),
           LogsExactly(p, {})
    PROVE  LogsItsMove(p)
BY DEF LogsItsMove, Exists

\* One event about one plan of the session, whose row stays.
LEMMA RecordsOne ==
    ASSUME TypeOK, AuditIsOwned, AuditIsDistinct, NEW s \in Sessions, NEW p \in Plans,
           plan[p].session \in {s, NoSession}, NEW event \in Events \ {"session_reset"}, NEW now,
           audit' = audit \cup Audit(s, event, p, now), UNCHANGED session,
           plan'[p].session = s,
           \A q \in Plans : q # p => plan'[q].session = plan[q].session
    PROVE  /\ AuditIsOwned' /\ AuditIsDistinct'
           /\ LogsExactly(p, {event})
           /\ \A q \in Plans \ {p} : LogsExactly(q, {})
<1> DEFINE new == Audit(s, event, p, now)
<1>1. \A e \in new : /\ e = Event(s, event, p, now) /\ e.event = event /\ e.session = s
                     /\ e.subject = p /\ ~Logged(p, event)
  BY AuditIsNew
<1>2. \A q \in Plans, other \in Events :
        Logged(q, other) \/ (\E e \in new : e.event = other /\ e.subject = q)
          <=> Logged(q, other) \/ (q = p /\ other = event)
  BY AuditLogs
<1> HIDE DEF new
<1>3. \A q \in Plans : Exists(q) => plan'[q].session = plan[q].session
  BY DEF Exists
<1>4. Extends(s, new)
  BY <1>1, <1>3 DEF Extends, new
<1>5. \A q \in Plans, other \in Events :
        Logged(q, other)' <=> Logged(q, other) \/ (q = p /\ other = event)
  <2>1. audit' = audit \cup new
    BY DEF new
  <2>2. \A q \in Plans, other \in Events :
          Logged(q, other)'
            <=> Logged(q, other) \/ (\E e \in new : e.event = other /\ e.subject = q)
    BY <2>1, GrowthLogs
  <2> QED BY <1>2, <2>2
<1> QED BY <1>4, <1>5, ExtendsKeepsTrail DEF LogsExactly

\* A late decision or execution records the expiry it commits.
LEMMA AuditExpireInstead ==
    ASSUME TypeOK, AuditIsOwned, AuditIsDistinct, NEW s \in Sessions, NEW p \in Plans,
           NEW now \in Instants, plan[p].session = s, Usable(p), ExpireInstead(s, p, now)
    PROVE  AuditIsOwned' /\ AuditIsDistinct' /\ \A q \in Plans : LogsItsMove(q)
<1>1. /\ plan'[p].session = s /\ plan'[p].state = Bare("expired")
      /\ \A q \in Plans : q # p => plan'[q] = plan[q]
  BY DEF ExpireInstead, TypeOK, PlanType
<1>2. Status(p)' = "expired" /\ Exists(p) /\ Exists(p)'
  BY <1>1, StateColumns, StoreAssumption DEF Status, Exists
<1>3. /\ AuditIsOwned' /\ AuditIsDistinct' /\ LogsExactly(p, {"recovery_expired"})
      /\ \A q \in Plans \ {p} : LogsExactly(q, {})
  BY <1>1, RecordsOne DEF ExpireInstead, Events
<1>4. LogsItsMove(p)
  BY <1>2, <1>3 DEF LogsItsMove
<1> QED BY <1>1, <1>3, <1>4, StillLogged DEF Status

\* An execution records itself.
LEMMA AuditExecute ==
    ASSUME TypeOK, AuditIsOwned, AuditIsDistinct, NEW s \in Sessions, NEW p \in Plans,
           NEW d \in Diagnostics, NEW now \in Instants, ExecuteRecovery(s, p, d, now)
    PROVE  AuditIsOwned' /\ AuditIsDistinct' /\ \A q \in Plans : LogsItsMove(q)
<1>1. /\ plan[p].session = s /\ plan'[p].session = s
      /\ plan'[p].state = CompleteExecution(ClaimedState(plan[p].state), now)
      /\ \A q \in Plans : q # p => plan'[q] = plan[q]
  BY DEF ExecuteRecovery, Locked, TypeOK, PlanType
<1>2. Status(p)' = "executed" /\ Exists(p) /\ Exists(p)'
  BY <1>1, StateColumns, StoreAssumption DEF Status, Exists
<1>3. Status(p) = "approved"
  BY ExecutionOk DEF ExecuteRecovery, Status
<1>4. /\ AuditIsOwned' /\ AuditIsDistinct' /\ LogsExactly(p, {"recovery_execution"})
      /\ \A q \in Plans \ {p} : LogsExactly(q, {})
  BY <1>1, RecordsOne DEF ExecuteRecovery, Events
<1>5. LogsItsMove(p)
  BY <1>2, <1>3, <1>4 DEF LogsItsMove
<1> QED BY <1>1, <1>4, <1>5, StillLogged DEF Status

\* A verification records its outcome and moves nothing.
LEMMA AuditVerify ==
    ASSUME TypeOK, AuditIsOwned, AuditIsDistinct, NEW s \in Sessions, NEW p \in Plans,
           NEW now \in Instants, VerifyRecovery(s, p, now)
    PROVE  AuditIsOwned' /\ AuditIsDistinct' /\ \A q \in Plans : LogsItsMove(q)
<1>1. PICK event \in {"verified_healthy", "verified_mismatch"} :
        audit' = audit \cup Audit(s, event, p, now)
  BY DEF VerifyRecovery, VerificationOutcome
<1>2. plan' = plan /\ session' = session /\ plan[p].session = s /\ Status(p) = "executed"
  BY DEF VerifyRecovery, Locked, recoveryVars, Status
<1>3. /\ AuditIsOwned' /\ AuditIsDistinct' /\ LogsExactly(p, {event})
      /\ \A q \in Plans \ {p} : LogsExactly(q, {})
  BY <1>1, <1>2, RecordsOne DEF Events
<1>4. LogsItsMove(p)
  BY <1>2, <1>3 DEF LogsItsMove, Status, Exists
<1> QED BY <1>2, <1>3, <1>4, StillLogged DEF Status

\* A decision records the approval or the rejection it makes; one that repeats
\* itself records nothing.
LEMMA AuditDecide ==
    ASSUME TypeOK, StatesKeepTheirColumns, AuditIsOwned, AuditIsDistinct,
           NEW s \in Sessions, NEW p \in Plans, NEW now \in Instants,
           NEW decision \in Decisions, DecideRecovery(s, p, decision, now)
    PROVE  AuditIsOwned' /\ AuditIsDistinct' /\ \A q \in Plans : LogsItsMove(q)
<1> DEFINE next == DecidedState(LoadedSpec(p), plan[p].state, decision, now)
           event == IF next.status = "approved" THEN "human_approval" ELSE "human_rejection"
<1>1. /\ plan' = [plan EXCEPT ![p].state = next] /\ plan[p].session = s
      /\ audit' = IF next = plan[p].state
                  THEN audit ELSE audit \cup Audit(s, event, p, now)
      /\ session' = session
  BY DEF DecideRecovery, Locked
<1>2. \/ next = plan[p].state
      \/ /\ Status(p) = "prepared" /\ next.status = "approved" /\ event = "human_approval"
      \/ /\ Usable(p) /\ next.status = "rejected" /\ event = "human_rejection"
  <2>1. decision.kind \in {"approve", "reject"}
    BY DEF Decisions
  <2>2. CASE decision.kind = "approve"
    <3>1. Status(p) \in {"prepared", "approved"}
      BY <2>2, DecisionOk DEF DecideRecovery, Status
    <3> QED BY <2>2, <3>1, StateColumns DEF DecidedState, Status
  <2>3. CASE decision.kind = "reject"
    <3>1. next = Bare("rejected") /\ (Usable(p) \/ Status(p) = "rejected")
      BY <2>3, DecisionOk DEF DecideRecovery, DecidedState, Usable, Status
    <3>2. Status(p) = "rejected" => plan[p].state = Bare("rejected")
      BY DEF StatesKeepTheirColumns
    <3> QED BY <3>1, <3>2, StateColumns
  <2> QED BY <2>1, <2>2, <2>3
<1> HIDE DEF next, event
<1>3. /\ plan'[p].session = s /\ plan'[p].state = next
      /\ \A q \in Plans : q # p => plan'[q] = plan[q]
  BY <1>1 DEF TypeOK, PlanType
<1>4. CASE next = plan[p].state
  <2>1. audit' = audit /\ \A q \in Plans : plan'[q].session = plan[q].session
    BY <1>1, <1>3, <1>4
  <2>2. AuditIsOwned' /\ AuditIsDistinct'
    BY <1>1, <2>1 DEF AuditIsOwned, AuditIsDistinct
  <2>3. \A q \in Plans : Status(q)' = Status(q) /\ LogsExactly(q, {})
    BY <1>3, <1>4, <2>1 DEF Status, LogsExactly, Logged
  <2> QED BY <2>1, <2>2, <2>3, StillLogged
<1>5. CASE next # plan[p].state
  <2>1. event \in {"human_approval", "human_rejection"}
    BY DEF event
  <2>2. /\ AuditIsOwned' /\ AuditIsDistinct' /\ LogsExactly(p, {event})
        /\ \A q \in Plans \ {p} : LogsExactly(q, {})
    BY <1>1, <1>3, <1>5, <2>1, RecordsOne DEF Events
  <2>3. Exists(p) /\ Exists(p)' /\ Status(p)' = next.status
    BY <1>1, <1>3, StoreAssumption DEF Exists, Status
  <2>4. LogsItsMove(p)
    BY <1>2, <1>5, <2>2, <2>3 DEF LogsItsMove
  <2> QED BY <1>3, <2>2, <2>4, StillLogged DEF Status
<1> QED BY <1>4, <1>5

\* The expiries of the overdue plans of a session are new to the trail.
LEMMA ExpiriesAreNew ==
    ASSUME TypeOK, AuditIsOwned, NEW s \in Sessions, NEW now
    PROVE  \A e \in ExpiredAudit(s, OverduePlans(s, now), now) :
             /\ e.event = "recovery_expired" /\ e.session = s
             /\ e.subject \in OverduePlans(s, now)
             /\ ~Logged(e.subject, "recovery_expired")
             /\ e = Event(s, "recovery_expired", e.subject, now)
<1> SUFFICES ASSUME NEW q \in OverduePlans(s, now),
                    NEW e \in Audit(s, "recovery_expired", q, now)
             PROVE  /\ e.event = "recovery_expired" /\ e.session = s /\ e.subject = q
                    /\ ~Logged(q, "recovery_expired")
                    /\ e = Event(s, "recovery_expired", q, now)
  BY DEF ExpiredAudit
<1>1. q \in Plans /\ plan[q].session = s
  BY DEF OverduePlans, PlansOf
<1> QED BY <1>1, AuditIsNew

\* Expiry in passing: each overdue plan of the session becomes expired and that
\* is all that is recorded about it.
LEMMA ExpireLogged ==
    ASSUME TypeOK, NEW s \in Sessions, NEW now \in Instants, NEW p \in Plans,
           plan'[p] = Expire(OverduePlans(s, now), now)[p],
           \A event \in Events :
             Logged(p, event)' <=> \/ Logged(p, event)
                                   \/ p \in OverduePlans(s, now) /\ event = "recovery_expired"
    PROVE  LogsItsMove(p) /\ plan'[p].session = plan[p].session
<1>1. now \in Nat /\ plan[p] \in PlanType
  BY InstantType DEF TypeOK
<1>2. CASE p \in OverduePlans(s, now)
  <2>1. Usable(p) /\ Exists(p)
    BY <1>2, StoreAssumption DEF OverduePlans, PlansOf, Usable, Status, Exists
  <2>2. plan'[p].state = Bare("expired")
    BY <1>1, <1>2, OverdueExpires
  <2>3. plan'[p].session = plan[p].session
    BY <1>1, <1>2 DEF Expire, PlanType
  <2>4. LogsExactly(p, {"recovery_expired"})
    BY <1>2 DEF LogsExactly
  <2> QED BY <2>1, <2>2, <2>3, <2>4, StateColumns DEF LogsItsMove, Status, Exists
<1>3. CASE p \notin OverduePlans(s, now)
  <2>1. plan'[p] = plan[p]
    BY <1>3 DEF Expire
  <2>2. LogsExactly(p, {})
    BY <1>3 DEF LogsExactly
  <2> QED BY <2>1, <2>2, StillLogged DEF Status
<1> QED BY <1>2, <1>3

\* Reading the current plan records the expiry it persists.
LEMMA AuditCurrent ==
    ASSUME TypeOK, AuditIsOwned, AuditIsDistinct, NEW s \in Sessions, NEW now \in Instants,
           CurrentRecovery(s, now)
    PROVE  AuditIsOwned' /\ AuditIsDistinct' /\ \A q \in Plans : LogsItsMove(q)
<1> DEFINE overdue == OverduePlans(s, now)
           new == ExpiredAudit(s, overdue, now)
<1>1. /\ audit' = audit \cup new /\ session' = session
      /\ plan' = Expire(overdue, now)
  BY DEF CurrentRecovery
<1>2. \A q \in Plans, event \in Events :
        Logged(q, event)' <=> Logged(q, event) \/ (q \in overdue /\ event = "recovery_expired")
  <2> SUFFICES ASSUME NEW q \in Plans, NEW event \in Events
               PROVE  Logged(q, event)'
                        <=> Logged(q, event) \/ (q \in overdue /\ event = "recovery_expired")
    OBVIOUS
  <2>1. Logged(q, event)' <=> Logged(q, event) \/ \E e \in new : e.event = event /\ e.subject = q
    BY <1>1, GrowthLogs
  <2> QED BY <2>1, ExpiriesLogged
<1>3. \A q \in Plans : LogsItsMove(q) /\ plan'[q].session = plan[q].session
  BY <1>1, <1>2, ExpireLogged
<1>4. \A e \in new : /\ e.event = "recovery_expired" /\ e.session = s /\ e.subject \in overdue
                     /\ ~Logged(e.subject, e.event)
                     /\ e = Event(s, "recovery_expired", e.subject, now)
  BY ExpiriesAreNew
<1>5. \A q \in overdue : q \in Plans /\ plan[q].session = s
  BY DEF OverduePlans, PlansOf
<1> HIDE DEF new, overdue
<1>6. Extends(s, new)
  BY <1>1, <1>3, <1>4, <1>5 DEF Extends
<1> QED BY <1>3, <1>6, ExtendsKeepsTrail

\* A preparation records itself and the expiry it had to make room with.
LEMMA AuditPrepare ==
    ASSUME TypeOK, AuditIsOwned, AuditIsDistinct, NEW s \in Sessions, NEW p \in Plans,
           NEW now \in Instants, NEW target \in Releases, NEW refs \in RefLists,
           NEW reason \in Reasons, PrepareRecovery(s, p, target, refs, reason, now)
    PROVE  AuditIsOwned' /\ AuditIsDistinct' /\ \A q \in Plans : LogsItsMove(q)
<1> DEFINE overdue == OverduePlans(s, now)
           expiries == ExpiredAudit(s, overdue, now)
           prepared == Audit(s, "recovery_prepared", p, now)
           new == expiries \cup prepared
<1>1. /\ audit' = audit \cup new /\ session' = session /\ plan[p].session = NoSession
      /\ \A q \in Plans : q # p => plan'[q] = Expire(overdue, now)[q]
      /\ plan'[p] = PreparedRow(PreparedSpec(s, p, target, refs, reason, now), refs)
  BY DEF PrepareRecovery, Expire
<1>2. plan'[p].session = s /\ Status(p)' = "prepared"
  BY <1>1, AddedRow, StateColumns DEF Status
<1>3. p \notin overdue /\ \A q \in overdue : q \in Plans /\ plan[q].session = s
  BY <1>1, StoreAssumption DEF OverduePlans, PlansOf
<1>4. \A q \in Plans, event \in Events :
        Logged(q, event)' <=> \/ Logged(q, event)
                              \/ q \in overdue /\ event = "recovery_expired"
                              \/ q = p /\ event = "recovery_prepared"
  <2> SUFFICES ASSUME NEW q \in Plans, NEW event \in Events
               PROVE  Logged(q, event)' <=> \/ Logged(q, event)
                                            \/ q \in overdue /\ event = "recovery_expired"
                                            \/ q = p /\ event = "recovery_prepared"
    OBVIOUS
  <2>1. Logged(q, event)' <=> Logged(q, event) \/ \E e \in new : e.event = event /\ e.subject = q
    <3> HIDE DEF new
    <3> QED BY <1>1, GrowthLogs
  <2>2. Logged(q, event) \/ (\E e \in expiries : e.event = event /\ e.subject = q)
          <=> Logged(q, event) \/ (q \in overdue /\ event = "recovery_expired")
    BY ExpiriesLogged
  <2>3. Logged(q, event) \/ (\E e \in prepared : e.event = event /\ e.subject = q)
          <=> Logged(q, event) \/ (q = p /\ event = "recovery_prepared")
    BY AuditLogs
  <2> HIDE DEF expiries, prepared, overdue
  <2> QED BY <2>1, <2>2, <2>3
<1>5. \A e \in expiries : /\ e.event = "recovery_expired" /\ e.session = s /\ e.subject \in overdue
                          /\ ~Logged(e.subject, e.event)
                          /\ e = Event(s, "recovery_expired", e.subject, now)
  BY ExpiriesAreNew
<1>6. \A e \in prepared : /\ e.event = "recovery_prepared" /\ e.session = s /\ e.subject = p
                          /\ ~Logged(e.subject, e.event)
                          /\ e = Event(s, "recovery_prepared", e.subject, now)
  BY <1>1, AuditIsNew
<1>7. \A q \in Plans \ {p} : LogsItsMove(q) /\ plan'[q].session = plan[q].session
  BY <1>1, <1>4, ExpireLogged
<1> HIDE DEF overdue, expiries, prepared
<1>8. LogsItsMove(p)
  <2>1. ~Exists(p) /\ Exists(p)'
    BY <1>1, <1>2, StoreAssumption DEF Exists
  <2>2. LogsExactly(p, {"recovery_prepared"})
    BY <1>3, <1>4 DEF LogsExactly
  <2> QED BY <1>2, <2>1, <2>2 DEF LogsItsMove
<1>9. Extends(s, new)
  <2>1. \A e \in new : /\ e.event # "session_reset" /\ e.session = s /\ e.subject \in Plans
                       /\ plan'[e.subject].session = s /\ ~Logged(e.subject, e.event)
    BY <1>2, <1>3, <1>5, <1>6, <1>7
  <2>2. \A e, f \in new : e.event = f.event /\ e.subject = f.subject => e = f
    BY <1>5, <1>6
  <2>3. \A q \in Plans : Exists(q) => plan'[q].session = plan[q].session
    BY <1>1, <1>7 DEF Exists
  <2> QED BY <1>1, <2>1, <2>2, <2>3 DEF Extends
<1> QED BY <1>7, <1>8, <1>9, ExtendsKeepsTrail

\* A reset records itself under the session it revokes, and no plan logs the
\* invalidation: the event names the replacement, which is no plan.
LEMMA AuditReset ==
    ASSUME TypeOK, OneActivePlan, AuditIsOwned, AuditIsDistinct,
           NEW s \in Sessions, NEW r \in Sessions, NEW now \in Instants, ResetSession(s, r, now)
    PROVE  AuditIsOwned' /\ AuditIsDistinct' /\ \A q \in Plans : LogsItsMove(q)
<1> DEFINE new == Audit(s, "session_reset", r, now)
<1>1. /\ s # r /\ session[s].status = "live" /\ session[r].status = "absent"
      /\ \A t \in Sessions :
           session'[t].status = IF t = s THEN "revoked" ELSE IF t = r THEN "live"
                                ELSE session[t].status
  BY ResetStatus
<1>2. /\ audit' = audit \cup new
      /\ \A e \in new : /\ e = Event(s, "session_reset", r, now)
                        /\ e.session = s /\ e.event = "session_reset" /\ e.subject = r
  BY DEF ResetSession, Audit, Event
<1> HIDE DEF new
<1>3. r \notin Plans
  BY StoreAssumption
<1>4. \A q \in Plans : \/ plan'[q] = plan[q]
                       \/ /\ Usable(q) /\ Exists(q) /\ plan'[q].session = plan[q].session
                          /\ plan'[q].state = Bare("invalidated")
  <2> SUFFICES ASSUME NEW q \in Plans, plan[q].session = s
               PROVE  \/ plan'[q] = plan[q]
                      \/ /\ Usable(q) /\ Exists(q) /\ plan'[q].session = plan[q].session
                         /\ plan'[q].state = Bare("invalidated")
    BY DEF ResetSession
  <2>1. plan[q] \in PlanType /\ Exists(q) /\ Status(q) # "executing"
    BY StoreAssumption DEF TypeOK, Exists, OneActivePlan
  <2> QED BY <2>1 DEF ResetSession, InvalidateRecovery, Usable, Status, ActiveStatus, PlanType
<1>5. \A q \in Plans : plan'[q].session = plan[q].session
  BY <1>4
<1>6. \A q \in Plans : LogsExactly(q, {})
  BY <1>2, <1>3 DEF LogsExactly, Logged
<1>7. \A q \in Plans : LogsItsMove(q)
  <2> SUFFICES ASSUME NEW q \in Plans PROVE LogsItsMove(q)
    OBVIOUS
  <2>1. CASE plan'[q] = plan[q]
    BY <1>6, <2>1, StillLogged DEF Status
  <2>2. CASE /\ Usable(q) /\ Exists(q) /\ plan'[q].session = plan[q].session
             /\ plan'[q].state = Bare("invalidated")
    BY <1>6, <2>2, StateColumns DEF LogsItsMove, Exists, Status
  <2> QED BY <1>4, <2>1, <2>2
<1>8. ASSUME NEW e \in audit, e.subject \notin Plans
      PROVE  /\ session'[e.session].status = "revoked"
             /\ session'[e.subject].status # "absent" /\ e.subject # r
  <2>1. /\ session[e.session].status = "revoked" /\ session[e.subject].status # "absent"
        /\ e.session \in Sessions /\ e.subject \in Sessions
    BY <1>8 DEF AuditIsOwned, TypeOK, AuditType
  <2> QED BY <1>1, <2>1
<1>9. AuditIsOwned'
  BY <1>1, <1>2, <1>3, <1>5, <1>8 DEF AuditIsOwned
<1>10. AuditIsDistinct'
  <2>1. \A e \in audit, f \in new : e.subject # f.subject
    BY <1>2, <1>3, <1>8
  <2> QED BY <1>2, <2>1 DEF AuditIsDistinct
<1> QED BY <1>7, <1>9, <1>10

\* A creation deletes the events of a plan with the plan, and every reset event
\* with the revoked session it is about.
LEMMA AuditCreate ==
    ASSUME TypeOK, StatesKeepTheirColumns, AuditInv, NEW s \in Sessions, NEW now \in Instants,
           CreateSession(s, now)
    PROVE  AuditInv'
<1> DEFINE gone == Removable(now)
<1>1. /\ audit' = {e \in audit : e.session \notin gone}
      /\ \A p \in Plans : plan'[p] = IF plan[p].session \in gone THEN AbsentPlan ELSE plan[p]
  BY DEF CreateSession
<1>2. \A e \in audit : e.subject \notin Plans => e.session \in gone
  BY DEF AuditInv, AuditIsOwned, Removable, TypeOK, AuditType
<1>3. \A e \in audit' : e \in audit /\ e.subject \in Plans /\ plan[e.subject].session = e.session
                        /\ plan'[e.subject] = plan[e.subject]
  BY <1>1, <1>2 DEF AuditInv, AuditIsOwned
<1>4. AuditIsOwned' /\ AuditIsDistinct'
  BY <1>3 DEF AuditInv, AuditIsOwned, AuditIsDistinct
<1>5. ASSUME NEW p \in Plans, plan[p].session \notin gone PROVE Trail(p)'
  <2>1. \A e \in audit : e.subject = p => e \in audit'
    BY <1>1, <1>5 DEF AuditInv, AuditIsOwned
  <2>2. plan'[p] = plan[p] /\ \A event : Logged(p, event)' <=> Logged(p, event)
    BY <1>1, <1>5, <2>1 DEF Logged
  <2> QED BY <2>2 DEF AuditInv, Trail, Exists, Status
<1>6. ASSUME NEW p \in Plans, plan[p].session \in gone PROVE Trail(p)'
  <2>1. \A e \in audit' : e.subject # p
    BY <1>1, <1>6 DEF AuditInv, AuditIsOwned
  <2>2. \A event : ~Logged(p, event)'
    BY <2>1 DEF Logged
  <2>3. plan'[p].session = NoSession /\ Status(p)' = "absent"
    BY <1>1, <1>6, StateColumns DEF Status
  <2> QED BY <2>2, <2>3 DEF Trail, Exists
<1> QED BY <1>4, <1>5, <1>6 DEF AuditInv

\* A step records what it does to the plans.
Told == AuditIsOwned' /\ AuditIsDistinct' /\ \A q \in Plans : LogsItsMove(q)

\* Every step does, but a creation, which deletes events with their plans.
LEMMA StepsAreTold ==
    ASSUME TypeOK, OneActivePlan, StatesKeepTheirColumns, AuditInv, [Next]_vars
    PROVE  Told \/ \E s \in Sessions, now \in Instants : CreateSession(s, now)
<1> USE DEF Told
<1>1. AuditIsOwned /\ AuditIsDistinct /\ \A p \in Plans : Trail(p)
  BY DEF AuditInv
<1>2. ASSUME UNCHANGED <<plan, audit, session>> PROVE Told
  <2>1. \A q \in Plans : LogsExactly(q, {}) /\ Status(q)' = Status(q)
    BY <1>2 DEF LogsExactly, Logged, Status
  <2>2. AuditIsOwned' /\ AuditIsDistinct'
    BY <1>1, <1>2 DEF AuditIsOwned, AuditIsDistinct
  <2> QED BY <1>2, <2>1, <2>2, StillLogged
<1>3. ASSUME NEW s \in Sessions, NEW d \in Diagnostics, NEW now \in Instants,
             RunDatabaseDiagnostic(s, d, now)
      PROVE  Told
  BY <1>2, <1>3 DEF RunDatabaseDiagnostic
<1>4. ASSUME Tick \/ UNCHANGED vars PROVE Told
  <2>1. UNCHANGED <<plan, audit, session>>
    BY <1>4 DEF Tick, vars, recoveryVars
  <2> QED BY <1>2, <2>1
<1>5. ASSUME NEW s \in Sessions, NEW p \in Plans, NEW now \in Instants,
             DecideLate(s, p, now) \/ ExecuteLate(s, p, now)
      PROVE  Told
  <2>1. /\ ExpireInstead(s, p, now) /\ plan[p].session = s /\ Usable(p)
    BY <1>5 DEF DecideLate, ExecuteLate, Locked, Overdue, LateExecution, Usable, Status
  <2> QED BY <1>1, <2>1, AuditExpireInstead
<1>6. ASSUME NEW s \in Sessions, NEW now \in Instants,
             \/ \E r \in Sessions : ResetSession(s, r, now)
             \/ CurrentRecovery(s, now)
             \/ \E p \in Plans, target \in Releases, refs \in RefLists, reason \in Reasons :
                  PrepareRecovery(s, p, target, refs, reason, now)
      PROVE  Told
  BY <1>1, <1>6, AuditReset, AuditCurrent, AuditPrepare
<1>7. ASSUME NEW s \in Sessions, NEW p \in Plans, NEW now \in Instants,
             \/ \E decision \in Decisions : DecideRecovery(s, p, decision, now)
             \/ \E d \in Diagnostics : ExecuteRecovery(s, p, d, now)
             \/ VerifyRecovery(s, p, now)
      PROVE  Told
  BY <1>1, <1>7, AuditDecide, AuditExecute, AuditVerify
<1> HIDE DEF Told
<1> QED BY <1>3, <1>4, <1>5, <1>6, <1>7, Zenon DEF Next, Operation

\* Every step keeps the trail.
LEMMA AuditStep ==
    ASSUME TypeOK, OneActivePlan, StatesKeepTheirColumns, AuditInv, [Next]_vars
    PROVE  AuditInv'
<1>1. Told => AuditInv'
  BY TrailStep DEF AuditInv, Told
<1> QED BY <1>1, StepsAreTold, AuditCreate, Zenon

\* The trail holds in every state.
LEMMA AuditHolds == Spec => []AuditInv
<1>1. Init => AuditInv
  <2> SUFFICES ASSUME Init PROVE AuditInv
    OBVIOUS
  <2>1. \A p \in Plans : ~Exists(p) /\ Status(p) = "absent"
    BY StateColumns DEF Init, Exists, Status
  <2> QED BY <2>1 DEF AuditInv, AuditIsOwned, AuditIsDistinct, Trail, Logged, Init
<1>2. TypeOK /\ OneActivePlan /\ StatesKeepTheirColumns /\ AuditInv /\ [Next]_vars => AuditInv'
  BY AuditStep
<1> QED
  BY <1>1, <1>2, TypeInit, TypeStep, OneActivePlanInit, OneActivePlanStep,
     ColumnsInit, ColumnsStep, PTL DEF Spec

\* The audit trail and the plans agree in both directions: every transition a
\* plan made is recorded once, under the plan's session, and nothing else is.
THEOREM AuditTellsTheStory == Spec => []AuditMatchesPlans
<1>1. AuditInv => AuditMatchesPlans
  BY Zenon DEF AuditInv, AuditIsOwned, AuditIsDistinct, Trail, Logged, AuditMatchesPlans
<1> QED BY <1>1, AuditHolds, PTL

-----------------------------------------------------------------------------
\* Requests that wait: how far instants may be out of the order of commits.

\* No table holds an instant the clock has not reached.
InstantsArePast ==
    /\ \A p \in Plans : plan[p].created_at <= clock
    /\ \A e \in audit : e.at <= clock

\* The story puts the event `e' before `f'.
Precedes(e, f) ==
    \/ e.event = "recovery_prepared" /\ f.event # "recovery_prepared"
    \/ e.event = "human_approval" /\ f.event \notin {"recovery_prepared", "human_approval"}
    \/ /\ e.event = "recovery_execution"
       /\ f.event \notin {"recovery_prepared", "human_approval", "recovery_execution"}

\* Two events of one plan in order, but for the time a request may wait.
NearlyOrdered(e, f) == e.subject = f.subject /\ Precedes(e, f) => e.at <= f.at + MaxDelay

\* Ranks are another way to say so: the audit trail is nearly in order when each
\* two of its events are.
LEMMA NearlyInOrderPairwise == AuditNearlyInOrder <=> \A e, f \in audit : NearlyOrdered(e, f)
<1> DEFINE Rank(e) == CASE e.event = "recovery_prepared" -> 0
                        [] e.event = "human_approval" -> 1
                        [] e.event = "recovery_execution" -> 2
                        [] OTHER -> 3
<1>1. ASSUME NEW e, NEW f PROVE Rank(e) < Rank(f) <=> Precedes(e, f)
  BY DEF Precedes
<1>2. AuditNearlyInOrder <=>
        \A e, f \in audit : e.subject = f.subject /\ Rank(e) < Rank(f) => e.at <= f.at + MaxDelay
  BY Zenon DEF AuditNearlyInOrder
<1> HIDE DEF Rank
<1> QED BY <1>1, <1>2, Zenon DEF NearlyOrdered

\* An instant that waited for its commit.
LEMMA InstantIsRecent ==
    ASSUME TypeOK, NEW now \in Instants
    PROVE  now \in Nat /\ now <= clock /\ clock <= now + MaxDelay
BY StoreAssumption DEF Instants, TypeOK

\* A step that deletes no event records only events of an instant it read.
LEMMA RecordedNow ==
    ASSUME [Next]_vars
    PROVE  \/ \E s \in Sessions, now \in Instants : CreateSession(s, now)
           \/ /\ audit \subseteq audit'
              /\ \A e \in audit' : e \in audit \/ e.at \in Instants
<1> DEFINE Grows == /\ audit \subseteq audit'
                    /\ \A e \in audit' : e \in audit \/ e.at \in Instants
<1>1. \A s, event, subject, at : \A e \in Audit(s, event, subject, at) : e.at = at
  BY DEF Audit, Event
<1>2. \A s, overdue, at : \A e \in ExpiredAudit(s, overdue, at) : e.at = at
  BY <1>1 DEF ExpiredAudit
<1>3. ASSUME audit' = audit PROVE Grows
  BY <1>3
<1>4. ASSUME NEW now \in Instants, NEW new, audit' = audit \cup new, \A e \in new : e.at = now
      PROVE  Grows
  BY <1>4
<1>5. ASSUME \/ Tick \/ UNCHANGED vars
             \/ \E s \in Sessions, d \in Diagnostics, now \in Instants :
                  RunDatabaseDiagnostic(s, d, now)
      PROVE  Grows
  <2>1. audit' = audit
    BY <1>5 DEF Tick, vars, RunDatabaseDiagnostic
  <2> QED BY <1>3, <2>1
<1>6. ASSUME NEW s \in Sessions, NEW r \in Sessions, NEW now \in Instants, ResetSession(s, r, now)
      PROVE  Grows
  <2>1. audit' = audit \cup Audit(s, "session_reset", r, now)
    BY <1>6 DEF ResetSession
  <2> QED BY <1>1, <1>4, <2>1
<1>7. ASSUME NEW s \in Sessions, NEW now \in Instants, CurrentRecovery(s, now)
      PROVE  Grows
  <2>1. audit' = audit \cup ExpiredAudit(s, OverduePlans(s, now), now)
    BY <1>7 DEF CurrentRecovery
  <2> QED BY <1>2, <1>4, <2>1
<1>8. ASSUME NEW s \in Sessions, NEW p \in Plans, NEW now \in Instants,
             NEW target \in Releases, NEW refs \in RefLists, NEW reason \in Reasons,
             PrepareRecovery(s, p, target, refs, reason, now)
      PROVE  Grows
  <2> DEFINE expiries == ExpiredAudit(s, OverduePlans(s, now), now)
             prepared == Audit(s, "recovery_prepared", p, now)
  <2>1. audit' = audit \cup (expiries \cup prepared)
    BY <1>8 DEF PrepareRecovery
  <2>2. \A e \in expiries \cup prepared : e.at = now
    BY <1>1, <1>2
  <2> HIDE DEF expiries, prepared
  <2> QED BY <1>4, <2>1, <2>2
<1>9. ASSUME NEW s \in Sessions, NEW p \in Plans, NEW now \in Instants,
             \/ DecideLate(s, p, now) \/ ExecuteLate(s, p, now)
             \/ \E d \in Diagnostics : ExecuteRecovery(s, p, d, now)
             \/ VerifyRecovery(s, p, now)
      PROVE  Grows
  <2>1. \E event : audit' = audit \cup Audit(s, event, p, now)
    BY <1>9 DEF DecideLate, ExecuteLate, ExpireInstead, ExecuteRecovery, VerifyRecovery
  <2> QED BY <1>1, <1>4, <2>1
<1>10. ASSUME NEW s \in Sessions, NEW p \in Plans, NEW now \in Instants,
              NEW decision \in Decisions, DecideRecovery(s, p, decision, now)
       PROVE  Grows
  <2>1. audit' = audit \/ \E event : audit' = audit \cup Audit(s, event, p, now)
    BY <1>10, Zenon DEF DecideRecovery
  <2> QED BY <1>1, <1>3, <1>4, <2>1
<1> HIDE DEF Grows
<1>11. Grows \/ \E s \in Sessions, now \in Instants : CreateSession(s, now)
  BY <1>5, <1>6, <1>7, <1>8, <1>9, <1>10, Zenon DEF Next, Operation
<1> QED BY <1>11, Zenon DEF Grows

\* What a step commits carries an instant that has passed.
LEMMA InstantsStep ==
    ASSUME TypeOK, OneActivePlan, StatesKeepTheirColumns, InstantsArePast, [Next]_vars
    PROVE  InstantsArePast'
<1>1. clock \in Nat /\ (clock' = clock \/ clock' = clock + 1)
  BY DEF TypeOK, Next, Operation, vars, Tick, CreateSession, ResetSession, RunDatabaseDiagnostic,
         CurrentRecovery, PrepareRecovery, DecideLate, ExecuteLate, ExpireInstead,
         DecideRecovery, ExecuteRecovery, VerifyRecovery
<1>2. clock <= clock'
  BY <1>1
<1>3. ASSUME NEW p \in Plans PROVE plan'[p].created_at <= clock'
  <2>1. PlanMoves(p) /\ plan[p] \in PlanType
    BY StepsMovePlans DEF TypeOK
  <2>2. CASE Removed(p)
    <3>1. plan'[p].created_at = 0
      <4>1. plan'[p] = AbsentPlan
        BY <2>2 DEF Removed
      <4>2. AbsentPlan.created_at = 0
        BY DEF AbsentPlan
      <4> QED BY <4>1, <4>2, Zenon
    <3> QED BY <1>1, <3>1
  <2>3. CASE Added(p)
    <3>1. PICK now \in Instants : plan'[p].created_at = now
      BY <2>3, AddedRow DEF Added
    <3>2. now \in Nat /\ now <= clock
      BY InstantIsRecent
    <3> QED BY <1>1, <3>1, <3>2
  <2>4. CASE ~Removed(p) /\ ~Added(p)
    <3>1. plan'[p].created_at = plan[p].created_at /\ plan[p].created_at \in Nat
      BY <2>1, <2>4, StayingRows DEF SameFacts, PlanType
    <3>2. plan[p].created_at <= clock
      BY DEF InstantsArePast
    <3> QED BY <1>1, <3>1, <3>2
  <2> QED BY <2>2, <2>3, <2>4
<1>4. ASSUME NEW e \in audit' PROVE e.at <= clock'
  <2>1. e \in audit \/ e.at \in Instants
    BY RecordedNow DEF CreateSession
  <2>2. e \in audit => e.at \in Nat /\ e.at <= clock
    BY DEF InstantsArePast, TypeOK, AuditType
  <2>3. e.at \in Nat /\ e.at <= clock
    BY <2>1, <2>2, InstantIsRecent
  <2> QED BY <1>1, <2>3
<1> QED BY <1>3, <1>4 DEF InstantsArePast

\* No event of a plan's story is recorded once a later one is: the plan has
\* left the state the earlier event is recorded in.
LEMMA StoryNeverGoesBack ==
    ASSUME TypeOK, StatesKeepTheirColumns, AuditInv, Told, audit \subseteq audit',
           NEW e \in audit', e \notin audit, NEW f \in audit, e.subject = f.subject
    PROVE  ~Precedes(e, f)
<1> SUFFICES ASSUME Precedes(e, f) PROVE FALSE
  OBVIOUS
<1> DEFINE p == e.subject
<1>1. e.event \in {"recovery_prepared", "human_approval", "recovery_execution"}
  BY DEF Precedes
<1>2. p \in Plans
  BY <1>1 DEF Told, AuditIsOwned
<1>3. ~Logged(p, e.event) /\ Logged(p, e.event)'
  BY DEF Logged, Told, AuditIsDistinct
<1>4. f.event \in Events \ {"session_reset"} /\ Logged(p, f.event)
  BY <1>2 DEF AuditInv, AuditIsOwned, Logged, TypeOK, AuditType
<1> HIDE DEF p
<1>5. Trail(p) /\ LogsItsMove(p) /\ e.event \in Events /\ AuditIsOwned
  BY <1>1, <1>2 DEF AuditInv, Told, Events
<1>6. CASE e.event = "recovery_prepared"
  <2>1. ~Exists(p)
    BY <1>3, <1>5, <1>6 DEF LogsItsMove, LogsExactly
  <2> QED BY <1>2, <1>4, <1>5, <2>1, FreeIsUnlogged
<1>7. CASE e.event = "human_approval"
  <2>1. Status(p) = "prepared"
    BY <1>3, <1>5, <1>7 DEF LogsItsMove, LogsExactly
  <2> QED BY <1>4, <1>5, <1>7, <2>1 DEF Trail, Precedes, Events
<1>8. CASE e.event = "recovery_execution"
  <2>1. Status(p) = "approved"
    BY <1>3, <1>5, <1>8 DEF LogsItsMove, LogsExactly
  <2> QED BY <1>4, <1>5, <1>8, <2>1 DEF Trail, Precedes, Events
<1> QED BY <1>1, <1>6, <1>7, <1>8

\* Hence an event out of order waited for its commit.
LEMMA OrderStep ==
    ASSUME TypeOK, TypeOK', OneActivePlan, StatesKeepTheirColumns, AuditInv, InstantsArePast,
           AuditNearlyInOrder, [Next]_vars
    PROVE  AuditNearlyInOrder'
<1>1. \A e, f \in audit : NearlyOrdered(e, f)
  BY NearlyInOrderPairwise
<1>2. ASSUME NEW e \in audit', NEW f \in audit' PROVE NearlyOrdered(e, f)
  <2>1. CASE \E s \in Sessions, now \in Instants : CreateSession(s, now)
    <3>1. e \in audit /\ f \in audit
      BY <2>1 DEF CreateSession
    <3> QED BY <1>1, <3>1
  <2>2. CASE ~ \E s \in Sessions, now \in Instants : CreateSession(s, now)
    <3>1. Told /\ audit \subseteq audit' /\ \A x \in audit' : x \in audit \/ x.at \in Instants
      BY <2>2, StepsAreTold, RecordedNow, Zenon
    <3>2. CASE f \in audit /\ e \in audit
      BY <1>1, <3>2
    <3>3. CASE f \in audit /\ e \notin audit
      BY <3>1, <3>3, StoryNeverGoesBack DEF NearlyOrdered
    <3>4. CASE f \notin audit
      <4>1. f.at \in Nat /\ clock <= f.at + MaxDelay
        BY <3>1, <3>4, InstantIsRecent
      <4>2. e.at \in Nat /\ e.at <= clock
        BY <3>1, InstantIsRecent DEF InstantsArePast, TypeOK, AuditType
      <4>3. clock \in Nat /\ MaxDelay \in Nat
        BY StoreAssumption DEF TypeOK
      <4> QED BY <4>1, <4>2, <4>3 DEF NearlyOrdered
    <3> QED BY <3>2, <3>3, <3>4
  <2> QED BY <2>1, <2>2
<1>3. (AuditNearlyInOrder <=> \A e, f \in audit : NearlyOrdered(e, f))'
  BY NearlyInOrderPairwise, PTL
<1> QED BY <1>2, <1>3

\* A plan of the session that is younger than its active one is so only because
\* the request for the active one waited.
LEMMA NearlyCurrentStep ==
    ASSUME TypeOK, OneActivePlan, OneActivePlan', StatesKeepTheirColumns, InstantsArePast,
           ActivePlanIsNearlyCurrent, [Next]_vars
    PROVE  ActivePlanIsNearlyCurrent'
<1> SUFFICES ASSUME NEW s \in Sessions, NEW p \in Plans, NEW q \in Plans,
                    plan'[p].session = s, plan'[q].session = s, Usable(p)'
             PROVE  plan'[q].created_at <= plan'[p].created_at + MaxDelay
  BY DEF ActivePlanIsNearlyCurrent, PlansOf, Usable
<1>1. PlanMoves(p) /\ PlanMoves(q)
  BY StepsMovePlans
<1>2. s # NoSession
  BY StoreAssumption
<1>3. ~Removed(p) /\ ~Removed(q)
  BY <1>2, StateColumns DEF Removed
<1>4. clock \in Nat /\ MaxDelay \in Nat
  BY StoreAssumption DEF TypeOK
<1>5. ASSUME NEW x \in Plans, ~Removed(x), PlanMoves(x)
      PROVE  plan'[x].created_at \in Nat /\ plan'[x].created_at <= clock
             /\ (Added(x) => clock <= plan'[x].created_at + MaxDelay)
  <2>1. CASE Added(x)
    <3>1. PICK now \in Instants : plan'[x].created_at = now
      BY <2>1, AddedRow DEF Added
    <3> QED BY <3>1, InstantIsRecent
  <2>2. CASE ~Added(x)
    <3>1. plan'[x].created_at = plan[x].created_at
      BY <1>5, <2>2, StayingRows DEF SameFacts
    <3>2. plan[x].created_at \in Nat /\ plan[x].created_at <= clock
      BY DEF InstantsArePast, TypeOK, PlanType
    <3> QED BY <2>2, <3>1, <3>2
  <2> QED BY <2>1, <2>2
<1>6. CASE Added(p)
  BY <1>1, <1>3, <1>4, <1>5, <1>6
<1>7. CASE ~Added(p) /\ Added(q)
  <2>1. Usable(q)'
    BY <1>7, AddedWasFree, StateColumns DEF Usable, Status
  <2>2. p = q
    BY <1>2, <2>1 DEF OneActivePlan, Usable, Exists
  <2> QED BY <1>1, <1>3, <1>4, <1>5, <2>2
<1>8. CASE ~Added(p) /\ ~Added(q)
  <2>1. SameFacts(p) /\ SameFacts(q)
    BY <1>1, <1>3, <1>8, StayingRows
  <2>2. Usable(p)
    <3>1. \/ plan'[p].state = plan[p].state \/ Usable(p)
      BY <1>1, <1>3, <1>8, StayingRows DEF Usable
    <3> QED BY <3>1 DEF Usable, Status
  <2>3. plan[q].created_at <= plan[p].created_at + MaxDelay
    BY <2>1, <2>2 DEF ActivePlanIsNearlyCurrent, PlansOf, Usable, SameFacts
  <2> QED BY <2>1, <2>3 DEF SameFacts
<1> QED BY <1>6, <1>7, <1>8

\* The three are inductive with what is proved above.
DriftInv == InstantsArePast /\ AuditNearlyInOrder /\ ActivePlanIsNearlyCurrent

\* Every operation keeps the three parts.
LEMMA DriftHolds == Spec => []DriftInv
<1>1. Init => DriftInv
  <2> SUFFICES ASSUME Init PROVE DriftInv
    OBVIOUS
  <2>1. clock = 0 /\ audit = {} /\ \A p \in Plans : plan[p].created_at = 0 /\ Status(p) = "absent"
    BY StateColumns DEF Init, AbsentPlan, Status
  <2>2. ActivePlanIsNearlyCurrent
    BY <2>1 DEF ActivePlanIsNearlyCurrent, PlansOf
  <2>3. AuditNearlyInOrder
    BY <2>1, NearlyInOrderPairwise
  <2> QED BY <2>1, <2>2, <2>3 DEF DriftInv, InstantsArePast
<1>2. /\ TypeOK /\ TypeOK' /\ OneActivePlan /\ OneActivePlan' /\ StatesKeepTheirColumns
      /\ AuditInv /\ DriftInv /\ [Next]_vars
      => DriftInv'
  BY InstantsStep, OrderStep, NearlyCurrentStep DEF DriftInv
<1> QED
  BY <1>1, <1>2, TypeInit, TypeStep, OneActivePlanInit, OneActivePlanStep,
     ColumnsInit, ColumnsStep, AuditHolds, PTL DEF Spec

\* The plan a session could still act on is younger than every other plan of the
\* session, but for the time a request may wait between its clock and its commit.
THEOREM ActivePlanIsYoungest == Spec => []ActivePlanIsNearlyCurrent
BY DriftHolds, PTL DEF DriftInv

\* Whatever the requests and however long they wait, the audit trail of a plan is
\* out of order by no more than that.
THEOREM AuditDriftsByTheDelay == Spec => []AuditNearlyInOrder
BY DriftHolds, PTL DEF DriftInv

-----------------------------------------------------------------------------
\* The abstract lifecycle: each operation is one step of RecoveryAuthority, or
\* none.

\* What the mapping says of a session, one active plan at most.
MappingFacts ==
    \A s \in Sessions :
        /\ session[s].status # "live" => AuthorityOf(s) = "closed"
        /\ session[s].status = "live" =>
             /\ AuthorityOf(s) # "closed"
             /\ \A p \in Plans : plan[p].session = s =>
                  /\ Status(p) = "approved" => AuthorityOf(s) = "granted"
                  /\ Status(p) = "prepared" => AuthorityOf(s) = "proposed"
             /\ (\A p \in Plans : plan[p].session = s => ~Usable(p)) => AuthorityOf(s) = "idle"
        /\ OutcomeOf(s) = IF production[s].incident = "active" THEN "broken" ELSE "recovered"

\* A session has the authority of any of its pending plans: there is only one.
LEMMA MappingHolds == TypeOK /\ OneActivePlan => MappingFacts
<1> SUFFICES ASSUME TypeOK, OneActivePlan, NEW s \in Sessions
             PROVE  /\ session[s].status # "live" => AuthorityOf(s) = "closed"
                    /\ session[s].status = "live" =>
                         /\ AuthorityOf(s) # "closed"
                         /\ \A p \in Plans : plan[p].session = s =>
                              /\ Status(p) = "approved" => AuthorityOf(s) = "granted"
                              /\ Status(p) = "prepared" => AuthorityOf(s) = "proposed"
                         /\ (\A p \in Plans : plan[p].session = s => ~Usable(p))
                              => AuthorityOf(s) = "idle"
  BY DEF MappingFacts, OutcomeOf
<1>1. ASSUME NEW p \in Plans, plan[p].session = s, Status(p) = "prepared"
      PROVE  ~HasPlan(s, "approved")
  BY <1>1, StoreAssumption DEF OneActivePlan, Exists, HasPlan
<1>2. \A p \in Plans : plan[p].session = s => HasPlan(s, Status(p))
  BY DEF HasPlan
<1>3. (\A p \in Plans : plan[p].session = s => ~Usable(p))
        => ~HasPlan(s, "approved") /\ ~HasPlan(s, "prepared")
  BY DEF HasPlan, Usable
<1> QED BY <1>1, <1>2, <1>3 DEF AuthorityOf

\* The same after a step.
LEMMA MappingHoldsNext == TypeOK' /\ OneActivePlan' => MappingFacts'
<1>1. (TypeOK /\ OneActivePlan => MappingFacts)'
  BY MappingHolds, PTL
<1> QED BY <1>1

\* The mapping of a session does not change.
Unmoved(t) == AuthorityOf(t)' = AuthorityOf(t) /\ OutcomeOf(t)' = OutcomeOf(t)

\* It depends on the session's own rows alone.
LEMMA AloneIsUnmoved ==
    ASSUME NEW t \in Sessions, LeavesAlone(t),
           session'[t].status = "live" <=> session[t].status = "live"
    PROVE  Unmoved(t)
<1>1. \A p \in Plans : /\ plan'[p].session = t <=> plan[p].session = t
                       /\ plan[p].session = t => plan'[p] = plan[p]
  BY DEF LeavesAlone
<1>2. \A status : HasPlan(t, status)' <=> HasPlan(t, status)
  BY <1>1 DEF HasPlan, Status
<1>3. production'[t] = production[t]
  BY DEF LeavesAlone
<1> QED BY <1>2, <1>3 DEF Unmoved, AuthorityOf, OutcomeOf

-----------------------------------------------------------------------------
\* One step of one session.

\* A step that leaves every session where it is stutters.
LEMMA StutterImplements ==
    ASSUME \A t \in Sessions : Unmoved(t)
    PROVE  UNCHANGED Authority!vars
BY DEF Unmoved, Authority!vars

\* A step that moves one session as an abstract action does is that action.
LEMMA ActorImplements ==
    ASSUME NEW s \in Sessions, \A t \in Sessions \ {s} : Unmoved(t)
    PROVE  /\ /\ AuthorityOf(s) # "closed" /\ OutcomeOf(s) = "broken"
              /\ AuthorityOf(s)' = "proposed" /\ OutcomeOf(s)' = OutcomeOf(s)
              => Authority!Propose(s)
           /\ /\ AuthorityOf(s) = "proposed"
              /\ AuthorityOf(s)' = "granted" /\ OutcomeOf(s)' = OutcomeOf(s)
              => Authority!Grant(s)
           /\ /\ AuthorityOf(s) \in {"proposed", "granted"}
              /\ AuthorityOf(s)' = "idle" /\ OutcomeOf(s)' = OutcomeOf(s)
              => Authority!Withdraw(s)
           /\ /\ AuthorityOf(s) = "granted" /\ OutcomeOf(s) = "broken"
              /\ AuthorityOf(s)' = "idle" /\ OutcomeOf(s)' = "recovered"
              => Authority!Recover(s)
<1> DEFINE before == [t \in Sessions |-> AuthorityOf(t)]
           after == [t \in Sessions |-> AuthorityOf(t)']
           was == [t \in Sessions |-> OutcomeOf(t)]
           is == [t \in Sessions |-> OutcomeOf(t)']
<1>1. /\ after = [before EXCEPT ![s] = AuthorityOf(s)']
      /\ is = [was EXCEPT ![s] = OutcomeOf(s)']
  BY DEF Unmoved
<1>2. OutcomeOf(s)' = OutcomeOf(s) => is = was
  BY DEF Unmoved
<1>3. before[s] = AuthorityOf(s) /\ was[s] = OutcomeOf(s)
  OBVIOUS
<1> QED
  BY <1>1, <1>2, <1>3
     DEF Authority!Propose, Authority!Grant, Authority!Withdraw, Authority!Recover

-----------------------------------------------------------------------------
\* The operations.

\* What an operation of one live session can rely on: its own row and the other
\* sessions stay, and at most one plan is pending before and after.
Acts(s) ==
    /\ MappingFacts /\ MappingFacts'
    /\ session[s].status = "live" /\ session' = session
    /\ \A t \in Sessions \ {s} : Unmoved(t)

\* Every operation but a creation and a reset acts for one session.
LEMMA OperationsAct ==
    ASSUME TypeOK, OneActivePlan, [Next]_vars, NEW s \in Sessions,
           session[s].status = "live", session' = session,
           \A t \in Sessions \ {s} : LeavesAlone(t)
    PROVE  Acts(s)
<1>1. MappingFacts
  BY MappingHolds
<1>2. MappingFacts'
  BY MappingHoldsNext, TypeStep, OneActivePlanStep
<1> QED BY <1>1, <1>2, AloneIsUnmoved DEF Acts

\* The only pending plan of the session is withdrawn.
LEMMA WithdrawImplements ==
    ASSUME TypeOK, NEW s \in Sessions, Acts(s), production' = production,
           NEW p \in Plans, plan[p].session = s, Usable(p),
           \A q \in Plans : plan'[q].session = s => ~Usable(q)'
    PROVE  Authority!Withdraw(s)
<1>1. AuthorityOf(s) \in {"proposed", "granted"}
  BY DEF Acts, MappingFacts, Usable
<1>2. AuthorityOf(s)' = "idle"
  BY DEF Acts, MappingFacts
<1>3. OutcomeOf(s)' = OutcomeOf(s)
  BY DEF OutcomeOf
<1> QED BY <1>1, <1>2, <1>3, ActorImplements DEF Acts

\* Nothing pending is touched: the session keeps its authority.
LEMMA QuietImplements ==
    ASSUME NEW s \in Sessions, Acts(s), production' = production,
           \A q \in Plans : /\ plan'[q].session = plan[q].session
                            /\ Status(q)' = Status(q)
    PROVE  UNCHANGED Authority!vars
<1>1. \A status : HasPlan(s, status)' <=> HasPlan(s, status)
  BY DEF HasPlan
<1>2. Unmoved(s)
  BY <1>1 DEF Unmoved, AuthorityOf, OutcomeOf, Acts
<1> QED BY <1>2, StutterImplements DEF Acts

\* A late decision or execution withdraws the plan it names.
LEMMA LateImplements ==
    ASSUME TypeOK, OneActivePlan, [Next]_vars, NEW s \in Sessions, NEW p \in Plans,
           NEW now \in Instants, DecideLate(s, p, now) \/ ExecuteLate(s, p, now)
    PROVE  Authority!Withdraw(s)
<1>1. /\ session[s].status = "live" /\ session' = session /\ plan[p].session = s
      /\ production' = production /\ Usable(p) /\ ExpireInstead(s, p, now)
  BY DEF DecideLate, ExecuteLate, Locked, LockActive, ExpireInstead, Overdue,
         LateExecution, Usable, Status
<1>2. Acts(s)
  BY <1>1, OperationsAct, OthersLeaveAlone
<1>3. Status(p)' = "expired" /\ \A q \in Plans : q # p => plan'[q] = plan[q]
  BY <1>1, StateColumns DEF ExpireInstead, TypeOK, PlanType, Status
<1>4. \A q \in Plans : plan'[q].session = s => ~Usable(q)'
  BY <1>1, <1>3, StoreAssumption DEF OneActivePlan, Usable, Status, Exists
<1> QED BY <1>1, <1>2, <1>4, WithdrawImplements

\* Reading the current plan withdraws it when it is overdue.
LEMMA CurrentImplements ==
    ASSUME TypeOK, OneActivePlan, [Next]_vars, NEW s \in Sessions, NEW now \in Instants,
           CurrentRecovery(s, now)
    PROVE  Authority!Withdraw(s) \/ UNCHANGED Authority!vars
<1> DEFINE overdue == OverduePlans(s, now)
<1>1. /\ session[s].status = "live" /\ session' = session /\ production' = production
      /\ plan' = Expire(overdue, now)
  BY DEF CurrentRecovery, LockActive
<1>2. Acts(s)
  BY <1>1, OperationsAct, OthersLeaveAlone
<1>3. \A q \in Plans : /\ plan'[q].session = plan[q].session
                       /\ q \notin overdue => plan'[q] = plan[q]
                       /\ q \in overdue => plan[q].session = s /\ Usable(q) /\ Status(q)' = "expired"
  <2> SUFFICES ASSUME NEW q \in Plans
               PROVE  /\ plan'[q].session = plan[q].session
                      /\ q \notin overdue => plan'[q] = plan[q]
                      /\ q \in overdue => /\ plan[q].session = s /\ Usable(q)
                                          /\ Status(q)' = "expired"
    OBVIOUS
  <2>1. plan'[q].session = plan[q].session
    BY <1>1, ExpireNarrows
  <2>2. q \notin overdue => plan'[q] = plan[q]
    BY <1>1 DEF Expire
  <2>3. q \in overdue => plan[q].session = s /\ Usable(q)
    BY DEF OverduePlans, PlansOf, Usable, Status
  <2>4. q \in overdue => plan'[q].state = Bare("expired")
    BY <1>1, OverdueExpires, InstantType
  <2> QED BY <2>1, <2>2, <2>3, <2>4, StateColumns DEF Status
<1> HIDE DEF overdue
<1>4. ASSUME NEW p \in Plans, p \in overdue PROVE Authority!Withdraw(s)
  <2>1. \A q \in Plans : plan'[q].session = s => ~Usable(q)'
    BY <1>3, <1>4, StoreAssumption DEF OneActivePlan, Usable, Status, Exists
  <2> QED BY <1>1, <1>2, <1>3, <1>4, <2>1, WithdrawImplements
<1>5. CASE \A q \in Plans : q \notin overdue
  BY <1>1, <1>2, <1>3, <1>5, QuietImplements DEF Status
<1> QED BY <1>4, <1>5

\* A preparation proposes.
LEMMA PrepareImplements ==
    ASSUME TypeOK, OneActivePlan, [Next]_vars, NEW s \in Sessions, NEW p \in Plans,
           NEW now \in Instants, NEW target \in Releases, NEW refs \in RefLists,
           NEW reason \in Reasons, PrepareRecovery(s, p, target, refs, reason, now)
    PROVE  Authority!Propose(s)
<1>1. /\ session[s].status = "live" /\ session' = session /\ production' = production
      /\ production[s].incident = "active"
  BY DEF PrepareRecovery, LockActive
<1>2. Acts(s)
  BY <1>1, OperationsAct, PrepareLeavesAlone
<1>3. plan'[p] = PreparedRow(PreparedSpec(s, p, target, refs, reason, now), refs)
  BY DEF PrepareRecovery, Expire
<1>4. plan'[p].session = s /\ Status(p)' = "prepared"
  BY <1>3, AddedRow, StateColumns DEF Status
<1>5. AuthorityOf(s)' = "proposed" /\ AuthorityOf(s) # "closed" /\ OutcomeOf(s) = "broken"
  BY <1>1, <1>2, <1>4 DEF Acts, MappingFacts
<1>6. OutcomeOf(s)' = OutcomeOf(s)
  BY <1>1 DEF OutcomeOf
<1> QED BY <1>2, <1>5, <1>6, ActorImplements DEF Acts

\* A decision grants, withdraws or repeats itself.
LEMMA DecideImplements ==
    ASSUME TypeOK, OneActivePlan, StatesKeepTheirColumns, [Next]_vars,
           NEW s \in Sessions, NEW p \in Plans, NEW now \in Instants,
           NEW decision \in Decisions, DecideRecovery(s, p, decision, now)
    PROVE  Authority!Grant(s) \/ Authority!Withdraw(s) \/ UNCHANGED Authority!vars
<1>1. /\ session[s].status = "live" /\ session' = session /\ production' = production
      /\ plan[p].session = s
  BY DEF DecideRecovery, Locked, LockActive
<1>2. Acts(s)
  BY <1>1, OperationsAct, OthersLeaveAlone
<1>3. \A q \in Plans : plan'[q].session = plan[q].session
                       /\ (q # p => plan'[q] = plan[q])
  BY DEF DecideRecovery, TypeOK, PlanType
<1>4. OutcomeOf(s)' = OutcomeOf(s)
  BY <1>1 DEF OutcomeOf
<1>5. CASE plan'[p] = plan[p]
  BY <1>1, <1>2, <1>3, <1>5, QuietImplements DEF Status
<1>6. CASE Withdraws(p)
  <2>1. Usable(p) /\ ~Usable(p)'
    BY <1>6, StateChangesOnlyState, StateColumns DEF Withdraws, Usable, Status
  <2>2. \A q \in Plans : plan'[q].session = s => ~Usable(q)'
    BY <1>1, <1>3, <2>1, StoreAssumption DEF OneActivePlan, Usable, Status, Exists
  <2> QED BY <1>1, <1>2, <2>1, <2>2, WithdrawImplements
<1>7. CASE Approves(p, now)
  <2>1. Status(p) = "prepared" /\ Status(p)' = "approved"
    BY <1>7, StateChangesOnlyState, StateColumns DEF Approves, Status
  <2>2. AuthorityOf(s) = "proposed" /\ AuthorityOf(s)' = "granted"
    BY <1>1, <1>2, <1>3, <2>1 DEF Acts, MappingFacts
  <2> QED BY <1>2, <1>4, <2>2, ActorImplements DEF Acts
<1> QED BY <1>5, <1>6, <1>7, DecideMoves

\* An execution spends the authority it was granted.
LEMMA ExecuteImplements ==
    ASSUME TypeOK, OneActivePlan, [Next]_vars, NEW s \in Sessions, NEW p \in Plans,
           NEW d \in Diagnostics, NEW now \in Instants, ExecuteRecovery(s, p, d, now)
    PROVE  Authority!Recover(s)
<1>1. session[s].status = "live" /\ session' = session /\ plan[p].session = s
  BY DEF ExecuteRecovery, Locked, LockActive
<1>2. Acts(s)
  BY <1>1, OperationsAct, ExecuteLeavesAlone
<1>3. Status(p) = "approved" /\ production[s].incident = "active"
  BY ExecutionOk DEF ExecuteRecovery, ExecutionFacts, Status
<1>4. /\ Status(p)' = "executed" /\ \A q \in Plans : q # p => plan'[q] = plan[q]
      /\ production'[s].incident = "resolved"
  BY StateColumns DEF ExecuteRecovery, TypeOK, PlanType, Status
<1>5. \A q \in Plans : plan'[q].session = s => ~Usable(q)'
  BY <1>1, <1>3, <1>4, StoreAssumption DEF OneActivePlan, Usable, Status, Exists
<1>6. AuthorityOf(s) = "granted" /\ OutcomeOf(s) = "broken"
  BY <1>1, <1>2, <1>3 DEF Acts, MappingFacts
<1>7. AuthorityOf(s)' = "idle" /\ OutcomeOf(s)' = "recovered"
  BY <1>1, <1>2, <1>4, <1>5 DEF Acts, MappingFacts
<1> QED BY <1>2, <1>6, <1>7, ActorImplements DEF Acts

\* A creation opens a session and closes the ones it removes: no plan of an
\* earlier session is left for the new one to own.
LEMMA CreateImplements ==
    ASSUME TypeOK, OneActivePlan, AbsentOwnsNothing, [Next]_vars,
           NEW s \in Sessions, NEW now \in Instants, CreateSession(s, now)
    PROVE  Authority!Open(s, Removable(now))
<1> DEFINE gone == Removable(now)
<1>1. MappingFacts /\ MappingFacts'
  BY MappingHolds, MappingHoldsNext, TypeStep, OneActivePlanStep
<1>2. \A t \in Sessions : session'[t].status =
           IF t = s THEN "live" ELSE IF t \in gone THEN "absent" ELSE session[t].status
  BY CreatedStatus
<1>3. /\ \A p \in Plans : plan'[p] = IF plan[p].session \in gone THEN AbsentPlan ELSE plan[p]
      /\ \A t \in Sessions :
           production'[t] = IF t = s \/ t \in gone THEN SeededProduction ELSE production[t]
  BY DEF CreateSession
<1>4. s \in gone \/ session[s].status = "absent"
  BY DEF CreateSession, Remaining, Removable, TypeOK, SessionType
<1>5. AbsentPlan.session = NoSession /\ NoSession \notin Sessions
  BY StateColumns, StoreAssumption
<1> HIDE DEF gone
<1>6. s \in gone \/ AuthorityOf(s) = "closed"
  BY <1>1, <1>4 DEF MappingFacts
<1>7. AuthorityOf(s)' = "idle"
  <2>1. \A p \in Plans : plan'[p].session # s
    BY <1>3, <1>4, <1>5 DEF AbsentOwnsNothing
  <2> QED BY <1>1, <1>2, <2>1 DEF MappingFacts
<1>8. \A t \in gone \cap Sessions : t # s => AuthorityOf(t)' = "closed"
  BY <1>1, <1>2 DEF MappingFacts
<1>9. \A t \in Sessions : t = s \/ t \in gone => OutcomeOf(t)' = "broken"
  BY <1>3 DEF OutcomeOf, SeededProduction
<1>10. ASSUME NEW t \in Sessions, t # s, t \notin gone PROVE Unmoved(t)
  <2>1. \A p \in Plans : /\ plan'[p].session = t <=> plan[p].session = t
                         /\ plan[p].session = t => plan'[p] = plan[p]
    BY <1>3, <1>5, <1>10
  <2>2. \A status : HasPlan(t, status)' <=> HasPlan(t, status)
    BY <2>1 DEF HasPlan, Status
  <2>3. production'[t] = production[t] /\ session'[t].status = session[t].status
    BY <1>2, <1>3, <1>10
  <2> QED BY <2>2, <2>3 DEF Unmoved, AuthorityOf, OutcomeOf
<1> QED BY <1>6, <1>7, <1>8, <1>9, <1>10 DEF Authority!Open, Unmoved, gone

\* A reset closes one session and opens another, which owned nothing.
LEMMA ResetImplements ==
    ASSUME TypeOK, OneActivePlan, AbsentOwnsNothing, [Next]_vars,
           NEW s \in Sessions, NEW r \in Sessions, NEW now \in Instants,
           ResetSession(s, r, now)
    PROVE  Authority!Replace(s, r)
<1> DEFINE before == [t \in Sessions |-> AuthorityOf(t)]
           after == [t \in Sessions |-> AuthorityOf(t)']
           was == [t \in Sessions |-> OutcomeOf(t)]
           is == [t \in Sessions |-> OutcomeOf(t)']
<1>1. MappingFacts /\ MappingFacts'
  BY MappingHolds, MappingHoldsNext, TypeStep, OneActivePlanStep
<1>2. /\ s # r /\ session[s].status = "live" /\ session[r].status = "absent"
      /\ \A t \in Sessions :
           session'[t].status = IF t = s THEN "revoked" ELSE IF t = r THEN "live"
                                ELSE session[t].status
  BY ResetStatus
<1>3. \A p \in Plans : /\ plan'[p].session = plan[p].session
                       /\ plan[p].session # s => plan'[p] = plan[p]
  BY DEF ResetSession, TypeOK, PlanType
<1>4. \A t \in Sessions :
        production'[t] = IF t = r THEN SeededProduction ELSE production[t]
  BY DEF ResetSession, TypeOK
<1>5. /\ AuthorityOf(s) # "closed" /\ AuthorityOf(r) = "closed"
      /\ AuthorityOf(s)' = "closed"
  BY <1>1, <1>2 DEF MappingFacts
<1>6. AuthorityOf(r)' = "idle" /\ OutcomeOf(r)' = "broken"
  <2>1. \A p \in Plans : plan'[p].session # r
    BY <1>2, <1>3 DEF AbsentOwnsNothing
  <2> QED BY <1>1, <1>2, <1>4, <2>1 DEF MappingFacts, SeededProduction
<1>7. \A t \in Sessions : t # r => OutcomeOf(t)' = OutcomeOf(t)
  BY <1>4 DEF OutcomeOf
<1>8. ASSUME NEW t \in Sessions, t # s, t # r PROVE AuthorityOf(t)' = AuthorityOf(t)
  <2>1. \A status : HasPlan(t, status)' <=> HasPlan(t, status)
    BY <1>3, <1>8 DEF HasPlan, Status
  <2>2. session'[t].status = session[t].status
    BY <1>2, <1>8
  <2> QED BY <2>1, <2>2 DEF AuthorityOf
<1>9. after = [before EXCEPT ![s] = "closed", ![r] = "idle"]
  BY <1>2, <1>5, <1>6, <1>8
<1>10. is = [was EXCEPT ![r] = "broken"]
  BY <1>6, <1>7
<1> QED BY <1>5, <1>9, <1>10 DEF Authority!Replace

\* A step that writes neither sessions, plans nor production stutters.
LEMMA ElsewhereStutters ==
    ASSUME UNCHANGED <<session, plan, production>>
    PROVE  UNCHANGED Authority!vars
<1>1. \A t \in Sessions : \A status : HasPlan(t, status)' <=> HasPlan(t, status)
  BY DEF HasPlan, Status
<1>2. \A t \in Sessions : Unmoved(t)
  BY <1>1 DEF Unmoved, AuthorityOf, OutcomeOf
<1> QED BY <1>2, StutterImplements

-----------------------------------------------------------------------------
\* The refinement.

\* No session, no authority, and every production as it was seeded.
LEMMA InitImplements == Init => Authority!Init
<1> SUFFICES ASSUME Init, NEW s \in Sessions
             PROVE  AuthorityOf(s) = "closed" /\ OutcomeOf(s) = "broken"
  BY DEF Authority!Init
<1> QED BY DEF Init, AuthorityOf, OutcomeOf, AbsentSession, SeededProduction

\* Every step of the store is a step of the abstract lifecycle, or none.
LEMMA StepImplements ==
    ASSUME TypeOK, OneActivePlan, AbsentOwnsNothing, StatesKeepTheirColumns, [Next]_vars
    PROVE  [Authority!Next]_(Authority!vars)
<1> DEFINE Implements == [Authority!Next]_(Authority!vars)
<1>1. ASSUME NEW s \in Sessions,
             \/ \E ended \in SUBSET Sessions : Authority!Open(s, ended)
             \/ \E r \in Sessions : Authority!Replace(s, r)
             \/ Authority!Propose(s) \/ Authority!Grant(s)
             \/ Authority!Withdraw(s) \/ Authority!Recover(s)
      PROVE  Implements
  BY <1>1 DEF Authority!Next
<1>2. ASSUME UNCHANGED Authority!vars PROVE Implements
  BY <1>2
<1> HIDE DEF Implements
<1>3. ASSUME NEW s \in Sessions, NEW now \in Instants, CreateSession(s, now)
      PROVE  Implements
  <2>1. Removable(now) \in SUBSET Sessions
    BY DEF Removable
  <2> QED BY <1>1, <1>3, <2>1, CreateImplements
<1>4. ASSUME NEW s \in Sessions, NEW r \in Sessions, NEW now \in Instants,
             ResetSession(s, r, now)
      PROVE  Implements
  BY <1>1, <1>4, ResetImplements
<1>5. ASSUME NEW s \in Sessions, NEW now \in Instants, CurrentRecovery(s, now)
      PROVE  Implements
  BY <1>1, <1>2, <1>5, CurrentImplements
<1>6. ASSUME NEW s \in Sessions, NEW p \in Plans, NEW now \in Instants,
             NEW target \in Releases, NEW refs \in RefLists, NEW reason \in Reasons,
             PrepareRecovery(s, p, target, refs, reason, now)
      PROVE  Implements
  BY <1>1, <1>6, PrepareImplements
<1>7. ASSUME NEW s \in Sessions, NEW p \in Plans, NEW now \in Instants,
             DecideLate(s, p, now) \/ ExecuteLate(s, p, now)
      PROVE  Implements
  BY <1>1, <1>7, LateImplements
<1>8. ASSUME NEW s \in Sessions, NEW p \in Plans, NEW now \in Instants,
             NEW decision \in Decisions, DecideRecovery(s, p, decision, now)
      PROVE  Implements
  BY <1>1, <1>2, <1>8, DecideImplements
<1>9. ASSUME NEW s \in Sessions, NEW p \in Plans, NEW d \in Diagnostics,
             NEW now \in Instants, ExecuteRecovery(s, p, d, now)
      PROVE  Implements
  BY <1>1, <1>9, ExecuteImplements
<1>10. ASSUME \/ Tick \/ UNCHANGED vars
              \/ \E s \in Sessions, d \in Diagnostics, now \in Instants :
                   RunDatabaseDiagnostic(s, d, now)
              \/ \E s \in Sessions, p \in Plans, now \in Instants : VerifyRecovery(s, p, now)
       PROVE  Implements
  <2>1. UNCHANGED <<session, plan, production>>
    BY <1>10 DEF Tick, vars, recoveryVars, RunDatabaseDiagnostic, VerifyRecovery
  <2> QED BY <1>2, <2>1, ElsewhereStutters
<1>11. Implements
  BY <1>3, <1>4, <1>5, <1>6, <1>7, <1>8, <1>9, <1>10, Zenon DEF Next, Operation
<1> QED BY <1>11 DEF Implements

\* Every operation of the store is one step of the abstract lifecycle or none:
\* production recovers only by spending an authority that was granted to a
\* proposal, once, and a revoked or removed session loses whatever it held.
THEOREM StoreImplementsAuthority == Spec => AuthorityImplemented
<1>1. RecoveryInv => TypeOK /\ OneActivePlan /\ AbsentOwnsNothing
  BY DEF RecoveryInv
<1>2. TypeOK /\ OneActivePlan /\ AbsentOwnsNothing /\ StatesKeepTheirColumns /\ [Next]_vars
        => [Authority!Next]_(Authority!vars)
  BY StepImplements
<1> QED
  BY <1>1, <1>2, InitImplements, RecoveryInit, RecoveryStep, ColumnsInit, ColumnsStep, PTL
     DEF Spec, AuthorityImplemented, Authority!Spec
=============================================================================
