-------------------------- MODULE StoreAnswersProofs --------------------------
(***************************************************************************)
(* Theorems about the statements of StoreTransactions and about the        *)
(* answers they end in: no statement breaks a foreign key, a snapshot torn *)
(* by other requests is never ahead of itself, and what a client was told  *)
(* is committed.                                                           *)
(***************************************************************************)
EXTENDS StoreTransactionsProofs

-----------------------------------------------------------------------------
\* The rows that reference other rows.

\* A diagnostic linked to a plan belongs to the session of the plan.
LinkIsOwned(d) ==
    diagnostic[d].plan # NoPlan =>
        /\ diagnostic[d].session # NoSession
        /\ plan[diagnostic[d].plan].session = diagnostic[d].session
LinkedDiagnosticsAreOwned == \A d \in Diagnostics : LinkIsOwned(d)

\* A step that writes no session row and no diagnostic leaves the links alone.
LEMMA LinksStay ==
    ASSUME LifecycleInv, LinkedDiagnosticsAreOwned, [Next]_vars,
           UNCHANGED <<session, diagnostic>>
    PROVE  LinkedDiagnosticsAreOwned'
<1>1. TypeOK /\ OneActivePlan /\ StatesKeepTheirColumns
  BY DEF LifecycleInv, RecoveryInv
<1> SUFFICES ASSUME NEW d \in Diagnostics, diagnostic[d].plan # NoPlan
             PROVE  plan'[diagnostic[d].plan].session = diagnostic[d].session
  BY DEF LinkedDiagnosticsAreOwned, LinkIsOwned
<1>2. PICK p \in Plans : p = diagnostic[d].plan
  BY <1>1 DEF TypeOK, DiagnosticType
<1>3. plan[p].session = diagnostic[d].session /\ plan[p].session # NoSession
  BY <1>2 DEF LinkedDiagnosticsAreOwned, LinkIsOwned
<1>4. PlanMoves(p) /\ ~Added(p) /\ ~Removed(p)
  BY <1>1, <1>3, StepsMovePlans, AddedWasFree DEF Exists, Removed
<1> QED BY <1>1, <1>2, <1>3, <1>4, StayingRows DEF SameFacts

\* A link is made with its plan, and deleted with the session of both.
LEMMA LinksStep ==
    ASSUME LifecycleInv, LinkedDiagnosticsAreOwned, [Next]_vars
    PROVE  LinkedDiagnosticsAreOwned'
<1>1. TypeOK /\ OneActivePlan /\ StatesKeepTheirColumns
  BY DEF LifecycleInv, RecoveryInv
<1>2. /\ \A p \in Plans : plan[p] \in PlanType
      /\ \A d \in Diagnostics : diagnostic[d] \in DiagnosticType /\ LinkIsOwned(d)
  BY <1>1 DEF TypeOK, LinkedDiagnosticsAreOwned
<1>3. AbsentDiagnostic.plan = NoPlan
  BY DEF AbsentDiagnostic
<1>4. ASSUME NEW s \in Sessions, NEW now \in Instants, CreateSession(s, now),
             NEW d \in Diagnostics
      PROVE  LinkIsOwned(d)'
  BY <1>2, <1>3, <1>4 DEF CreateSession, KeptDiagnostics, LinkIsOwned, DiagnosticType
<1>5. ASSUME NEW s \in Sessions, NEW r \in Sessions, NEW now \in Instants,
             ResetSession(s, r, now), NEW d \in Diagnostics
      PROVE  LinkIsOwned(d)'
  <2>1. \A p \in Plans : plan'[p].session = plan[p].session
    BY <1>2, <1>5 DEF ResetSession, PlanType
  <2> QED BY <1>2, <1>5, <2>1 DEF ResetSession, LinkIsOwned, DiagnosticType
<1>6. ASSUME NEW s \in Sessions, NEW x \in Diagnostics, NEW now \in Instants,
             RunDatabaseDiagnostic(s, x, now), NEW d \in Diagnostics
      PROVE  LinkIsOwned(d)'
  <2>1. DiagnosticRow(s, production[s].release, NoPlan).plan = NoPlan
    BY DEF DiagnosticRow
  <2>2. plan' = plan /\ diagnostic'[d] \in {diagnostic[d], DiagnosticRow(s, production[s].release, NoPlan)}
    BY <1>6 DEF RunDatabaseDiagnostic
  <2> QED BY <1>2, <2>1, <2>2 DEF LinkIsOwned
<1>7. ASSUME NEW s \in Sessions, NEW q \in Plans, NEW x \in Diagnostics, NEW now \in Instants,
             ExecuteRecovery(s, q, x, now), NEW d \in Diagnostics
      PROVE  LinkIsOwned(d)'
  <2>1. AfterStateDiagnostic(s, q).plan = q /\ AfterStateDiagnostic(s, q).session = s
    BY DEF AfterStateDiagnostic, DiagnosticRow
  <2>2. diagnostic' = [diagnostic EXCEPT ![x] = AfterStateDiagnostic(s, q)]
        /\ plan[q].session = s
    BY <1>7 DEF ExecuteRecovery, Locked
  <2>3. \A p \in Plans : plan'[p].session = plan[p].session
    BY <1>2, <1>7 DEF ExecuteRecovery, PlanType
  <2>4. CASE d = x
    <3>1. diagnostic'[d] = AfterStateDiagnostic(s, q)
      BY <1>1, <2>2, <2>4 DEF TypeOK
    <3> QED BY <2>1, <2>2, <2>3, <3>1, StoreAssumption DEF LinkIsOwned
  <2>5. CASE d # x
    <3>1. diagnostic'[d] = diagnostic[d]
      BY <2>2, <2>5
    <3> QED BY <1>2, <2>3, <3>1 DEF LinkIsOwned, DiagnosticType
  <2> QED BY <2>4, <2>5
<1>8. ASSUME NEW s \in Sessions, NEW now \in Instants,
             \/ CurrentRecovery(s, now)
             \/ \E p \in Plans, target \in Releases, refs \in RefLists, reason \in Reasons :
                  PrepareRecovery(s, p, target, refs, reason, now)
             \/ \E p \in Plans : \/ DecideLate(s, p, now) \/ ExecuteLate(s, p, now)
                                 \/ VerifyRecovery(s, p, now)
                                 \/ \E decision \in Decisions :
                                      DecideRecovery(s, p, decision, now)
      PROVE  LinkedDiagnosticsAreOwned'
  BY <1>8, LinksStay DEF CurrentRecovery, PrepareRecovery, DecideLate, ExecuteLate, ExpireInstead,
              VerifyRecovery, DecideRecovery, recoveryVars
<1>9. CASE Tick \/ UNCHANGED vars
  BY <1>9, LinksStay DEF Tick, vars, recoveryVars
<1>10. ASSUME NEW s \in Sessions, NEW now \in Instants,
              \/ CreateSession(s, now)
              \/ \E r \in Sessions : ResetSession(s, r, now)
              \/ \E d \in Diagnostics : RunDatabaseDiagnostic(s, d, now)
              \/ \E p \in Plans, d \in Diagnostics : ExecuteRecovery(s, p, d, now)
       PROVE  LinkedDiagnosticsAreOwned'
  BY <1>4, <1>5, <1>6, <1>7, <1>10 DEF LinkedDiagnosticsAreOwned
<1> QED BY <1>8, <1>9, <1>10, Zenon DEF Next, Operation

\* The links are owned in every state.
LEMMA LinksHold == Spec => []LinkedDiagnosticsAreOwned
<1>1. Init => LinkedDiagnosticsAreOwned
  <2>1. AbsentDiagnostic.plan = NoPlan
    BY DEF AbsentDiagnostic
  <2> QED BY <2>1 DEF Init, LinkedDiagnosticsAreOwned, LinkIsOwned
<1>2. LifecycleInv /\ LinkedDiagnosticsAreOwned /\ [Next]_vars => LinkedDiagnosticsAreOwned'
  BY LinksStep
<1> QED BY <1>1, <1>2, LifecycleHolds, PTL DEF Spec

-----------------------------------------------------------------------------
\* No statement breaks a foreign key.

\* The references between the committed rows.
LEMMA CommittedReferences ==
    ASSUME LifecycleInv, RevokedInv, LinkedDiagnosticsAreOwned
    PROVE  /\ \A e \in executions :
                /\ e.session \in Sessions /\ e.plan \in Plans /\ e.diagnostic \in Diagnostics
                /\ plan[e.plan].session = e.session
                /\ diagnostic[e.diagnostic].session = e.session
           /\ \A d \in Diagnostics : diagnostic[d].plan # NoPlan =>
                /\ diagnostic[d].plan \in Plans /\ diagnostic[d].session \in Sessions
                /\ plan[diagnostic[d].plan].session = diagnostic[d].session
           /\ \A p \in Plans : plan[p].session # NoSession =>
                /\ plan[p].session \in Sessions
                /\ session[plan[p].session].status # "absent"
                /\ \A ref \in plan[p].evidence \cap Diagnostics :
                     diagnostic[ref].session = plan[p].session
           /\ \A x \in resets :
                /\ x.original \in Sessions /\ x.replacement \in Sessions
                /\ session[x.original].status # "absent"
                /\ session[x.replacement].status # "absent"
<1>1. TypeOK /\ RecoveredTogether /\ ExecutionsOwnTheirDiagnostic /\ AbsentOwnsNothing
      /\ EvidenceIsOwned
  BY DEF LifecycleInv, RecoveryInv
<1>2. ASSUME NEW e \in executions
      PROVE  /\ e.session \in Sessions /\ e.plan \in Plans /\ e.diagnostic \in Diagnostics
             /\ plan[e.plan].session = e.session
             /\ diagnostic[e.diagnostic].session = e.session
  <2>1. e.session \in Sessions /\ e.plan \in Plans /\ e.diagnostic \in Diagnostics
    BY <1>1 DEF TypeOK, ExecutionType
  <2>2. RecoveredAlone(e.session)
    BY <1>1, <2>1, RecoveredTogetherAlone
  <2>3. e \in ExecutionRows(e.session)
    BY DEF ExecutionRows
  <2>4. PICK p \in Plans, x \in executions : AfterState(e.session, p, x)
    BY <2>2, <2>3 DEF RecoveredAlone, Untouched
  <2>5. e = x /\ e.plan = p /\ plan[p].session = e.session
    BY <2>3, <2>4 DEF AfterState, ExecutedPlans
  <2> QED BY <1>1, <2>1, <2>5 DEF ExecutionsOwnTheirDiagnostic
<1>3. ASSUME NEW d \in Diagnostics, diagnostic[d].plan # NoPlan
      PROVE  /\ diagnostic[d].plan \in Plans /\ diagnostic[d].session \in Sessions
             /\ plan[diagnostic[d].plan].session = diagnostic[d].session
  BY <1>1, <1>3 DEF LinkedDiagnosticsAreOwned, LinkIsOwned, TypeOK, DiagnosticType
<1>4. ASSUME NEW p \in Plans, plan[p].session # NoSession
      PROVE  /\ plan[p].session \in Sessions
             /\ session[plan[p].session].status # "absent"
             /\ \A ref \in plan[p].evidence \cap Diagnostics :
                  diagnostic[ref].session = plan[p].session
  BY <1>1, <1>4, StoreAssumption DEF TypeOK, PlanType, AbsentOwnsNothing, EvidenceIsOwned, Exists
<1>5. ASSUME NEW x \in resets
      PROVE  /\ x.original \in Sessions /\ x.replacement \in Sessions
             /\ session[x.original].status # "absent"
             /\ session[x.replacement].status # "absent"
  BY <1>1 DEF TypeOK, RevokedInv, LineageIsKept
<1> QED BY <1>2, <1>3, <1>4, <1>5

\* A draft with the tables of another keeps the references of the other.
LEMMA MatchesReferences ==
    ASSUME NEW t, NEW u, Matches(t, u), RowsReferenced(u)
    PROVE  RowsReferenced(t)
BY DEF Matches, RowsReferenced

\* The committed tables keep every reference.
LEMMA CommittedReferenced ==
    ASSUME LifecycleInv, RevokedInv, LinkedDiagnosticsAreOwned
    PROVE  RowsReferenced(Committed)
<1> DEFINE u == Committed
<1>1. /\ u.session = session /\ u.plan = plan /\ u.diagnostic = diagnostic
      /\ u.executions = executions /\ u.resets = resets
  BY DEF Committed
<1> HIDE DEF u
<1>2. RowsReferenced(u)
  BY <1>1, CommittedReferences DEF RowsReferenced
<1> QED BY <1>2 DEF u

\* The new plan belongs to a live session and its evidence to the same one.
LEMMA PreparationReferences ==
    ASSUME LifecycleInv, RevokedInv, LinkedDiagnosticsAreOwned,
           NEW s \in Sessions, NEW target \in Releases, NEW refs \in RefLists,
           NEW reason \in Reasons, NEW p \in Plans, NEW now \in Instants,
           plan[p].session = NoSession, PrepareGuards(s, target, refs, reason, p, now)
    PROVE  RowsReferenced(PreparationTables(s, target, refs, reason, p, now))
<1> DEFINE u == PreparationTables(s, target, refs, reason, p, now)
           spec == PreparedSpec(s, p, target, refs, reason, now)
<1>0. TypeOK
  BY DEF LifecycleInv, RecoveryInv
<1>1. /\ u.session = session /\ u.diagnostic = diagnostic
      /\ u.executions = executions /\ u.resets = resets
      /\ u.plan = [Expire(OverduePlans(s, now), now) EXCEPT ![p] = PreparedRow(spec, refs)]
  BY DEF PreparationTables, Committed
<1>2. /\ PreparedRow(spec, refs).session = s
      /\ PreparedRow(spec, refs).evidence = {refs[i] : i \in DOMAIN refs}
  BY DEF PreparedRow, PreparedSpec, PreparedCommand, PlanSpec, Command
<1>3. DOMAIN Expire(OverduePlans(s, now), now) = Plans
  BY DEF Expire
<1>4. ASSUME NEW q \in Plans
      PROVE  /\ Expire(OverduePlans(s, now), now)[q].session = plan[q].session
             /\ Expire(OverduePlans(s, now), now)[q].evidence = plan[q].evidence
  BY <1>0 DEF Expire, TypeOK, PlanType
<1> HIDE DEF u, spec
<1>5. /\ u.plan[p].session = s /\ u.plan[p].evidence = {refs[i] : i \in DOMAIN refs}
      /\ \A q \in Plans \ {p} : /\ u.plan[q].session = plan[q].session
                                /\ u.plan[q].evidence = plan[q].evidence
  BY <1>1, <1>2, <1>3, <1>4
<1>6. /\ session[s].status # "absent"
      /\ \A ref \in u.plan[p].evidence \cap Diagnostics : diagnostic[ref].session = s
  BY <1>5, StoreAssumption DEF PrepareGuards, LockActive, Resolves
<1>7. s # NoSession
  BY StoreAssumption
<1>8. RowsReferenced(u)
  <2>1. \A e \in u.executions : u.plan[e.plan].session = e.session
                                /\ u.diagnostic[e.diagnostic].session = e.session
    BY <1>1, <1>5, CommittedReferences, StoreAssumption
  <2>2. \A d \in Diagnostics : u.diagnostic[d].plan # NoPlan
          => u.plan[u.diagnostic[d].plan].session = u.diagnostic[d].session
    BY <1>1, <1>5, CommittedReferences, StoreAssumption
  <2>3. \A q \in Plans : u.plan[q].session # NoSession =>
          /\ u.session[u.plan[q].session].status # "absent"
          /\ \A ref \in u.plan[q].evidence \cap Diagnostics :
               u.diagnostic[ref].session = u.plan[q].session
    BY <1>1, <1>5, <1>6, CommittedReferences
  <2>4. \A x \in u.resets :
         u.session[x.original].status # "absent" /\ u.session[x.replacement].status # "absent"
    BY <1>1, CommittedReferences
  <2> QED BY <2>1, <2>2, <2>3, <2>4 DEF RowsReferenced
<1> QED BY <1>8 DEF u

\* The diagnostic is stored before the execution row that references it, and
\* replaces a row nothing references.
LEMMA ExecutionReferences ==
    ASSUME LifecycleInv, RevokedInv, LinkedDiagnosticsAreOwned,
           NEW s \in Sessions, NEW p \in Plans, NEW d \in Diagnostics, NEW now \in Instants,
           NEW at \in ExecutionSteps,
           diagnostic[d].session = NoSession, ExecuteGuards(s, p, now)
    PROVE  RowsReferenced(ExecutionTables(s, p, d, now, at))
<1> DEFINE u == ExecutionTables(s, p, d, now, at)
           row == AfterStateDiagnostic(s, p)
           e0 == [session |-> s, plan |-> p, previous |-> plan[p].expected,
                  current |-> plan[p].target, diagnostic |-> d, executed_at |-> now]
<1>0. TypeOK
  BY DEF LifecycleInv, RecoveryInv
<1>1. /\ u.session = session /\ u.resets = resets
      /\ u.plan = [plan EXCEPT ![p].state = ClaimedState(plan[p].state)]
         \/ u.plan = [plan EXCEPT ![p].state =
                        CompleteExecution(ClaimedState(plan[p].state), now)]
      /\ \/ u.diagnostic = diagnostic /\ u.executions = executions
         \/ /\ u.diagnostic = [diagnostic EXCEPT ![d] = row]
            /\ u.executions \subseteq executions \cup {e0}
  BY DEF ExecutionTables
<1>2. row.session = s /\ row.plan = p
  BY DEF AfterStateDiagnostic, DiagnosticRow
<1>3. e0.session = s /\ e0.plan = p /\ e0.diagnostic = d
  OBVIOUS
<1>4. plan[p].session = s
  BY DEF ExecuteGuards, Locked
<1> HIDE DEF u, row, e0
<1>5. \A q \in Plans : u.plan[q].session = plan[q].session /\ u.plan[q].evidence = plan[q].evidence
  <2>1. \A state : \A q \in Plans :
          /\ [plan EXCEPT ![p].state = state][q].session = plan[q].session
          /\ [plan EXCEPT ![p].state = state][q].evidence = plan[q].evidence
    BY <1>0 DEF TypeOK, PlanType
  <2>2. \E state : u.plan = [plan EXCEPT ![p].state = state]
    <3>1. \A a, b : u.plan = [plan EXCEPT ![p].state = a] \/ u.plan = [plan EXCEPT ![p].state = b]
                   => \E state : u.plan = [plan EXCEPT ![p].state = state]
      OBVIOUS
    <3> QED BY <1>1, <3>1, Zenon
  <2>3. PICK state : u.plan = [plan EXCEPT ![p].state = state]
    BY <2>2
  <2> QED BY <2>1, <2>3
<1>6. \A x \in Diagnostics : /\ x # d => u.diagnostic[x] = diagnostic[x]
                             /\ x = d => u.diagnostic[x] \in {diagnostic[x], row}
  BY <1>0, <1>1 DEF TypeOK
<1>7. NoSession \notin Sessions
  BY StoreAssumption
<1>8. RowsReferenced(u)
  <2>1. ASSUME NEW e \in u.executions
        PROVE  u.plan[e.plan].session = e.session
               /\ u.diagnostic[e.diagnostic].session = e.session
    <3>1. CASE e \in executions
      BY <1>5, <1>6, <1>7, <3>1, CommittedReferences
    <3>2. CASE e \notin executions
      <4>1. e = e0 /\ u.diagnostic = [diagnostic EXCEPT ![d] = row]
        BY <1>1, <3>2
      <4>2. u.diagnostic[d] = row
        BY <1>0, <4>1 DEF TypeOK
      <4> QED BY <1>2, <1>3, <1>4, <1>5, <4>1, <4>2
    <3> QED BY <3>1, <3>2
  <2>2. \A x \in Diagnostics : u.diagnostic[x].plan # NoPlan
          => u.plan[u.diagnostic[x].plan].session = u.diagnostic[x].session
    BY <1>2, <1>4, <1>5, <1>6, CommittedReferences
  <2>3. \A q \in Plans : u.plan[q].session # NoSession =>
          /\ u.session[u.plan[q].session].status # "absent"
          /\ \A ref \in u.plan[q].evidence \cap Diagnostics :
               u.diagnostic[ref].session = u.plan[q].session
    BY <1>1, <1>5, <1>6, <1>7, CommittedReferences
  <2>4. \A x \in u.resets :
         u.session[x.original].status # "absent" /\ u.session[x.replacement].status # "absent"
    BY <1>1, CommittedReferences
  <2> QED BY <2>1, <2>2, <2>3, <2>4 DEF RowsReferenced
<1> QED BY <1>8 DEF u

\* The replacement exists before the lineage names it.
LEMMA ResetReferences ==
    ASSUME LifecycleInv, RevokedInv, LinkedDiagnosticsAreOwned,
           NEW s \in Sessions, NEW fresh \in Sessions, NEW now \in Instants,
           NEW at \in ResetSteps,
           session[fresh].status = "absent", LockActive(s, now)
    PROVE  RowsReferenced(ResetTables(s, fresh, now, at))
<1> DEFINE u == ResetTables(s, fresh, now, at)
<1>0. TypeOK /\ s # fresh
  BY DEF LifecycleInv, RecoveryInv, LockActive
<1>1. /\ u.diagnostic = diagnostic /\ u.executions = executions
      /\ u.resets \subseteq resets \cup {[original |-> s, replacement |-> fresh]}
      /\ \/ u.session = [session EXCEPT ![fresh] = LiveSession(now), ![s].status = "revoked"]
         \/ u.session = [session EXCEPT ![fresh] = LiveSession(now)]
      /\ \/ u.plan = plan
         \/ u.plan = [p \in Plans |-> IF plan[p].session = s
                                      THEN [plan[p] EXCEPT !.state = InvalidateRecovery(@)]
                                      ELSE plan[p]]
  BY DEF ResetTables
<1>2. LiveSession(now).status = "live"
  BY DEF LiveSession
<1> HIDE DEF u
<1>3. \A p \in Plans : u.plan[p].session = plan[p].session /\ u.plan[p].evidence = plan[p].evidence
  BY <1>0, <1>1 DEF TypeOK, PlanType
<1>4. \A t \in Sessions :
        u.session[t].status # "absent" <=> session[t].status # "absent" \/ t = fresh
  <2>1. CASE u.session = [session EXCEPT ![fresh] = LiveSession(now), ![s].status = "revoked"]
    BY <1>0, <1>2, <2>1 DEF TypeOK, SessionType, LockActive
  <2>2. CASE u.session = [session EXCEPT ![fresh] = LiveSession(now)]
    BY <1>0, <1>2, <2>2 DEF TypeOK, SessionType
  <2> QED BY <1>1, <2>1, <2>2
<1>5. \A x \in u.resets : x \in resets \/ (x.original = s /\ x.replacement = fresh)
  <2>1. \A x \in u.resets : x \in resets \/ x = [original |-> s, replacement |-> fresh]
    BY <1>1
  <2> QED BY <2>1
<1>6. session[s].status # "absent"
  BY DEF LockActive
<1>7. RowsReferenced(u)
  BY <1>1, <1>3, <1>4, <1>5, <1>6, CommittedReferences DEF RowsReferenced
<1> QED BY <1>7 DEF u

\* The deletions go from the referencing rows to the referenced ones.
LEMMA CreationReferences ==
    ASSUME LifecycleInv, RevokedInv, LinkedDiagnosticsAreOwned,
           NEW fresh \in Sessions, NEW now \in Instants, NEW at \in CreationSteps,
           session[fresh].status = "absent"
    PROVE  RowsReferenced(CreationTables(fresh, now, at))
<1> DEFINE u == CreationTables(fresh, now, at)
           gone == Removable(now)
           early == {"executions", "contexts", "plans"}
           pruned == at \in {"insert", "seeded"}
<1>0. TypeOK /\ NoSession \notin Sessions /\ gone \subseteq Sessions
  BY StoreAssumption DEF LifecycleInv, RecoveryInv, Removable
<1>1. /\ u.executions = IF at = "executions" THEN executions
                        ELSE {e \in executions : e.session \notin gone}
      /\ u.resets = IF pruned THEN {x \in resets : x.original \notin gone
                                                   /\ x.replacement \notin gone}
                    ELSE resets
      /\ \A p \in Plans : u.plan[p] = IF at \notin early /\ plan[p].session \in gone
                                      THEN AbsentPlan ELSE plan[p]
  BY DEF CreationTables
<1>2. \A t \in Sessions :
        u.session[t] = IF at = "seeded" /\ t = fresh THEN LiveSession(now)
                       ELSE IF pruned /\ t \in gone THEN AbsentSession ELSE session[t]
  BY DEF CreationTables
<1>3. \A d \in Diagnostics :
        u.diagnostic[d] =
          IF diagnostic[d].session \notin gone \/ at \in {"executions", "contexts"}
          THEN diagnostic[d]
          ELSE IF pruned THEN AbsentDiagnostic
          ELSE [diagnostic[d] EXCEPT !.release = "", !.plan = NoPlan]
  BY DEF CreationTables
<1>4. /\ AbsentPlan.session = NoSession /\ AbsentDiagnostic.plan = NoPlan
      /\ LiveSession(now).status = "live"
  BY DEF AbsentPlan, AbsentDiagnostic, LiveSession
<1>5. \A t \in Sessions : ~pruned \/ t \notin gone =>
        (session[t].status # "absent" => u.session[t].status # "absent")
  BY <1>2, <1>4
<1>6. \A d \in Diagnostics :
        /\ diagnostic[d].session \notin gone \/ at \in {"executions", "contexts"}
             => u.diagnostic[d] = diagnostic[d]
        /\ ~pruned => u.diagnostic[d].session = diagnostic[d].session
        /\ u.diagnostic[d] = diagnostic[d] \/ u.diagnostic[d].plan = NoPlan
        /\ u.diagnostic[d].plan # NoPlan =>
             /\ u.diagnostic[d] = diagnostic[d]
             /\ diagnostic[d].session \notin gone \/ at \in {"executions", "contexts"}
  <2> SUFFICES ASSUME NEW d \in Diagnostics
               PROVE  /\ diagnostic[d].session \notin gone \/ at \in {"executions", "contexts"}
                           => u.diagnostic[d] = diagnostic[d]
                      /\ ~pruned => u.diagnostic[d].session = diagnostic[d].session
                      /\ u.diagnostic[d] = diagnostic[d] \/ u.diagnostic[d].plan = NoPlan
                      /\ u.diagnostic[d].plan # NoPlan =>
                           /\ u.diagnostic[d] = diagnostic[d]
                           /\ \/ diagnostic[d].session \notin gone
                              \/ at \in {"executions", "contexts"}
    OBVIOUS
  <2>1. diagnostic[d] \in DiagnosticType
    BY <1>0 DEF TypeOK
  <2>2. /\ [diagnostic[d] EXCEPT !.release = "", !.plan = NoPlan].session = diagnostic[d].session
        /\ [diagnostic[d] EXCEPT !.release = "", !.plan = NoPlan].plan = NoPlan
    BY <2>1 DEF DiagnosticType
  <2> QED BY <1>3, <1>4, <2>2
<1>7. at = "executions" => ~pruned /\ at \in early
  OBVIOUS
<1>8. at \in early => ~pruned
  OBVIOUS
<1>9. at \in {"executions", "contexts"} => at \in early
  OBVIOUS
<1> HIDE DEF u, gone, early, pruned
<1>10. RowsReferenced(u)
  <2>1. \A e \in u.executions : u.plan[e.plan].session = e.session
                                /\ u.diagnostic[e.diagnostic].session = e.session
    <3>1. CASE at = "executions"
      BY <1>1, <1>6, <1>7, <3>1, CommittedReferences
    <3>2. CASE at # "executions"
      BY <1>1, <1>6, <3>2, CommittedReferences
    <3> QED BY <3>1, <3>2
  <2>2. \A d \in Diagnostics : u.diagnostic[d].plan # NoPlan
          => u.plan[u.diagnostic[d].plan].session = u.diagnostic[d].session
    BY <1>1, <1>6, <1>9, CommittedReferences
  <2>3. ASSUME NEW p \in Plans, u.plan[p].session # NoSession
        PROVE  /\ u.session[u.plan[p].session].status # "absent"
               /\ \A ref \in u.plan[p].evidence \cap Diagnostics :
                    u.diagnostic[ref].session = u.plan[p].session
    <3>1. u.plan[p] = plan[p] /\ (plan[p].session \notin gone \/ ~pruned)
      BY <1>1, <1>4, <1>8, <2>3
    <3>2. u.session[plan[p].session].status # "absent"
      BY <1>5, <2>3, <3>1, CommittedReferences
    <3>3. \A ref \in plan[p].evidence \cap Diagnostics :
            u.diagnostic[ref].session = plan[p].session
      BY <1>6, <2>3, <3>1, CommittedReferences
    <3> QED BY <3>1, <3>2, <3>3
  <2>4. \A x \in u.resets :
         u.session[x.original].status # "absent" /\ u.session[x.replacement].status # "absent"
    BY <1>1, <1>5, CommittedReferences
  <2> QED BY <2>1, <2>2, <2>3, <2>4 DEF RowsReferenced
<1> QED BY <1>10 DEF u

\* A diagnostic replaces a row nothing references.
LEMMA DiagnosticReferences ==
    ASSUME LifecycleInv, RevokedInv, LinkedDiagnosticsAreOwned,
           NEW s \in Sessions, NEW d \in Diagnostics, diagnostic[d].session = NoSession
    PROVE  RowsReferenced(DiagnosticTables(s, d))
<1> DEFINE u == DiagnosticTables(s, d)
           row == DiagnosticRow(s, production[s].release, NoPlan)
<1>0. TypeOK /\ NoSession \notin Sessions
  BY StoreAssumption DEF LifecycleInv, RecoveryInv
<1>1. /\ u.session = session /\ u.plan = plan /\ u.executions = executions
      /\ u.resets = resets /\ u.diagnostic = [diagnostic EXCEPT ![d] = row]
  BY DEF DiagnosticTables, Committed
<1>2. row.plan = NoPlan
  BY DEF DiagnosticRow
<1> HIDE DEF u, row
<1>3. \A x \in Diagnostics : u.diagnostic[x] = IF x = d THEN row ELSE diagnostic[x]
  BY <1>0, <1>1 DEF TypeOK
<1>4. RowsReferenced(u)
  BY <1>0, <1>1, <1>2, <1>3, CommittedReferences DEF RowsReferenced
<1> QED BY <1>4 DEF u

\* What the writer has written breaks no reference.
LEMMA DraftReferences ==
    ASSUME TxInv, RevokedInv, LinkedDiagnosticsAreOwned, writer # NoRequest
    PROVE  RowsReferenced(draft)
<1>1. PICK r \in Requests : writer = r
  BY DEF TxInv, WriterIsLocked
<1>2. LifecycleInv
  BY DEF TxInv, TablesInv
<1>3. PICK s, p, fresh : \E now \in Instants :
        /\ s = request[r].session /\ p = request[r].plan
        /\ fresh = request[r].fresh /\ now = request[r].now
        /\ DraftIs(request[r].at, s, p, fresh, now)
        /\ request[r].op # "create" => s \in Sessions
        /\ OnPlan(request[r].op) => p \in Plans /\ plan[p].since <= now
        /\ request[r].op \in {"create", "reset"} =>
             fresh \in Sessions /\ session[fresh].status = "absent"
        /\ request[r].op \in {"diagnostic", "execute"} =>
             fresh \in Diagnostics /\ diagnostic[fresh].session = NoSession
        /\ request[r].op = "prepare" => fresh \in Plans /\ plan[fresh].session = NoSession
  BY <1>1, StatementFacts
<1>4. PICK now \in Instants : DraftIs(request[r].at, s, p, fresh, now)
  BY <1>3
<1>5. request[r].at \in LockedSteps /\ request[r].op \in OpsAt(request[r].at)
  BY <1>1, WriterFacts DEF Formed
<1>6. CASE request[r].at = "begun"
  BY <1>2, <1>4, <1>6, CommittedReferenced, MatchesReferences DEF DraftIs
<1>7. CASE request[r].at = "prepared"
  <2>1. fresh \in Plans /\ plan[fresh].session = NoSession /\ s \in Sessions
    BY <1>3, <1>5, <1>7, OperationsAt
  <2>2. PICK target \in Releases, refs \in RefLists, reason \in Reasons :
          /\ PrepareGuards(s, target, refs, reason, fresh, now)
          /\ Matches(draft, PreparationTables(s, target, refs, reason, fresh, now))
    BY <1>4, <1>7 DEF DraftIs
  <2> QED BY <1>2, <2>1, <2>2, PreparationReferences, MatchesReferences
<1>8. CASE request[r].at \in ExecutionSteps
  <2>1. request[r].op = "execute"
    BY <1>5, <1>8, OperationsAt
  <2>2. fresh \in Diagnostics /\ diagnostic[fresh].session = NoSession /\ s \in Sessions
        /\ p \in Plans
    BY <1>3, <2>1 DEF OnPlan
  <2>3. ExecuteGuards(s, p, now)
        /\ Matches(draft, ExecutionTables(s, p, fresh, now, request[r].at))
    BY <1>4, <1>8 DEF DraftIs
  <2> QED BY <1>2, <1>8, <2>2, <2>3, ExecutionReferences, MatchesReferences
<1>9. CASE request[r].at \in ResetSteps
  <2>1. fresh \in Sessions /\ session[fresh].status = "absent" /\ s \in Sessions
    BY <1>3, <1>5, <1>9, OperationsAt
  <2>2. LockActive(s, now) /\ Matches(draft, ResetTables(s, fresh, now, request[r].at))
    BY <1>4, <1>9 DEF DraftIs
  <2> QED BY <1>2, <1>9, <2>1, <2>2, ResetReferences, MatchesReferences
<1>10. CASE request[r].at \in CreationSteps
  <2>1. fresh \in Sessions /\ session[fresh].status = "absent"
    BY <1>3, <1>5, <1>10, OperationsAt
  <2>2. Matches(draft, CreationTables(fresh, now, request[r].at))
    BY <1>4, <1>10 DEF DraftIs
  <2> QED BY <1>2, <1>10, <2>1, <2>2, CreationReferences, MatchesReferences
<1>11. CASE request[r].at = "checked"
  <2>1. fresh \in Diagnostics /\ diagnostic[fresh].session = NoSession /\ s \in Sessions
    BY <1>3, <1>5, <1>11, OperationsAt
  <2>2. Matches(draft, DiagnosticTables(s, fresh))
    BY <1>4, <1>11 DEF DraftIs
  <2> QED BY <1>2, <2>1, <2>2, DiagnosticReferences, MatchesReferences
<1> QED BY <1>5, <1>6, <1>7, <1>8, <1>9, <1>10, <1>11 DEF LockedSteps

\* No statement of any transaction leaves a row without the row it references:
\* the deletions of create_session, the inserts of execute_recovery and those of
\* reset_session are in an order the foreign keys accept.
THEOREM StatementsAreAccepted == TxSpec => []StatementsKeepReferences
<1>1. TxInv /\ RevokedInv /\ LinkedDiagnosticsAreOwned => StatementsKeepReferences
  BY DraftReferences DEF StatementsKeepReferences
<1>2. TxSpec => Spec
  BY TransactionsImplementStore DEF StoreImplemented
<1> QED BY <1>1, <1>2, TxHolds, RevokedHolds, LinksHold, PTL

-----------------------------------------------------------------------------
\* What a request and its answer may rely on.

\* The session and the plan a request names.
Named(r) ==
    /\ DOMAIN request[r].seen = DOMAIN NotSeen
    /\ request[r].session \in Sessions \cup {NoSession}
    /\ \/ request[r].op \notin {"none", "create"}
       \/ request[r].at \in ReadSteps
       => request[r].session \in Sessions
    /\ OnPlan(request[r].op) => request[r].plan \in Plans

\* No request names the session another one is about to create, or has created
\* and not yet answered with.
Reserves(r) == Pending(r) /\ request[r].op \in {"create", "reset"}
FreshIsUnnamed(q, r) == Reserves(r) => request[q].session # request[r].fresh

\* A live session was committed before a request that names it read the clock.
LiveSince(s, at) == session[s].status = "live" => session[s].since <= at
SessionsAreCommitted == \A s \in Sessions : LiveSince(s, clock)
KnowsSession(r) ==
    Pending(r) /\ request[r].session \in Sessions => LiveSince(request[r].session, request[r].now)

\* The replacement a reset committed is there to be read, and its original is
\* not live any more.
ReadsReplacement(r) ==
    request[r].op = "reset" /\ request[r].at \in ReadSteps =>
        /\ request[r].fresh \in Sessions
        /\ session[request[r].fresh].status = "live"
        /\ session[request[r].fresh].created_at = request[r].now
        /\ session[request[r].session].status # "live"

\* The deadline a snapshot read is the one of the session it shows.
ReadsDeadline(r) ==
    request[r].at \in {"service", "incident", "telemetry"}
      /\ session[Shown(r)].status = "live"
      => request[r].deadline = SessionExpiry(Shown(r))

\* What a snapshot has seen recovered stays so until the session is deleted.
Settled(s, p, status) == p \in PlansOf(s) /\ Status(p) = status
Recovered(s) == session[s].status = "absent" \/ \E p \in Plans : Settled(s, p, "executed")
SeesOneStory(r) ==
    LET seen == request[r].seen
    IN  /\ request[r].at = "incident" /\ seen.service = "after" => Recovered(Shown(r))
        /\ request[r].at \in {"telemetry", "answered"} /\ seen.service = "after"
             => seen.incident \in {"after", "missing"}
        /\ request[r].at = "telemetry" /\ seen.incident = "after" => Recovered(Shown(r))
        /\ request[r].at = "answered" /\ seen.incident = "after"
             => seen.telemetry \in {"after", "missing"}

\* A handler that goes on to create a session found the cookie's own gone.
CookieIsGone(r) ==
    /\ request[r].op = "create" /\ request[r].session # NoSession
    /\ request[r].at = "lock" \/ request[r].at \in CreationSteps
    => Gone(request[r].session)

\* What an answer claims of the session `s' and the plan `p' it is about.
Holds(op, s, p, answer) ==
    /\ answer = "ok" /\ op = "execute" => Settled(s, p, "executed")
    /\ answer = "ok" /\ op = "approve" =>
         \E e \in audit : e.session = s /\ e.event = "human_approval" /\ e.subject = p
    /\ answer = "ok" /\ op = "reject" => Settled(s, p, "rejected")
    /\ answer = "ok" /\ op = "reset" => session[s].status = "revoked"
    /\ answer = "expired" => Settled(s, p, "expired")
    /\ answer = "already_executed" => Settled(s, p, "executed")
    /\ answer \in {"session_not_found", "session_inactive"} => Gone(s)
AnswerHolds(op, s, p, answer) ==
    /\ s \in Sessions => session[s].status = "absent" \/ Holds(op, s, p, answer)
    /\ answer = "row_missing" => s \in Sessions /\ session[s].status = "absent"
    /\ op = "reset" => answer \notin {"row_missing", "session_not_found"}
AnswerIsTrue(r) ==
    request[r].at = "answered" =>
        AnswerHolds(request[r].op, request[r].session, request[r].plan, request[r].answer)

AnswerInv(r) ==
    /\ Named(r) /\ KnowsSession(r) /\ ReadsReplacement(r) /\ ReadsDeadline(r)
    /\ SeesOneStory(r) /\ CookieIsGone(r) /\ AnswerIsTrue(r)
AnswersInv ==
    /\ SessionsAreCommitted
    /\ \A r \in Requests : AnswerInv(r)
    /\ \A q, r \in Requests : FreshIsUnnamed(q, r)

-----------------------------------------------------------------------------
\* What a step leaves of a session no request is about to create.

Unreserved(s) == \A r \in Requests : MintsSession(r) => request[r].fresh # s

\* The session is not created again, and only revoked or deleted.
SessionAges(s) ==
    /\ session[s].status = "absent" => session'[s].status = "absent"
    /\ session'[s].status = "live" => session'[s] = session[s]

\* What was decided in the session and what its audit says stay with it.
Ages(s) ==
    /\ SessionAges(s)
    /\ clock <= clock'
    /\ session'[s].status # "absent" =>
         /\ \A p \in PlansOf(s) : Status(p) \in TerminalStatus => plan'[p] = plan[p]
         /\ AuditOf(s) \subseteq audit'

\* A step that writes no session deletes no event.
LEMMA AuditGrows ==
    ASSUME TypeOK, [Next]_vars, session' = session
    PROVE  audit \subseteq audit' /\ clock <= clock'
<1>1. clock \in Nat
  BY DEF TypeOK
<1>2. ASSUME NEW s \in Sessions, NEW now \in Instants, CreateSession(s, now) PROVE FALSE
  <2>1. session[s].status = "live" /\ session[s].created_at = now
    BY <1>2 DEF CreateSession, LiveSession
  <2>2. session[s].created_at + SessionLifetime <= now
    BY <1>2, <2>1 DEF CreateSession, Remaining, Removable, SessionExpiry
  <2> QED BY <1>1, <2>1, <2>2, InstantType, StoreAssumption
<1>3. ASSUME NEW s \in Sessions, NEW now \in Instants,
             \/ \E r \in Sessions : ResetSession(s, r, now)
             \/ \E d \in Diagnostics : RunDatabaseDiagnostic(s, d, now)
             \/ CurrentRecovery(s, now)
             \/ \E p \in Plans, target \in Releases, refs \in RefLists, reason \in Reasons :
                  PrepareRecovery(s, p, target, refs, reason, now)
             \/ \E p \in Plans : \/ DecideLate(s, p, now) \/ ExecuteLate(s, p, now)
                                 \/ \E d \in Diagnostics : ExecuteRecovery(s, p, d, now)
                                 \/ VerifyRecovery(s, p, now)
                                 \/ \E decision \in Decisions :
                                      DecideRecovery(s, p, decision, now)
      PROVE  audit \subseteq audit' /\ clock <= clock'
  BY <1>1, <1>3 DEF ResetSession, RunDatabaseDiagnostic, CurrentRecovery, PrepareRecovery,
              DecideLate, ExecuteLate, ExpireInstead, ExecuteRecovery, VerifyRecovery,
              DecideRecovery
<1>4. CASE Tick \/ UNCHANGED vars
  BY <1>1, <1>4 DEF Tick, vars
<1>5. ASSUME \E s \in Sessions, now \in Instants : CreateSession(s, now)
      PROVE  audit \subseteq audit' /\ clock <= clock'
  BY <1>2, <1>5
<1> QED BY <1>3, <1>4, <1>5, Zenon DEF Next, Operation

\* A step that writes no session row ages every session: its plans move on, its
\* finished plans and its audit events stay.
LEMMA QuietAges ==
    ASSUME LifecycleInv, [Next]_vars, session' = session, NEW s \in Sessions
    PROVE  Ages(s)
<1>1. TypeOK /\ OneActivePlan /\ StatesKeepTheirColumns /\ NoSession \notin Sessions
  BY StoreAssumption DEF LifecycleInv, RecoveryInv
<1>2. audit \subseteq audit' /\ clock <= clock'
  BY <1>1, AuditGrows
<1>3. ASSUME NEW p \in PlansOf(s), Status(p) \in TerminalStatus PROVE plan'[p] = plan[p]
  <2>1. p \in Plans /\ plan[p].session = s
    BY DEF PlansOf
  <2>2. PlanMoves(p)
    BY <1>1, <2>1, StepsMovePlans
  <2>3. ~Withdraws(p) /\ \A now : ~Approves(p, now) /\ ~Executes(p, now)
    BY <1>3 DEF Withdraws, Approves, Executes, Usable, TerminalStatus
  <2>4. ~Removed(p)
    BY DEF Removed
  <2>5. ~Added(p)
    BY <1>1, <2>1, AddedWasFree DEF Exists
  <2> QED BY <2>2, <2>3, <2>4, <2>5 DEF PlanMoves
<1> QED BY <1>2, <1>3 DEF Ages, SessionAges, AuditOf

\* A creation deletes whole sessions and leaves the others alone.
LEMMA CreationAges ==
    ASSUME TxInv, NEW r \in Requests, CommitCreation(r), NEW s \in Sessions, s # request[r].fresh
    PROVE  /\ Ages(s)
           /\ session[s].status = "live" /\ clock < SessionExpiry(s) => session'[s] = session[s]
<1>1. writer = r /\ request[r].at = "seeded" /\ Publish(r, Answered(r, "ok"))
  BY DEF CommitCreation, At, Done
<1>2. request[r].op = "create" /\ TypeOK
  BY <1>1, WriterFacts, OperationsAt DEF Formed, CreationSteps
<1>3. PICK x, p, fresh : \E now \in Instants :
        fresh = request[r].fresh /\ DraftIs("seeded", x, p, fresh, now)
  BY <1>1, <1>2, StatementFacts
<1>4. PICK now \in Instants :
        fresh = request[r].fresh /\ DraftIs("seeded", x, p, fresh, now)
  BY <1>3
<1> DEFINE u == CreationTables(fresh, now, "seeded")
           gone == Removable(now)
<1>5. Matches(draft, u)
  BY <1>4 DEF DraftIs, CreationSteps
<1>6. /\ u.session = [t \in Sessions |-> IF t = fresh THEN LiveSession(now)
                                      ELSE IF t \in gone THEN AbsentSession ELSE session[t]]
      /\ u.plan = [q \in Plans |-> IF plan[q].session \in gone THEN AbsentPlan ELSE plan[q]]
      /\ u.audit = {e \in audit : e.session \notin gone}
  BY DEF CreationTables
<1> HIDE DEF u, gone
<1>7. session' = u.session /\ plan' = u.plan /\ audit' = u.audit /\ clock' = clock
  BY <1>1, <1>5, PublishedTables
<1>8. session'[s] = IF s \in gone THEN AbsentSession ELSE session[s]
  BY <1>4, <1>6, <1>7
<1>9. AbsentSession.status = "absent" /\ clock \in Nat
  BY <1>2 DEF AbsentSession, TypeOK
<1>10. s \notin gone => /\ \A q \in PlansOf(s) : plan'[q] = plan[q]
                        /\ AuditOf(s) \subseteq audit'
  BY <1>6, <1>7 DEF PlansOf, AuditOf
<1>11. Ages(s)
  BY <1>7, <1>8, <1>9, <1>10 DEF Ages, SessionAges
<1>12. session[s].status = "live" /\ clock < SessionExpiry(s) => s \notin gone
  <2>1. now \in Int /\ clock \in Int /\ now <= clock /\ SessionExpiry(s) \in Int
    BY <1>2, <1>9, InstantType, StoreAssumption DEF SessionExpiry, TypeOK, SessionType
  <2> QED BY <2>1 DEF gone, Removable
<1> QED BY <1>8, <1>11, <1>12

\* A reset revokes one session and decides no plan that was decided.
LEMMA ResetAges ==
    ASSUME TxInv, NEW r \in Requests, CommitReset(r), NEW s \in Sessions, s # request[r].fresh
    PROVE  /\ Ages(s)
           /\ s # request[r].session => session'[s] = session[s]
           /\ s = request[r].session => session'[s].status = "revoked"
           /\ request[r].fresh \in Sessions
           /\ session'[request[r].fresh] = LiveSession(request[r].now)
<1> DEFINE next == [request[r] EXCEPT !.at = "session"]
<1>1. writer = r /\ request[r].at = "revoked" /\ Publish(r, next)
  BY DEF CommitReset, At
<1>2. request[r].op = "reset" /\ TypeOK
  BY <1>1, WriterFacts, OperationsAt DEF Formed, ResetSteps
<1>3. PICK x, p, fresh : \E now \in Instants :
        /\ x = request[r].session /\ fresh = request[r].fresh /\ now = request[r].now
        /\ DraftIs("revoked", x, p, fresh, now)
        /\ x \in Sessions /\ fresh \in Sessions /\ session[fresh].status = "absent"
  BY <1>1, <1>2, StatementFacts
<1>4. PICK now \in Instants :
        /\ x = request[r].session /\ fresh = request[r].fresh /\ now = request[r].now
        /\ DraftIs("revoked", x, p, fresh, now)
        /\ x \in Sessions /\ fresh \in Sessions /\ session[fresh].status = "absent"
  BY <1>3
<1> DEFINE u == ResetTables(x, fresh, now, "revoked")
<1>5. LockActive(x, now) /\ Matches(draft, u)
  BY <1>4 DEF DraftIs, ResetSteps
<1>6. /\ u.session = [session EXCEPT ![fresh] = LiveSession(now), ![x].status = "revoked"]
      /\ u.plan = [q \in Plans |-> IF plan[q].session = x
                                   THEN [plan[q] EXCEPT !.state = InvalidateRecovery(@)]
                                   ELSE plan[q]]
      /\ u.audit = audit \cup Audit(x, "session_reset", fresh, now)
  BY DEF ResetTables
<1> HIDE DEF u
<1>7. session' = u.session /\ plan' = u.plan /\ audit' = u.audit /\ clock' = clock
  <2> HIDE DEF next
  <2> QED BY <1>1, <1>5, PublishedTables
<1>8. x # fresh /\ clock \in Nat
  BY <1>2, <1>4, <1>5 DEF LockActive, TypeOK
<1>9. /\ \A t \in Sessions \ {x, fresh} : session'[t] = session[t]
      /\ session'[x].status = "revoked"
      /\ session'[fresh] = LiveSession(now)
  BY <1>2, <1>4, <1>6, <1>7, <1>8 DEF TypeOK, SessionType
<1>10. ASSUME NEW q \in Plans, Status(q) \in TerminalStatus PROVE plan'[q] = plan[q]
  <2>1. InvalidateRecovery(plan[q].state) = plan[q].state
    BY <1>10 DEF InvalidateRecovery, ActiveStatus, TerminalStatus, Status
  <2>2. plan'[q] = plan[q] \/ plan'[q] = [plan[q] EXCEPT !.state = plan[q].state]
    BY <1>6, <1>7, <2>1
  <2> QED BY <1>2, <2>2, RowWithItsState
<1>11. session[x].status = "live"
  BY <1>5 DEF LockActive
<1>12. Ages(s)
  <2>1. SessionAges(s)
    BY <1>4, <1>9, <1>11 DEF SessionAges
  <2>2. \A q \in PlansOf(s) : Status(q) \in TerminalStatus => plan'[q] = plan[q]
    BY <1>10 DEF PlansOf
  <2>3. AuditOf(s) \subseteq audit' /\ clock <= clock'
    BY <1>6, <1>7, <1>8 DEF AuditOf
  <2> QED BY <2>1, <2>2, <2>3 DEF Ages
<1> QED BY <1>4, <1>9, <1>12

\* Only two COMMITs publish sessions.
LEMMA PublishedSessions ==
    ASSUME TxInv, NEW r \in Requests, Step(r)
    PROVE  session' = session \/ CommitCreation(r) \/ CommitReset(r)
<1>1. ASSUME NEW next, NEW u, Publish(r, next), Matches(draft, u), u.session = session
      PROVE  session' = session
  BY <1>1, PublishedTables
<1>2. CASE CommitPlan(r)
  <2>1. writer = r /\ request[r].at = "prepared" /\ Publish(r, Answered(r, "ok"))
    BY <1>2 DEF CommitPlan, At, Done
  <2>2. DraftMatches(r)
    BY <2>1, WriterFacts
  <2>3. PICK s, fresh, now, target, refs, reason :
          Matches(draft, PreparationTables(s, target, refs, reason, fresh, now))
    BY <2>1, <2>2 DEF DraftMatches, DraftIs
  <2>4. PreparationTables(s, target, refs, reason, fresh, now).session = session
    BY DEF PreparationTables, Committed
  <2> QED BY <1>1, <2>1, <2>3, <2>4
<1>3. CASE CommitExecution(r)
  <2>1. writer = r /\ request[r].at = "completed" /\ Publish(r, Answered(r, "ok"))
    BY <1>3 DEF CommitExecution, At, Done
  <2>2. DraftMatches(r)
    BY <2>1, WriterFacts
  <2>3. PICK s, p, d, now : Matches(draft, ExecutionTables(s, p, d, now, "completed"))
    BY <2>1, <2>2 DEF DraftMatches, DraftIs, ExecutionSteps
  <2>4. ExecutionTables(s, p, d, now, "completed").session = session
    BY DEF ExecutionTables
  <2> QED BY <1>1, <2>1, <2>3, <2>4
<1>4. CASE CommitDiagnostic(r)
  <2>1. writer = r /\ request[r].at = "checked" /\ Publish(r, Answered(r, "ok"))
    BY <1>4 DEF CommitDiagnostic, At, Done
  <2>2. DraftMatches(r)
    BY <2>1, WriterFacts
  <2>3. PICK s, d : Matches(draft, DiagnosticTables(s, d))
    BY <2>1, <2>2 DEF DraftMatches, DraftIs
  <2>4. DiagnosticTables(s, d).session = session
    BY DEF DiagnosticTables, Committed
  <2> QED BY <1>1, <2>1, <2>3, <2>4
<1>5. CASE \/ CheckActive(r) \/ ReadSession(r) \/ ReadRow(r) \/ TakeWriterLock(r) \/ TimeOut(r)
           \/ OpenDiagnostic(r) \/ UpgradeDiagnostic(r)
  BY <1>5 DEF CheckActive, ReadSession, ReadRow, TakeWriterLock, TimeOut, OpenDiagnostic,
              UpgradeDiagnostic, WithoutSession, FinishSnapshot, Advance, Answer, storeVars, tables
<1>6. CASE \/ InsertPlan(r) \/ Claim(r) \/ ChangeService(r) \/ ResolveIncident(r)
           \/ StoreDiagnostic(r) \/ StoreExecution(r) \/ CompletePlan(r)
           \/ InsertReplacement(r) \/ InvalidatePlans(r) \/ RecordLineage(r)
           \/ RevokeOriginal(r) \/ PruneTable(r) \/ InsertSession(r)
           \/ Current(r) \/ Decide(r) \/ Verify(r)
  BY <1>6 DEF InsertPlan, Claim, ChangeService, ResolveIncident, StoreDiagnostic,
       StoreExecution, CompletePlan, InsertReplacement, InvalidatePlans, RecordLineage,
       RevokeOriginal, PruneTable, InsertSession, Current, Decide, Verify, Write, Refuse,
       CommitExpiry, ExpireInstead, CurrentRecovery, DecideRecovery, VerifyRecovery, storeVars,
       tables
<1> QED BY <1>2, <1>3, <1>4, <1>5, <1>6, Zenon DEF Step

\* A session no request is about to create ages.
LEMMA StepAges ==
    ASSUME TxInv, [TxNext]_txVars, NEW s \in Sessions, Unreserved(s)
    PROVE  Ages(s)
<1>1. LifecycleInv /\ [Next]_vars
  BY TxSteps DEF TxInv, TablesInv, StoreStep
<1>2. CASE session' = session
  BY <1>1, <1>2, QuietAges
<1>3. ASSUME NEW r \in Requests, CommitCreation(r) \/ CommitReset(r)
      PROVE  Ages(s)
  <2>1. writer = r /\ request[r].at \in {"seeded", "revoked"}
    BY <1>3 DEF CommitCreation, CommitReset, At
  <2>2. request[r].op \in {"create", "reset"} /\ Pending(r) /\ request[r].at \notin ReadSteps
    BY <2>1, WriterFacts, OperationsAt DEF Formed, CreationSteps, ResetSteps
  <2>3. request[r].fresh # s
    BY <2>2 DEF Unreserved, MintsSession
  <2> QED BY <1>3, <2>3, CreationAges, ResetAges
<1>4. ASSUME NEW r \in Requests, Step(r)
      PROVE  Ages(s)
  BY <1>2, <1>3, <1>4, PublishedSessions
<1>5. ASSUME \/ UNCHANGED txVars \/ Elapse \/ Crash \/ \E r \in Requests : Receive(r)
             \/ \E r \in Requests, op \in Operations :
                  \E t \in Sessions \cup {NoSession}, p \in Plans \cup {NoPlan} :
                    Arrive(r, op, t, p)
      PROVE  Ages(s)
  <2>1. session' = session
    BY <1>5 DEF txVars, storeVars, tables, Elapse, Tick, Crash, Receive, Advance, Arrive
  <2> QED BY <1>2, <2>1
<1> QED BY <1>4, <1>5, Zenon DEF TxNext

\* A live session no request names is left as it is until its deadline.
LEMMA UnnamedStays ==
    ASSUME TxInv, [TxNext]_txVars, NEW s \in Sessions, Unreserved(s),
           \A q \in Requests : request[q].session # s,
           session[s].status = "live", clock < SessionExpiry(s)
    PROVE  session'[s] = session[s]
<1>1. ASSUME NEW r \in Requests, CommitCreation(r) \/ CommitReset(r)
      PROVE  session'[s] = session[s]
  <2>1. writer = r /\ request[r].at \in {"seeded", "revoked"}
    BY <1>1 DEF CommitCreation, CommitReset, At
  <2>2. request[r].op \in {"create", "reset"} /\ Pending(r) /\ request[r].at \notin ReadSteps
    BY <2>1, WriterFacts, OperationsAt DEF Formed, CreationSteps, ResetSteps
  <2>3. request[r].fresh # s
    BY <2>2 DEF Unreserved, MintsSession
  <2> QED BY <1>1, <2>3, CreationAges, ResetAges
<1>2. ASSUME NEW r \in Requests, Step(r)
      PROVE  session'[s] = session[s]
  BY <1>1, <1>2, PublishedSessions
<1>3. ASSUME \/ UNCHANGED txVars \/ Elapse \/ Crash \/ \E r \in Requests : Receive(r)
             \/ \E r \in Requests, op \in Operations :
                  \E t \in Sessions \cup {NoSession}, p \in Plans \cup {NoPlan} :
                    Arrive(r, op, t, p)
      PROVE  session'[s] = session[s]
  BY <1>3 DEF txVars, storeVars, tables, Elapse, Tick, Crash, Receive, Advance, Arrive
<1> QED BY <1>2, <1>3, Zenon DEF TxNext

-----------------------------------------------------------------------------
\* What was true of a session stays true as the session ages.

\* A session that is gone stays gone.
LEMMA GoneAges ==
    ASSUME TypeOK, TypeOK', NEW s \in Sessions, Ages(s), Gone(s)
    PROVE  Gone(s)'
<1>1. SessionExpiry(s) \in Int /\ clock \in Int /\ clock' \in Int
  BY StoreAssumption DEF TypeOK, SessionType, SessionExpiry
<1>2. CASE session'[s].status # "live"
  BY <1>2 DEF Gone
<1>3. CASE session'[s].status = "live"
  <2>1. session'[s] = session[s] /\ clock <= clock'
    BY <1>3 DEF Ages, SessionAges
  <2> QED BY <1>1, <1>3, <2>1 DEF Gone, SessionExpiry
<1> QED BY <1>2, <1>3

\* A plan that reached a final status keeps it while its session has rows.
LEMMA SettledAges ==
    ASSUME NEW s \in Sessions, Ages(s), NEW p, NEW status \in TerminalStatus,
           Settled(s, p, status)
    PROVE  session'[s].status = "absent" \/ Settled(s, p, status)'
BY DEF Ages, Settled, PlansOf, Status

\* A session that is recovered stays recovered.
LEMMA RecoveredAges ==
    ASSUME NEW s \in Sessions, Ages(s), Recovered(s)
    PROVE  Recovered(s)'
BY SettledAges DEF Recovered, Ages, SessionAges, TerminalStatus

\* An answer that is true stays true.
LEMMA AnswerAges ==
    ASSUME TypeOK, TypeOK', NEW op, NEW s, NEW p, NEW answer, s \in Sessions => Ages(s),
           AnswerHolds(op, s, p, answer)
    PROVE  AnswerHolds(op, s, p, answer)'
<1>1. ASSUME s \in Sessions, Holds(op, s, p, answer), session'[s].status # "absent"
      PROVE  Holds(op, s, p, answer)'
  <2>1. Ages(s)
    BY <1>1
  <2>2. \A status \in TerminalStatus : Settled(s, p, status) => Settled(s, p, status)'
    BY <1>1, <2>1, SettledAges
  <2>3. Gone(s) => Gone(s)'
    BY <1>1, <2>1, GoneAges
  <2>4. session[s].status = "revoked" => session'[s].status = "revoked"
    BY <1>1, <2>1 DEF Ages, SessionAges, TypeOK, SessionType
  <2>5. AuditOf(s) \subseteq audit'
    BY <1>1, <2>1 DEF Ages
  <2> QED BY <1>1, <2>2, <2>3, <2>4, <2>5 DEF Holds, TerminalStatus, AuditOf
<1>2. s \in Sessions /\ session[s].status = "absent" => session'[s].status = "absent"
  BY DEF Ages, SessionAges
<1> QED BY <1>1, <1>2 DEF AnswerHolds

-----------------------------------------------------------------------------
\* A request another one's step leaves alone.

Silent(q) ==
    /\ Waits(q)
    /\ request'[q].deadline = request[q].deadline
    /\ request'[q].seen = request[q].seen
    /\ request'[q].answer = request[q].answer

\* The id a request reserves is one of a session.
LEMMA FreshIsSession ==
    ASSUME TxInv, NEW r \in Requests, ReadsReplacement(r), Reserves(r)
    PROVE  request[r].fresh \in Sessions
<1>1. CASE request[r].op = "reset" /\ request[r].at \in ReadSteps
  BY <1>1 DEF ReadsReplacement
<1>2. CASE ~(request[r].op = "reset" /\ request[r].at \in ReadSteps)
  BY <1>2 DEF TxInv, RequestInv, FreshIsFree, MintsSession, Reserves
<1> QED BY <1>1, <1>2

\* The session a request names, and the one it shows, are reserved by no other.
LEMMA NamedAges ==
    ASSUME TxInv, AnswersInv, [TxNext]_txVars, NEW q \in Requests
    PROVE  /\ request[q].session \in Sessions => Ages(request[q].session)
           /\ request[q].at \in ReadSteps => /\ Shown(q) \in Sessions
                                             /\ Ages(Shown(q))
<1>1. ASSUME request[q].session \in Sessions PROVE Ages(request[q].session)
  <2>1. PICK s \in Sessions : s = request[q].session
    BY <1>1
  <2>2. Unreserved(s)
    BY <2>1 DEF Unreserved, MintsSession, AnswersInv, FreshIsUnnamed, Reserves
  <2>3. Ages(s)
    BY <2>2, StepAges
  <2> QED BY <2>1, <2>3
<1>2. CASE request[q].at \in ReadSteps /\ request[q].op # "reset"
  <2>1. request[q].op \in {"create", "incident"}
    BY <1>2, OperationsAt DEF TxInv, RequestInv, Formed
  <2>2. request[q].session \in Sessions /\ Shown(q) = request[q].session
    BY <1>2, <2>1 DEF AnswersInv, AnswerInv, Named, Shown
  <2> QED BY <1>1, <2>2
<1>3. CASE request[q].at \in ReadSteps /\ request[q].op = "reset"
  <2>1. ReadsReplacement(q)
    BY DEF AnswersInv, AnswerInv
  <2>2. PICK s \in Sessions : s = request[q].fresh
    BY <1>3, <2>1 DEF ReadsReplacement
  <2>3. session[s].status = "live"
    BY <1>3, <2>1, <2>2 DEF ReadsReplacement
  <2>4. Unreserved(s)
    BY <2>3 DEF Unreserved, TxInv, RequestInv, FreshIsFree
  <2>5. Ages(s)
    BY <2>4, StepAges
  <2> QED BY <1>1, <1>3, <2>2, <2>5 DEF Shown
<1> QED BY <1>1, <1>2, <1>3

\* A replacement that is being read stays live.
LEMMA ReplacementStays ==
    ASSUME TxInv, AnswersInv, [TxNext]_txVars, NEW r \in Requests,
           request[r].op = "reset", request[r].at \in ReadSteps
    PROVE  session'[request[r].fresh] = session[request[r].fresh]
<1>1. ReadsReplacement(r) /\ Pending(r) /\ Formed(r) /\ TypeOK
  BY DEF AnswersInv, AnswerInv, Pending, ReadSteps, TxInv, RequestInv, TablesInv, LifecycleInv,
         RecoveryInv
<1>2. PICK s \in Sessions : s = request[r].fresh
  BY <1>1 DEF ReadsReplacement
<1>3. session[s].status = "live" /\ session[s].created_at = request[r].now
  BY <1>1, <1>2 DEF ReadsReplacement
<1>4. clock < SessionExpiry(s)
  <2>1. request[r].now \in Nat /\ clock \in Nat /\ clock - request[r].now <= MaxDelay
    BY <1>1 DEF Formed, TypeOK
  <2> QED BY <1>3, <2>1, StoreAssumption, TransactionAssumption DEF SessionExpiry
<1>5. Unreserved(s)
  BY <1>3 DEF Unreserved, TxInv, RequestInv, FreshIsFree
<1>6. \A q \in Requests : request[q].session # s
  BY <1>1, <1>2 DEF AnswersInv, FreshIsUnnamed, Reserves
<1> QED BY <1>2, <1>3, <1>4, <1>5, <1>6, UnnamedStays

\* Whatever another request does, what a request relies on stays.
LEMMA SilentStays ==
    ASSUME TxInv, TxInv', AnswersInv, [TxNext]_txVars, NEW q \in Requests, Silent(q)
    PROVE  AnswerInv(q)'
<1>1. /\ request'[q].op = request[q].op /\ request'[q].session = request[q].session
      /\ request'[q].plan = request[q].plan /\ request'[q].fresh = request[q].fresh
      /\ request'[q].at = request[q].at /\ request'[q].now = request[q].now
      /\ request'[q].deadline = request[q].deadline /\ request'[q].seen = request[q].seen
      /\ request'[q].answer = request[q].answer
  BY DEF Silent, Waits, Keeps
<1>2. TypeOK /\ TypeOK' /\ AnswerInv(q)
  BY DEF TxInv, TablesInv, LifecycleInv, RecoveryInv, AnswersInv
<1>3. Shown(q)' = Shown(q) /\ Pending(q)' = Pending(q)
  BY <1>1 DEF Shown, Pending
<1>4. Named(q)'
  BY <1>1, <1>2 DEF AnswerInv, Named
<1>5. KnowsSession(q)'
  <2> SUFFICES ASSUME Pending(q), request[q].session \in Sessions,
                      session'[request[q].session].status = "live"
               PROVE  session'[request[q].session].since <= request[q].now
    BY <1>1, <1>3 DEF KnowsSession, LiveSince
  <2>1. session'[request[q].session] = session[request[q].session]
    BY NamedAges DEF Ages, SessionAges
  <2> QED BY <1>2, <2>1 DEF AnswerInv, KnowsSession, LiveSince
<1>6. ReadsReplacement(q)'
  <2> SUFFICES ASSUME request[q].op = "reset", request[q].at \in ReadSteps
               PROVE  ReadsReplacement(q)'
    BY <1>1 DEF ReadsReplacement
  <2>1. session'[request[q].fresh] = session[request[q].fresh]
    BY ReplacementStays
  <2>2. request[q].session \in Sessions
    BY <1>2 DEF AnswerInv, Named
  <2>3. SessionAges(request[q].session)
    BY <2>2, NamedAges DEF Ages
  <2> QED BY <1>1, <1>2, <2>1, <2>3 DEF AnswerInv, ReadsReplacement, SessionAges
<1>7. ReadsDeadline(q)'
  <2> SUFFICES ASSUME request[q].at \in {"service", "incident", "telemetry"},
                      session'[Shown(q)].status = "live"
               PROVE  request[q].deadline = session'[Shown(q)].created_at + SessionLifetime
    BY <1>1, <1>3 DEF ReadsDeadline, SessionExpiry
  <2>1. session'[Shown(q)] = session[Shown(q)]
    BY NamedAges DEF ReadSteps, Ages, SessionAges
  <2> QED BY <1>2, <2>1 DEF AnswerInv, ReadsDeadline, SessionExpiry
<1>8. SeesOneStory(q)'
  <2>1. ASSUME request[q].at \in ReadSteps, Recovered(Shown(q)) PROVE Recovered(Shown(q))'
    <3>1. PICK s \in Sessions : s = Shown(q)
      BY <2>1, NamedAges
    <3>2. Recovered(s) /\ Ages(s)
      BY <2>1, <3>1, NamedAges
    <3>3. Recovered(s)'
      BY <3>2, RecoveredAges
    <3>4. s = Shown(q)'
      BY <1>3, <3>1
    <3> QED BY <3>3, <3>4
  <2> QED BY <1>1, <1>2, <2>1 DEF AnswerInv, SeesOneStory, ReadSteps
<1>9. CookieIsGone(q)'
  <2> SUFFICES ASSUME request[q].op = "create", request[q].session # NoSession,
                      request[q].at = "lock" \/ request[q].at \in CreationSteps
               PROVE  Gone(request[q].session)'
    BY <1>1 DEF CookieIsGone
  <2>1. PICK s \in Sessions : s = request[q].session
    BY <1>2 DEF AnswerInv, Named
  <2>2. Gone(s) /\ Ages(s)
    BY <1>2, <2>1, NamedAges DEF AnswerInv, CookieIsGone
  <2>3. Gone(s)'
    BY <1>2, <2>2, GoneAges
  <2>4. s = request'[q].session
    BY <1>1, <2>1
  <2> QED BY <2>3, <2>4
<1>10. AnswerIsTrue(q)'
  <2> SUFFICES ASSUME request[q].at = "answered" PROVE AnswerIsTrue(q)'
    BY <1>1 DEF AnswerIsTrue
  <2>1. PICK op, s, p, answer : /\ op = request[q].op /\ s = request[q].session
                                /\ p = request[q].plan /\ answer = request[q].answer
    OBVIOUS
  <2>2. AnswerHolds(op, s, p, answer)
    BY <1>2, <2>1 DEF AnswerInv, AnswerIsTrue
  <2>3. s \in Sessions => Ages(s)
    BY <2>1, NamedAges
  <2>4. AnswerHolds(op, s, p, answer)'
    BY <1>2, <2>2, <2>3, AnswerAges
  <2> QED BY <1>1, <2>1, <2>4 DEF AnswerIsTrue
<1> QED BY <1>4, <1>5, <1>6, <1>7, <1>8, <1>9, <1>10 DEF AnswerInv

\* What a step of `r' does to the requests of others.
OthersSilent(r) == DOMAIN request' = Requests /\ \A q \in Requests \ {r} : Silent(q)

\* A step that replaces the record of one request leaves all others silent.
LEMMA ReplacedSilent ==
    ASSUME TxInv, NEW r \in Requests, NEW next, request' = [request EXCEPT ![r] = next]
    PROVE  OthersSilent(r)
<1>1. DOMAIN request = Requests /\ OthersWait(r)
  BY ReplacedRequest DEF TxInv
<1>2. \A q \in Requests \ {r} : request'[q] = request[q]
  BY <1>1
<1> QED BY <1>1, <1>2 DEF OthersWait, OthersSilent, Silent

\* A change of one request's step leaves all else.
LEMMA MovedSilent ==
    ASSUME TxInv, NEW r \in Requests, NEW next, request' = [request EXCEPT ![r].at = next]
    PROVE  /\ OthersSilent(r) /\ Keeps(r)
           /\ request'[r].at = next /\ request'[r].now = request[r].now
           /\ request'[r].deadline = request[r].deadline /\ request'[r].seen = request[r].seen
           /\ request'[r].answer = request[r].answer
<1>1. DOMAIN request = Requests /\ DOMAIN request[r] = Fields
  BY DEF TxInv, RequestInv, Formed
<1>2. OthersWait(r) /\ Keeps(r) /\ request'[r].at = next /\ request'[r].now = request[r].now
  BY MovedRequest
<1>3. \A q \in Requests \ {r} : request'[q] = request[q]
  BY <1>1
<1>4. request'[r] = [request[r] EXCEPT !.at = next]
  BY <1>1
<1>5. /\ request'[r].deadline = request[r].deadline /\ request'[r].seen = request[r].seen
      /\ request'[r].answer = request[r].answer
  BY <1>1, <1>4 DEF Fields
<1> QED BY <1>2, <1>3, <1>5 DEF OthersWait, OthersSilent, Silent

\* A COMMIT tells the others nothing but that their snapshot is old.
LEMMA CommittedSilent ==
    ASSUME TxInv, NEW r \in Requests, NEW next, AfterCommit(r, next)
    PROVE  OthersSilent(r) /\ request'[r] = next
<1>1. OthersWait(r) /\ request'[r] = next
  BY CommittedRequest
<1>2. ASSUME NEW q \in Requests \ {r} PROVE Silent(q)
  <2>1. DOMAIN request[q] = Fields
    BY DEF TxInv, RequestInv, Formed
  <2>2. request'[q] = [request[q] EXCEPT !.moved = @ \/ request[q].at = "upgrade"]
    BY DEF AfterCommit
  <2>3. /\ request'[q].deadline = request[q].deadline /\ request'[q].seen = request[q].seen
        /\ request'[q].answer = request[q].answer
    BY <2>1, <2>2 DEF Fields
  <2> QED BY <1>1, <2>3 DEF OthersWait, Silent
<1> QED BY <1>1, <1>2 DEF OthersWait, OthersSilent

-----------------------------------------------------------------------------
\* The step of one request.

\* It names no other session than before and reserves no other.
Carries(r) ==
    /\ request'[r].session \in {request[r].session, NoSession}
    /\ Reserves(r)' => Reserves(r) /\ request'[r].fresh = request[r].fresh

\* A silent request carries what it names.
LEMMA SilentCarries ==
    ASSUME NEW r \in Requests, Silent(r)
    PROVE  Carries(r)
BY DEF Silent, Waits, Keeps, Carries, Reserves, Pending

\* The clock never goes back.
LEMMA ClockMoves ==
    ASSUME TypeOK, [Next]_vars
    PROVE  clock' \in Nat /\ clock <= clock'
<1>1. clock \in Nat
  BY DEF TypeOK
<1>2. ASSUME NEW s \in Sessions, NEW now \in Instants,
             \/ CreateSession(s, now)
             \/ \E r \in Sessions : ResetSession(s, r, now)
             \/ \E d \in Diagnostics : RunDatabaseDiagnostic(s, d, now)
             \/ CurrentRecovery(s, now)
             \/ \E p \in Plans, target \in Releases, refs \in RefLists, reason \in Reasons :
                  PrepareRecovery(s, p, target, refs, reason, now)
             \/ \E p \in Plans : \/ DecideLate(s, p, now) \/ ExecuteLate(s, p, now)
                                 \/ \E d \in Diagnostics : ExecuteRecovery(s, p, d, now)
                                 \/ VerifyRecovery(s, p, now)
                                 \/ \E decision \in Decisions :
                                      DecideRecovery(s, p, decision, now)
      PROVE  clock' \in Nat /\ clock <= clock'
  BY <1>1, <1>2 DEF CreateSession, ResetSession, RunDatabaseDiagnostic, CurrentRecovery,
              PrepareRecovery, DecideLate, ExecuteLate, ExpireInstead, ExecuteRecovery,
              VerifyRecovery, DecideRecovery
<1>3. CASE Tick \/ UNCHANGED vars
  BY <1>1, <1>3 DEF Tick, vars
<1> QED BY <1>2, <1>3, Zenon DEF Next, Operation

\* Every live session was created by now.
LEMMA CommittedSessions ==
    ASSUME TypeOK, [Next]_vars, SessionsAreCommitted
    PROVE  SessionsAreCommitted'
<1> SUFFICES ASSUME NEW s \in Sessions, session'[s].status = "live"
             PROVE  session'[s].since <= clock'
  BY DEF SessionsAreCommitted, LiveSince
<1>1. clock \in Nat /\ \A t \in Sessions : session[t].since \in Nat
  BY DEF TypeOK, SessionType
<1>2. session[s].status = "live" => session[s].since <= clock
  BY DEF SessionsAreCommitted, LiveSince
<1>3. CASE session'[s] = session[s]
  <2>1. clock <= clock'
    BY <1>1, ClockMoves
  <2>2. clock' \in Nat
    BY <1>1, ClockMoves
  <2> QED BY <1>1, <1>2, <1>3, <2>1, <2>2
<1>4. ASSUME NEW t \in Sessions, NEW now \in Instants, CreateSession(t, now),
             session'[s] # session[s]
      PROVE  session'[s].since <= clock'
  <2>1. session'[s] = LiveSession(now) \/ session'[s] = AbsentSession
    BY <1>4 DEF CreateSession
  <2>2. AbsentSession.status = "absent" /\ LiveSession(now).since = clock
    BY DEF AbsentSession, LiveSession
  <2>3. clock' = clock
    BY <1>4 DEF CreateSession
  <2> QED BY <1>1, <2>1, <2>2, <2>3
<1>5. ASSUME NEW t \in Sessions, NEW x \in Sessions, NEW now \in Instants,
             ResetSession(t, x, now), session'[s] # session[s]
      PROVE  session'[s].since <= clock'
  <2>1. DOMAIN session = Sessions /\ session' = [session EXCEPT ![x] = LiveSession(now),
                                                                ![t].status = "revoked"]
    BY <1>5 DEF ResetSession, TypeOK
  <2>2. s = t => session'[s].status = "revoked"
    <3>1. session[t] \in SessionType /\ LiveSession(now).status = "live"
      BY DEF TypeOK, LiveSession
    <3> QED BY <2>1, <3>1 DEF SessionType, LiveSession
  <2>3. s # t => s = x /\ session'[s] = LiveSession(now)
    BY <1>5, <2>1
  <2>4. LiveSession(now).since = clock /\ clock' = clock
    BY <1>5 DEF LiveSession, ResetSession
  <2> QED BY <1>1, <2>2, <2>3, <2>4
<1> QED BY <1>3, <1>4, <1>5, SessionMoves

\* When every request carries on and keeps what is said of it, all of it is kept.
LEMMA AllCarry ==
    ASSUME TxInv, AnswersInv, [TxNext]_txVars,
           \A q \in Requests : Carries(q) /\ AnswerInv(q)'
    PROVE  AnswersInv'
<1>1. TypeOK /\ [Next]_vars
  BY TxSteps DEF TxInv, TablesInv, LifecycleInv, RecoveryInv, StoreStep
<1>2. SessionsAreCommitted'
  BY <1>1, CommittedSessions DEF AnswersInv
<1>3. ASSUME NEW q \in Requests, NEW r \in Requests, Reserves(r)'
      PROVE  request'[q].session # request'[r].fresh
  <2>1. Reserves(r) /\ request'[r].fresh = request[r].fresh
    BY <1>3 DEF Carries
  <2>2. request[r].fresh \in Sessions
    BY <2>1, FreshIsSession DEF AnswersInv, AnswerInv
  <2>3. request[q].session # request[r].fresh
    BY <2>1 DEF AnswersInv, FreshIsUnnamed
  <2> QED BY <2>1, <2>2, <2>3, StoreAssumption DEF Carries
<1>4. (\A q, r \in Requests : FreshIsUnnamed(q, r))'
  BY <1>3 DEF FreshIsUnnamed
<1> QED BY <1>2, <1>4 DEF AnswersInv

\* So only what the request itself does is left to look at.
LEMMA ActorStep ==
    ASSUME TxInv, AnswersInv, [TxNext]_txVars, NEW r \in Requests, OthersSilent(r),
           Carries(r), AnswerInv(r)'
    PROVE  AnswersInv'
<1>1. TxInv'
  BY TxSteps DEF StoreStep
<1>2. \A q \in Requests \ {r} : Carries(q) /\ AnswerInv(q)'
  BY <1>1, SilentCarries, SilentStays DEF OthersSilent
<1> QED BY <1>2, AllCarry

-----------------------------------------------------------------------------
\* A request that is answered.

\* An answer that is true before or after the step that gives it keeps the
\* invariant, whatever the snapshot it ends with.
LEMMA EndsStep ==
    ASSUME TxInv, AnswersInv, [TxNext]_txVars, NEW r \in Requests, OthersSilent(r),
           NEW op, NEW s, NEW p, NEW answer, NEW seen,
           op = request[r].op, s = request[r].session, p = request[r].plan,
           request'[r].at = "answered", request'[r].op = op, request'[r].session = s,
           request'[r].plan = p, request'[r].answer = answer, request'[r].seen = seen,
           DOMAIN seen = DOMAIN NotSeen,
           seen.service = "after" => seen.incident \in {"after", "missing"},
           seen.incident = "after" => seen.telemetry \in {"after", "missing"},
           AnswerHolds(op, s, p, answer) \/ AnswerHolds(op, s, p, answer)'
    PROVE  AnswersInv'
<1>1. TxInv' /\ TypeOK /\ TypeOK' /\ Named(r)
  BY TxSteps DEF StoreStep, TxInv, TablesInv, LifecycleInv, RecoveryInv, AnswersInv, AnswerInv
<1>2. AnswerHolds(op, s, p, answer)'
  <2>1. s \in Sessions => Ages(s)
    BY NamedAges
  <2> QED BY <1>1, <2>1, AnswerAges
<1>3. Named(r)' /\ ~Pending(r)'
  BY <1>1 DEF Named, Pending, ReadSteps
<1>4. KnowsSession(r)' /\ ReadsReplacement(r)' /\ ReadsDeadline(r)' /\ CookieIsGone(r)'
  BY <1>3 DEF KnowsSession, ReadsReplacement, ReadsDeadline, CookieIsGone, ReadSteps,
              CreationSteps
<1>5. SeesOneStory(r)'
  BY DEF SeesOneStory
<1>6. AnswerIsTrue(r)'
  BY <1>2 DEF AnswerIsTrue
<1>7. Carries(r)
  BY <1>3 DEF Carries, Reserves
<1> QED BY <1>3, <1>4, <1>5, <1>6, <1>7, ActorStep DEF AnswerInv

\* A reply, from a read, a transaction that is rolled back or one that committed.
Replies(r, answer) ==
    Answer(r, answer) \/ Refuse(r, answer) \/ AfterCommit(r, Answered(r, answer))

\* The same of a reply, which shows no snapshot.
LEMMA ReplyStep ==
    ASSUME TxInv, AnswersInv, [TxNext]_txVars, NEW r \in Requests,
           NEW answer, Replies(r, answer), NEW op, NEW s, NEW p,
           op = request[r].op, s = request[r].session, p = request[r].plan,
           AnswerHolds(op, s, p, answer) \/ AnswerHolds(op, s, p, answer)'
    PROVE  AnswersInv'
<1>1. OthersSilent(r) /\ request'[r] = Answered(r, answer)
  <2>1. CASE request' = [request EXCEPT ![r] = Answered(r, answer)]
    BY <2>1, ReplacedSilent DEF TxInv
  <2>2. CASE AfterCommit(r, Answered(r, answer))
    BY <2>2, CommittedSilent
  <2> QED BY <2>1, <2>2 DEF Replies, Answer, Advance, Refuse
<1>2. /\ request'[r].at = "answered" /\ request'[r].op = op /\ request'[r].session = s
      /\ request'[r].plan = p /\ request'[r].answer = answer /\ request'[r].seen = NotSeen
  BY <1>1 DEF Answered, Idle
<1>3. NotSeen.service # "after" /\ NotSeen.incident # "after"
  BY DEF NotSeen
<1> QED BY <1>1, <1>2, <1>3, EndsStep

\* The refusals that claim something of the tables.
Telling == {"expired", "already_executed", "session_not_found", "session_inactive", "row_missing"}

\* An answer that claims nothing.
LEMMA QuietReply ==
    ASSUME TxInv, AnswersInv, [TxNext]_txVars, NEW r \in Requests,
           NEW answer, Replies(r, answer), answer \notin Telling,
           answer = "ok" => request[r].op \notin {"execute", "approve", "reject", "reset"}
    PROVE  AnswersInv'
<1>1. AnswerHolds(request[r].op, request[r].session, request[r].plan, answer)
  BY DEF AnswerHolds, Holds, Telling
<1> QED BY <1>1, ReplyStep

\* A session that is not active for the request is not any more.
LEMMA InactiveIsGone ==
    ASSUME TxInv, AnswersInv, NEW r \in Requests, Pending(r), request[r].session \in Sessions,
           ~LockActive(request[r].session, request[r].now)
    PROVE  Gone(request[r].session)
<1>1. /\ TypeOK /\ Formed(r) /\ KnowsSession(r)
  BY DEF TxInv, TablesInv, LifecycleInv, RecoveryInv, RequestInv, AnswersInv, AnswerInv
<1>2. PICK s \in Sessions : s = request[r].session
  OBVIOUS
<1>3. /\ request[r].now \in Nat /\ request[r].now <= clock /\ clock \in Nat
      /\ SessionExpiry(s) \in Nat /\ session[s].since \in Nat
  BY <1>1, StoreAssumption DEF Formed, TypeOK, SessionType, SessionExpiry
<1>4. session[s].status = "live" => session[s].since <= request[r].now
  BY <1>1, <1>2 DEF KnowsSession, LiveSince
<1>5. CASE session[s].status = "live"
  <2>1. SessionExpiry(s) <= request[r].now
    BY <1>2, <1>3, <1>4, <1>5 DEF LockActive
  <2> QED BY <1>2, <1>3, <2>1 DEF Gone
<1> QED BY <1>2, <1>5 DEF Gone

\* A request that finds its session inactive may say so.
LEMMA InactiveReply ==
    ASSUME TxInv, AnswersInv, [TxNext]_txVars, NEW r \in Requests, Pending(r),
           request[r].session \in Sessions, ~LockActive(request[r].session, request[r].now),
           Replies(r, "session_inactive")
    PROVE  AnswersInv'
<1>1. AnswerHolds(request[r].op, request[r].session, request[r].plan, "session_inactive")
  BY InactiveIsGone DEF AnswerHolds, Holds
<1> QED BY <1>1, ReplyStep

-----------------------------------------------------------------------------
\* A request that goes on under the writer lock.

\* A request that takes its next statement, and writes nothing the others see,
\* keeps the invariant.
LEMMA LocksOn ==
    ASSUME TxInv, AnswersInv, [TxNext]_txVars, NEW r \in Requests, Pending(r),
           NEW next \in LockedSteps, request' = [request EXCEPT ![r].at = next],
           UNCHANGED storeVars,
           next \in CreationSteps => request[r].at = "lock" \/ request[r].at \in CreationSteps
    PROVE  AnswersInv'
<1>1. /\ OthersSilent(r) /\ Keeps(r)
      /\ request'[r].at = next /\ request'[r].now = request[r].now
      /\ request'[r].seen = request[r].seen
  BY MovedSilent
<1>2. AnswerInv(r) /\ session' = session /\ clock' = clock
  BY DEF AnswersInv, storeVars, tables
<1>3. next \notin ReadSteps \cup {"answered", "idle", "lock"}
  BY DEF LockedSteps, ExecutionSteps, ResetSteps, CreationSteps, ReadSteps
<1>4. Named(r)'
  BY <1>1, <1>2, <1>3 DEF AnswerInv, Named, Keeps
<1>5. KnowsSession(r)'
  BY <1>1, <1>2 DEF AnswerInv, KnowsSession, Keeps, LiveSince
<1>6. ReadsReplacement(r)' /\ ReadsDeadline(r)' /\ SeesOneStory(r)' /\ AnswerIsTrue(r)'
  BY <1>1, <1>3 DEF ReadsReplacement, ReadsDeadline, SeesOneStory, AnswerIsTrue, ReadSteps
<1>7. CookieIsGone(r)'
  BY <1>1, <1>2, <1>3 DEF AnswerInv, CookieIsGone, Keeps, Gone, SessionExpiry
<1>8. Carries(r)
  BY <1>1 DEF Carries, Reserves, Keeps
<1> QED BY <1>1, <1>4, <1>5, <1>6, <1>7, <1>8, ActorStep DEF AnswerInv

\* A statement that succeeds.
LEMMA WritesOn ==
    ASSUME TxInv, AnswersInv, [TxNext]_txVars, NEW r \in Requests, writer = r,
           NEW next \in LockedSteps, NEW written, Write(r, next, written),
           next \in CreationSteps => request[r].at \in CreationSteps
    PROVE  AnswersInv'
BY WriterFacts, LocksOn DEF Write

\* The requests that take the writer lock.
LEMMA LocksKeep ==
    ASSUME TxInv, AnswersInv, [TxNext]_txVars, NEW r \in Requests,
           TakeWriterLock(r) \/ UpgradeDiagnostic(r)
    PROVE  AnswersInv'
<1>1. Pending(r)
  BY DEF TakeWriterLock, UpgradeDiagnostic, Pending
<1>2. {"executions", "begun", "checked"} \subseteq LockedSteps
      /\ "begun" \notin CreationSteps /\ "checked" \notin CreationSteps
  BY DEF LockedSteps, CreationSteps
<1>3. CASE TakeWriterLock(r)
  <2>1. PICK next \in {"executions", "begun"} : request' = [request EXCEPT ![r].at = next]
    BY <1>3 DEF TakeWriterLock
  <2> QED BY <1>1, <1>2, <1>3, <2>1, LocksOn DEF TakeWriterLock
<1>4. CASE UpgradeDiagnostic(r)
  <2>1. CASE CanUpgrade(r)
    BY <1>1, <1>2, <1>4, <2>1, LocksOn DEF UpgradeDiagnostic
  <2>2. CASE ~CanUpgrade(r)
    BY <1>4, <2>2, QuietReply DEF UpgradeDiagnostic, Replies, Telling
  <2> QED BY <2>1, <2>2
<1> QED BY <1>3, <1>4

\* The statements of execute_recovery after its claim.
LEMMA ExecutionKeeps ==
    ASSUME TxInv, AnswersInv, [TxNext]_txVars, NEW r \in Requests,
           \/ ChangeService(r) \/ ResolveIncident(r) \/ StoreDiagnostic(r)
           \/ StoreExecution(r) \/ CompletePlan(r)
    PROVE  AnswersInv'
<1>1. writer = r
  BY DEF ChangeService, ResolveIncident, StoreDiagnostic, StoreExecution, CompletePlan, At
<1>2. \/ \E next \in ExecutionSteps : \E written : Write(r, next, written)
      \/ \E error \in {"stale_active_release", "incident_not_active", "invalid_transition"} :
           Refuse(r, error)
  BY DEF ChangeService, ResolveIncident, StoreDiagnostic, StoreExecution, CompletePlan,
         ExecutionSteps
<1>3. ASSUME NEW next \in ExecutionSteps, NEW written, Write(r, next, written)
      PROVE  AnswersInv'
  <2>1. next \in LockedSteps /\ next \notin CreationSteps
    BY DEF LockedSteps, ExecutionSteps, CreationSteps
  <2> QED BY <1>1, <1>3, <2>1, WritesOn
<1>4. ASSUME NEW error \in {"stale_active_release", "incident_not_active", "invalid_transition"},
             Refuse(r, error)
      PROVE  AnswersInv'
  BY <1>4, QuietReply DEF Replies, Telling
<1> QED BY <1>2, <1>3, <1>4

\* The statements of reset_session.
LEMMA ResetKeeps ==
    ASSUME TxInv, AnswersInv, [TxNext]_txVars, NEW r \in Requests,
           \/ InsertReplacement(r) \/ InvalidatePlans(r) \/ RecordLineage(r) \/ RevokeOriginal(r)
    PROVE  AnswersInv'
<1>1. writer = r /\ Pending(r)
  <2>1. writer = r
    BY DEF InsertReplacement, InvalidatePlans, RecordLineage, RevokeOriginal, At, Begun
  <2> QED BY <2>1, WriterFacts
<1>2. \/ \E next \in ResetSteps : \E written : Write(r, next, written)
      \/ InsertReplacement(r) /\ LockError(r) # "ok" /\ Refuse(r, LockError(r))
  BY DEF InsertReplacement, InvalidatePlans, RecordLineage, RevokeOriginal, ResetSteps
<1>3. ASSUME NEW next \in ResetSteps, NEW written, Write(r, next, written)
      PROVE  AnswersInv'
  <2>1. next \in LockedSteps /\ next \notin CreationSteps
    BY DEF LockedSteps, ResetSteps, CreationSteps
  <2> QED BY <1>1, <1>3, <2>1, WritesOn
<1>4. CASE InsertReplacement(r) /\ LockError(r) # "ok" /\ Refuse(r, LockError(r))
  <2>1. LockError(r) = "session_inactive" /\ ~LockActive(request[r].session, request[r].now)
    BY <1>4 DEF LockError
  <2>2. request[r].session \in Sessions
    BY <1>4 DEF InsertReplacement, Begun, AnswersInv, AnswerInv, Named
  <2> QED BY <1>1, <1>4, <2>1, <2>2, InactiveReply DEF Replies
<1> QED BY <1>2, <1>3, <1>4

\* The deletions and the insert of create_session.
LEMMA CreationKeeps ==
    ASSUME TxInv, AnswersInv, [TxNext]_txVars, NEW r \in Requests,
           PruneTable(r) \/ InsertSession(r)
    PROVE  AnswersInv'
<1>1. writer = r /\ request[r].at \in CreationSteps
  BY DEF PruneTable, InsertSession, At, CreationSteps, LockedSteps, TxInv, WriterIsLocked
<1>2. \/ \E next \in CreationSteps : \E written : Write(r, next, written)
      \/ Refuse(r, "capacity")
  BY DEF PruneTable, InsertSession, NextPruned, CreationSteps
<1>3. CreationSteps \subseteq LockedSteps
  BY DEF LockedSteps
<1>4. CASE Refuse(r, "capacity")
  BY <1>4, QuietReply DEF Replies, Telling
<1> QED BY <1>1, <1>2, <1>3, <1>4, WritesOn

\* A wait that runs into its timeout.
LEMMA TimeOutKeeps ==
    ASSUME TxInv, AnswersInv, [TxNext]_txVars, NEW r \in Requests, TimeOut(r)
    PROVE  AnswersInv'
BY QuietReply DEF TimeOut, Replies, Telling

-----------------------------------------------------------------------------
\* What the refusals of the recovery rules say.

\* Checks that never fail with one of the codes do not answer with it.
LEMMA NeverRefuses ==
    ASSUME NEW checks, NEW n \in Nat, DOMAIN checks = 1 .. n, NEW codes, "ok" \notin codes,
           \A i \in 1 .. n : checks[i][2] \notin codes
    PROVE  FirstFailure(checks) \notin codes
BY FirstFailureAmong

\* A record is refused for what it is, never for the state of a session.
LEMMA ListRefusal ==
    ASSUME NEW S, NEW list \in Seq(S), NEW cmd
    PROVE  EvidenceListError(list, cmd) \notin Telling
<1>1. ASSUME NEW item, NEW repeated
      PROVE  FirstFailure(ItemChecks(item, repeated, cmd)) \notin Telling
  <2> DEFINE checks == ItemChecks(item, repeated, cmd)
  <2>1. DOMAIN checks = 1 .. 6 /\ \A i \in 1 .. 6 : checks[i][2] \notin Telling
    BY DEF ItemChecks, Telling
  <2> HIDE DEF checks
  <2>2. FirstFailure(checks) \notin Telling
    <3>1. 6 \in Nat /\ "ok" \notin Telling
      BY DEF Telling
    <3> QED BY <2>1, <3>1, NeverRefuses
  <2> QED BY <2>2 DEF checks
<1> DEFINE n == Len(list)
<1>2. PICK checks : ListChecked(list, cmd, n, checks)
  BY ListChecks
<1>3. n \in Nat
  OBVIOUS
<1> HIDE DEF n
<1>4. \A i \in 1 .. n : checks[i + 1][2] \notin Telling
  BY <1>1, <1>2 DEF ListChecked, ItemError
<1>5. \A k \in 1 .. n + 3 : k = 1 \/ k = n + 2 \/ k = n + 3 \/ \E i \in 1 .. n : k = i + 1
  <2> SUFFICES ASSUME NEW k \in 1 .. n + 3, k # 1, k # n + 2, k # n + 3
               PROVE  k - 1 \in 1 .. n /\ k = (k - 1) + 1
    OBVIOUS
  <2> QED BY <1>3
<1>6. \A k \in 1 .. n + 3 : checks[k][2] \notin Telling
  BY <1>2, <1>4, <1>5 DEF ListChecked, Telling
<1>7. DOMAIN checks = 1 .. n + 3 /\ n + 3 \in Nat
  BY <1>2, <1>3 DEF ListChecked
<1>8. FirstFailure(checks) \notin Telling
  BY <1>6, <1>7, FirstFailureAmong DEF Telling
<1> QED BY <1>2, <1>8 DEF ListChecked

\* prepare_recovery's refusals of a command claim nothing of the tables.
LEMMA PrepareRefusal ==
    ASSUME NEW S, NEW list \in Seq(S), NEW cmd
    PROVE  PrepareError(cmd, list) \notin Telling
<1>1. CommandError(cmd) \notin Telling
  <2> DEFINE checks == << <<cmd.generation <= 0, "invalid_generation">>,
                          <<\/ cmd.target = cmd.expected
                            \/ cmd.target_service # cmd.service
                            \/ cmd.target_state # "healthy_baseline", "invalid_target">>,
                          <<~ReasonAccepted(cmd.reason), "invalid_reason">> >>
  <2>1. DOMAIN checks = 1 .. 3 /\ \A i \in 1 .. 3 : checks[i][2] \notin Telling
    BY DEF Telling
  <2>2. CommandError(cmd) = FirstFailure(checks)
    BY DEF CommandError
  <2> HIDE DEF checks
  <2>3. 3 \in Nat /\ "ok" \notin Telling
    BY DEF Telling
  <2>4. FirstFailure(checks) \notin Telling
    BY <2>1, <2>3, NeverRefuses
  <2> QED BY <2>2, <2>4
<1> QED BY <1>1, ListRefusal DEF PrepareError

\* A preparation that is refused for its session found it inactive.
LEMMA PreparationRefusal ==
    ASSUME NEW r \in Requests, NEW target, NEW refs \in RefLists, NEW reason, NEW error,
           error = PreparationError(r, target, refs, reason)
    PROVE  \/ error \notin Telling
           \/ error = "session_inactive" /\ ~LockActive(request[r].session, request[r].now)
<1> DEFINE s == request[r].session
           now == request[r].now
           invalid == PrepareError(PreparedCommand(s, request[r].fresh, target, reason, now),
                                   EvidenceList(s, refs))
           checks == << <<LockError(r) # "ok", LockError(r)>>,
                        <<production[s].incident # "active", "invalid_transition">>,
                        <<\E i \in DOMAIN refs : ~Resolves(s, refs[i], now),
                          "unresolved_evidence">>,
                        <<~(ActivePlans(s) \subseteq OverduePlans(s, now)), "active_exists">>,
                        <<invalid # "ok", invalid>> >>
<1>1. FirstFailure(checks) = error
  BY DEF PreparationError
<1>2. DOMAIN checks = 1 .. 5
  OBVIOUS
<1>3. checks[1][1] <=> LockError(r) # "ok"
  BY Zenon
<1>4. /\ checks[1][2] = LockError(r) /\ checks[2][2] = "invalid_transition"
      /\ checks[3][2] = "unresolved_evidence" /\ checks[4][2] = "active_exists"
      /\ checks[5][2] = invalid
  OBVIOUS
<1>5. invalid \notin Telling
  <2> DEFINE S == {EvidenceList(s, refs)[i] : i \in DOMAIN refs}
  <2>1. refs \in Seq(Logs \cup Diagnostics)
    BY StoreAssumption
  <2>2. EvidenceList(s, refs) \in Seq(S)
    <3>1. DOMAIN refs = 1 .. Len(refs) /\ Len(refs) \in Nat
      BY <2>1
    <3>2. EvidenceList(s, refs) \in [1 .. Len(refs) -> S]
      BY <3>1 DEF EvidenceList
    <3> HIDE DEF S
    <3> QED BY <3>1, <3>2
  <2> HIDE DEF S
  <2> QED BY <2>2, PrepareRefusal
<1> HIDE DEF checks, invalid
<1>6. CASE checks[1][1]
  <2>1. error = LockError(r)
    <3>1. 5 \in Nat /\ 1 \in 1 .. 5 /\ \A i \in 1 .. 5 : i < 1 => ~checks[i][1]
      OBVIOUS
    <3>2. FirstFailure(checks) = checks[1][2]
      BY <1>2, <1>6, <3>1, FirstFailureIs
    <3> QED BY <1>1, <1>4, <3>2
  <2> QED BY <1>3, <1>6, <2>1 DEF LockError
<1>7. CASE ~checks[1][1]
  <2>1. \A i \in 1 .. 5 : i = 1 \/ checks[i][2] \notin Telling
    BY <1>4, <1>5 DEF Telling
  <2>2. \/ error = "ok"
        \/ \E i \in 1 .. 5 : checks[i][1] /\ error = checks[i][2]
    <3>1. 5 \in Nat
      OBVIOUS
    <3>2. \/ FirstFailure(checks) = "ok" /\ \A i \in 1 .. 5 : ~checks[i][1]
         \/ \E k \in 1 .. 5 : /\ checks[k][1] /\ FirstFailure(checks) = checks[k][2]
                              /\ \A i \in 1 .. 5 : i < k => ~checks[i][1]
      BY <1>2, <3>1, FirstFailureAmong
    <3> QED BY <1>1, <3>2
  <2> QED BY <1>7, <2>1, <2>2 DEF Telling
<1> QED BY <1>6, <1>7

\* A decision is refused as expired only when the plan is overdue.
LEMMA DecisionRefusal ==
    ASSUME NEW spec, NEW state, NEW decision, NEW now, NEW error,
           error = DecisionError(spec, state, decision, now), ~Overdue(spec, state, now)
    PROVE  error \notin Telling
<1> DEFINE checks == DecisionChecks(spec, state, decision, now)
<1>1. DOMAIN checks = 1 .. 4 /\ FirstFailure(checks) = error
  BY DEF DecisionChecks, DecisionError
<1>2. ~checks[1][1]
  BY DEF DecisionChecks
<1>3. /\ checks[2][2] = "fingerprint_mismatch" /\ checks[3][2] = "invalid_transition"
      /\ checks[4][2] = "invalid_transition"
  BY DEF DecisionChecks
<1> HIDE DEF checks
<1>4. \A i \in 1 .. 4 : i = 1 \/ checks[i][2] \notin Telling
  BY <1>3 DEF Telling
<1>5. \/ error = "ok"
      \/ \E i \in 1 .. 4 : checks[i][1] /\ error = checks[i][2]
  <2>1. 4 \in Nat
    OBVIOUS
  <2>2. \/ FirstFailure(checks) = "ok" /\ \A i \in 1 .. 4 : ~checks[i][1]
       \/ \E k \in 1 .. 4 : /\ checks[k][1] /\ FirstFailure(checks) = checks[k][2]
                            /\ \A i \in 1 .. 4 : i < k => ~checks[i][1]
    BY <1>1, <2>1, FirstFailureAmong
  <2> QED BY <1>1, <2>2
<1> QED BY <1>2, <1>4, <1>5 DEF Telling

\* An execution is refused as expired or as already executed only when the plan
\* is, or when its approval is past the deadline.
LEMMA ExecutionRefusal ==
    ASSUME NEW spec, NEW state, NEW facts, NEW now, NEW error,
           error = ExecutionError(spec, state, facts, now),
           ~(now >= spec.expires_at /\ state.status = "approved")
    PROVE  \/ error \notin Telling
           \/ error = "expired" /\ state.status = "expired"
           \/ error = "already_executed" /\ state.status = "executed"
<1> DEFINE checks == ExecutionChecks(spec, state, facts, now)
<1>1. DOMAIN checks = 1 .. 15 /\ FirstFailure(checks) = error
  BY DEF ExecutionChecks, ExecutionError
<1>2. /\ checks[1][1] <=> state.status = "executed"
      /\ checks[3][1] <=> state.status = "expired"
      /\ checks[4][1] <=> state.status # "approved"
      /\ checks[6][1] <=> now >= spec.expires_at
  BY Zenon DEF ExecutionChecks
<1>3. /\ checks[1][2] = "already_executed" /\ checks[3][2] = "expired"
      /\ \A i \in 1 .. 15 : i \in {1, 3, 6} \/ checks[i][2] \notin Telling
  BY DEF ExecutionChecks, Telling
<1> HIDE DEF checks
<1>4. CASE error = "ok"
  BY <1>4 DEF Telling
<1>5. ASSUME NEW k \in 1 .. 15, checks[k][1], error = checks[k][2],
             \A i \in 1 .. 15 : i < k => ~checks[i][1]
      PROVE  \/ error \notin Telling
             \/ error = "expired" /\ state.status = "expired"
             \/ error = "already_executed" /\ state.status = "executed"
  <2>1. k # 6
    <3> SUFFICES ASSUME k = 6 PROVE FALSE
      OBVIOUS
    <3>1. checks[6][1] /\ ~checks[4][1]
      BY <1>5
    <3> QED BY <1>2, <3>1
  <2> QED BY <1>2, <1>3, <1>5, <2>1
<1> QED BY <1>1, <1>4, <1>5, FirstFailureAmong

-----------------------------------------------------------------------------
\* The transactions that end in one statement, and the COMMITs.

\* A session the store found inactive, or a plan that is not the session's.
LEMMA PlanReply ==
    ASSUME TxInv, AnswersInv, [TxNext]_txVars, NEW r \in Requests, writer = r,
           OnPlan(request[r].op), PlanError(r) # "ok", Refuse(r, PlanError(r))
    PROVE  AnswersInv'
<1>1. Pending(r) /\ request[r].session \in Sessions
  BY WriterFacts DEF AnswersInv, AnswerInv, Named, OnPlan
<1>2. CASE LockError(r) # "ok"
  <2>1. PlanError(r) = "session_inactive" /\ ~LockActive(request[r].session, request[r].now)
    BY <1>2 DEF PlanError, LockError
  <2> QED BY <1>1, <2>1, InactiveReply DEF Replies
<1>3. CASE LockError(r) = "ok"
  <2>1. PlanError(r) = "not_found"
    BY <1>3 DEF PlanError
  <2> QED BY <2>1, QuietReply DEF Replies, Telling
<1> QED BY <1>2, <1>3

\* prepare_recovery: its writes, and the COMMITs whose answer claims nothing.
LEMMA PreparationKeeps ==
    ASSUME TxInv, AnswersInv, [TxNext]_txVars, NEW r \in Requests,
           InsertPlan(r) \/ CommitPlan(r) \/ CommitDiagnostic(r) \/ CommitCreation(r)
    PROVE  AnswersInv'
<1>1. writer = r
  BY DEF InsertPlan, CommitPlan, CommitDiagnostic, CommitCreation, Begun, At
<1>2. CASE InsertPlan(r)
  <2>1. Pending(r) /\ request[r].session \in Sessions
    BY <1>1, <1>2, WriterFacts DEF InsertPlan, Begun, AnswersInv, AnswerInv, Named
  <2>2. PICK target \in Releases, refs \in RefLists, reason \in Reasons :
          \/ /\ PreparationError(r, target, refs, reason) # "ok"
             /\ Refuse(r, PreparationError(r, target, refs, reason))
          \/ \E written : Write(r, "prepared", written)
    BY <1>2 DEF InsertPlan
  <2>3. PICK error : error = PreparationError(r, target, refs, reason)
    OBVIOUS
  <2>4. CASE error # "ok" /\ Refuse(r, error)
    <3>1. CASE error \notin Telling
      BY <2>4, <3>1, QuietReply DEF Replies
    <3>2. CASE error = "session_inactive" /\ ~LockActive(request[r].session, request[r].now)
      BY <2>1, <2>4, <3>2, InactiveReply DEF Replies
    <3> QED BY <2>3, <3>1, <3>2, PreparationRefusal
  <2>5. CASE \E written : Write(r, "prepared", written)
    <3>1. "prepared" \in LockedSteps /\ "prepared" \notin CreationSteps
      BY DEF LockedSteps, CreationSteps
    <3> QED BY <1>1, <2>5, <3>1, WritesOn
  <2> QED BY <2>2, <2>3, <2>4, <2>5
<1>3. CASE CommitPlan(r) \/ CommitDiagnostic(r) \/ CommitCreation(r)
  <2>1. AfterCommit(r, Answered(r, "ok"))
    BY <1>3 DEF CommitPlan, CommitDiagnostic, CommitCreation, Publish, Done
  <2>2. request[r].op \in {"prepare", "diagnostic", "create"}
    BY <1>1, <1>3, WriterFacts, OperationsAt
       DEF Formed, CommitPlan, CommitDiagnostic, CommitCreation, At, CreationSteps
  <2> QED BY <2>1, <2>2, QuietReply DEF Replies, Telling
<1> QED BY <1>2, <1>3

\* current_recovery and verify_recovery claim nothing.
LEMMA CurrentKeeps ==
    ASSUME TxInv, AnswersInv, [TxNext]_txVars, NEW r \in Requests, Current(r) \/ Verify(r)
    PROVE  AnswersInv'
<1>1. writer = r /\ request[r].op \in {"current", "verify"}
  BY DEF Current, Verify, Begun, At
<1>2. Pending(r) /\ request[r].session \in Sessions
  BY <1>1, WriterFacts DEF AnswersInv, AnswerInv, Named
<1>3. CASE AfterCommit(r, Answered(r, "ok"))
  BY <1>1, <1>3, QuietReply DEF Replies, Telling
<1>4. CASE LockError(r) # "ok" /\ Refuse(r, LockError(r))
  <2>1. LockError(r) = "session_inactive" /\ ~LockActive(request[r].session, request[r].now)
    BY <1>4 DEF LockError
  <2> QED BY <1>2, <1>4, <2>1, InactiveReply DEF Replies
<1>5. CASE Verify(r) /\ PlanError(r) # "ok" /\ Refuse(r, PlanError(r))
  BY <1>1, <1>5, PlanReply DEF Verify, Begun, OnPlan
<1>6. CASE Refuse(r, "not_executed")
  BY <1>6, QuietReply DEF Replies, Telling
<1> QED BY <1>3, <1>4, <1>5, <1>6 DEF Current, Verify, Done

\* A late decision or execution is answered with the expiry it commits.
LEMMA ExpiryKeeps ==
    ASSUME TxInv, AnswersInv, [TxNext]_txVars, NEW r \in Requests, writer = r,
           OnPlan(request[r].op), PlanError(r) = "ok", CommitExpiry(r)
    PROVE  AnswersInv'
<1>1. PICK op, s, p, now :
        op = request[r].op /\ s = request[r].session /\ p = request[r].plan /\ now = request[r].now
  OBVIOUS
<1>2. ExpireInstead(s, p, now) /\ AfterCommit(r, Answered(r, "expired"))
  BY <1>1 DEF CommitExpiry
<1>3. TypeOK /\ p \in Plans /\ plan[p].session = s
  BY <1>1, WriterFacts DEF AnswersInv, AnswerInv, Named, PlanError
<1>4. plan' = [plan EXCEPT ![p].state = Bare("expired")]
  BY <1>2 DEF ExpireInstead
<1>5. plan[p] \in PlanType /\ Bare("expired").status = "expired"
  BY <1>3 DEF TypeOK, Bare
<1>6. plan'[p].session = s /\ plan'[p].state.status = "expired"
  BY <1>3, <1>4, <1>5 DEF TypeOK, PlanType
<1>7. Settled(s, p, "expired")'
  BY <1>3, <1>6 DEF Settled, PlansOf, Status
<1>8. AnswerHolds(op, s, p, "expired")'
  BY <1>7 DEF AnswerHolds, Holds
<1> QED BY <1>1, <1>2, <1>8, ReplyStep DEF Replies

\* An approval leaves its event, a rejection its state.
LEMMA DecideKeeps ==
    ASSUME TxInv, AnswersInv, [TxNext]_txVars, AuditInv', NEW r \in Requests, Decide(r)
    PROVE  AnswersInv'
<1>1. writer = r /\ request[r].op \in {"approve", "reject"}
  BY DEF Decide, Begun, At
<1>2. OnPlan(request[r].op) /\ TypeOK
  BY <1>1, WriterFacts DEF OnPlan
<1>3. PICK op, s, p, now :
        op = request[r].op /\ s = request[r].session /\ p = request[r].plan /\ now = request[r].now
  OBVIOUS
<1>4. PICK decision \in {d \in Decisions : d.kind = op} :
        IF PlanError(r) # "ok" THEN Refuse(r, PlanError(r))
        ELSE IF Overdue(LoadedSpec(p), plan[p].state, now) THEN CommitExpiry(r)
        ELSE IF DecisionError(LoadedSpec(p), plan[p].state, decision, now) = "ok"
             THEN DecideRecovery(s, p, decision, now) /\ AfterCommit(r, Answered(r, "ok"))
             ELSE Refuse(r, DecisionError(LoadedSpec(p), plan[p].state, decision, now))
  BY <1>3 DEF Decide, Done
<1>5. CASE PlanError(r) # "ok" /\ Refuse(r, PlanError(r))
  BY <1>1, <1>2, <1>5, PlanReply
<1>6. CASE PlanError(r) = "ok" /\ CommitExpiry(r)
  BY <1>1, <1>2, <1>6, ExpiryKeeps
<1>7. CASE /\ ~Overdue(LoadedSpec(p), plan[p].state, now)
           /\ DecisionError(LoadedSpec(p), plan[p].state, decision, now) # "ok"
           /\ Refuse(r, DecisionError(LoadedSpec(p), plan[p].state, decision, now))
  <2>1. PICK error : error = DecisionError(LoadedSpec(p), plan[p].state, decision, now)
    OBVIOUS
  <2>2. error \notin Telling /\ error # "ok" /\ Refuse(r, error)
    BY <1>7, <2>1, DecisionRefusal
  <2> QED BY <2>2, QuietReply DEF Replies
<1>8. CASE /\ PlanError(r) = "ok"
           /\ DecisionError(LoadedSpec(p), plan[p].state, decision, now) = "ok"
           /\ DecideRecovery(s, p, decision, now) /\ AfterCommit(r, Answered(r, "ok"))
  <2>1. p \in Plans /\ plan[p].session = s /\ plan[p] \in PlanType
    BY <1>2, <1>3, <1>8 DEF AnswersInv, AnswerInv, Named, PlanError, TypeOK
  <2>2. /\ op \in {"approve", "reject"} /\ decision.kind = op
        /\ op = "approve" => plan[p].state.status \in {"prepared", "approved"}
    BY <1>1, <1>3, <1>8, DecisionOk
  <2> DEFINE next == DecidedState(LoadedSpec(p), plan[p].state, decision, now)
  <2>3. /\ op = "approve" => next.status = "approved"
        /\ op = "reject" => next.status = "rejected"
    <3>1. \A at, f : Approved(at, f).status = "approved"
      BY DEF Approved
    <3>2. Bare("rejected").status = "rejected"
      BY DEF Bare
    <3> QED BY <2>2, <3>1, <3>2 DEF DecidedState
  <2>4. plan' = [plan EXCEPT ![p].state = next]
    BY <1>8 DEF DecideRecovery
  <2> HIDE DEF next
  <2>5. plan'[p].session = s /\ plan'[p].state = next
    BY <1>2, <2>1, <2>4 DEF TypeOK, PlanType
  <2>6. op = "reject" => Settled(s, p, "rejected")'
    BY <2>1, <2>3, <2>5 DEF Settled, PlansOf, Status
  <2>7. ASSUME op = "approve"
        PROVE  \E e \in audit' : e.session = s /\ e.event = "human_approval" /\ e.subject = p
    <3>1. Trail(p)' /\ AuditIsOwned'
      BY <2>1 DEF AuditInv
    <3>2. Status(p)' = "approved"
      BY <2>3, <2>5, <2>7 DEF Status
    <3>3. PICK e \in audit' : e.event = "human_approval" /\ e.subject = p
      BY <3>1, <3>2 DEF Trail, Logged
    <3>4. plan'[p].session = e.session
      BY <2>1, <3>1, <3>3 DEF AuditIsOwned
    <3> QED BY <2>5, <3>3, <3>4
  <2>8. AnswerHolds(op, s, p, "ok")'
    BY <2>2, <2>6, <2>7 DEF AnswerHolds, Holds
  <2> QED BY <1>3, <1>8, <2>8, ReplyStep DEF Replies
<1> QED BY <1>4, <1>5, <1>6, <1>7, <1>8

\* A claim is refused for what the plan has become.
LEMMA ClaimKeeps ==
    ASSUME TxInv, AnswersInv, [TxNext]_txVars, NEW r \in Requests, Claim(r)
    PROVE  AnswersInv'
<1>1. writer = r /\ request[r].op = "execute"
  BY DEF Claim, Begun, At
<1>2. OnPlan(request[r].op)
  BY <1>1 DEF OnPlan
<1>3. PICK op, s, p, now :
        op = request[r].op /\ s = request[r].session /\ p = request[r].plan /\ now = request[r].now
  OBVIOUS
<1>4. PICK error :
        error = ExecutionError(LoadedSpec(p), plan[p].state, ExecutionFacts(s, p), now)
  OBVIOUS
<1>5. IF PlanError(r) # "ok" THEN Refuse(r, PlanError(r))
      ELSE IF LateExecution(p, now) THEN CommitExpiry(r)
      ELSE IF error # "ok" THEN Refuse(r, error)
      ELSE \E written : Write(r, "claimed", written)
  BY <1>3, <1>4 DEF Claim
<1>6. CASE PlanError(r) # "ok" /\ Refuse(r, PlanError(r))
  BY <1>1, <1>2, <1>6, PlanReply
<1>7. CASE PlanError(r) = "ok" /\ CommitExpiry(r)
  BY <1>1, <1>2, <1>7, ExpiryKeeps
<1>8. CASE /\ PlanError(r) = "ok" /\ ~LateExecution(p, now)
           /\ error # "ok" /\ Refuse(r, error)
  <2>1. p \in PlansOf(s)
    BY <1>2, <1>3, <1>8 DEF AnswersInv, AnswerInv, Named, PlanError, PlansOf
  <2>2. \/ error \notin Telling
        \/ error = "expired" /\ Status(p) = "expired"
        \/ error = "already_executed" /\ Status(p) = "executed"
    BY <1>4, <1>8, ExecutionRefusal DEF LateExecution, Status
  <2>3. CASE error \notin Telling
    BY <1>8, <2>3, QuietReply DEF Replies
  <2>4. CASE \/ error = "expired" /\ Status(p) = "expired"
             \/ error = "already_executed" /\ Status(p) = "executed"
    <3>1. AnswerHolds(op, s, p, error)
      BY <2>1, <2>4 DEF AnswerHolds, Holds, Settled
    <3> QED BY <1>3, <1>8, <3>1, ReplyStep DEF Replies
  <2> QED BY <2>2, <2>3, <2>4
<1>9. CASE \E written : Write(r, "claimed", written)
  <2>1. "claimed" \in LockedSteps /\ "claimed" \notin CreationSteps
    BY DEF LockedSteps, CreationSteps, ExecutionSteps
  <2> QED BY <1>1, <1>9, <2>1, WritesOn
<1> QED BY <1>5, <1>6, <1>7, <1>8, <1>9

\* The COMMIT of an execution leaves the plan executed.
LEMMA CommitExecutionKeeps ==
    ASSUME TxInv, AnswersInv, [TxNext]_txVars, NEW r \in Requests, CommitExecution(r)
    PROVE  AnswersInv'
<1>1. writer = r /\ request[r].at = "completed" /\ Publish(r, Answered(r, "ok"))
  BY DEF CommitExecution, At, Done
<1>2. request[r].op = "execute" /\ TypeOK
  BY <1>1, WriterFacts, OperationsAt DEF Formed, ExecutionSteps
<1>3. PICK s, p, d : \E now \in Instants :
        /\ s = request[r].session /\ p = request[r].plan
        /\ DraftIs("completed", s, p, d, now) /\ p \in Plans
  BY <1>1, <1>2, StatementFacts DEF OnPlan
<1>4. PICK now \in Instants : DraftIs("completed", s, p, d, now)
  BY <1>3
<1> DEFINE u == ExecutionTables(s, p, d, now, "completed")
           done == CompleteExecution(ClaimedState(plan[p].state), now)
<1>5. ExecuteGuards(s, p, now) /\ Matches(draft, u)
  BY <1>4 DEF DraftIs, ExecutionSteps
<1>6. u.plan = [plan EXCEPT ![p].state = done]
  BY DEF ExecutionTables
<1>7. done.status = "executed" /\ plan[p] \in PlanType /\ plan[p].session = s
  BY <1>2, <1>3, <1>5 DEF CompleteExecution, TypeOK, ExecuteGuards, Locked
<1> HIDE DEF u, done
<1>8. plan' = u.plan /\ AfterCommit(r, Answered(r, "ok"))
  BY <1>1, <1>5, PublishedTables
<1>9. plan'[p].session = s /\ plan'[p].state.status = "executed"
  BY <1>2, <1>3, <1>6, <1>7, <1>8 DEF TypeOK, PlanType
<1>10. Settled(s, p, "executed")'
  BY <1>3, <1>9 DEF Settled, PlansOf, Status
<1>11. AnswerHolds("execute", s, p, "ok")'
  BY <1>10 DEF AnswerHolds, Holds
<1> QED BY <1>2, <1>3, <1>8, <1>11, ReplyStep DEF Replies

\* The COMMIT of a reset leaves the original revoked and the replacement live.
LEMMA CommitResetKeeps ==
    ASSUME TxInv, AnswersInv, [TxNext]_txVars, NEW r \in Requests, CommitReset(r)
    PROVE  AnswersInv'
<1> DEFINE next == [request[r] EXCEPT !.at = "session"]
<1>1. writer = r /\ request[r].at = "revoked" /\ Publish(r, next)
  BY DEF CommitReset, At
<1>2. /\ request[r].op = "reset" /\ Pending(r) /\ DOMAIN request[r] = Fields
      /\ AnswerInv(r) /\ Reserves(r)
  BY <1>1, WriterFacts, OperationsAt DEF Formed, ResetSteps, AnswersInv, Reserves
<1>3. /\ DOMAIN next = Fields /\ next.at = "session" /\ next.op = "reset"
      /\ next.session = request[r].session /\ next.plan = request[r].plan
      /\ next.fresh = request[r].fresh /\ next.now = request[r].now
      /\ next.seen = request[r].seen
  BY <1>2 DEF Fields
<1> HIDE DEF next
<1>4. OthersSilent(r) /\ request'[r] = next
  BY <1>1, CommittedSilent DEF Publish
<1>5. PICK s \in Sessions : s = request[r].session
  BY <1>2 DEF AnswerInv, Named
<1>6. s # request[r].fresh
  BY <1>2, <1>5 DEF AnswersInv, FreshIsUnnamed
<1>7. /\ session'[s].status = "revoked" /\ request[r].fresh \in Sessions
      /\ session'[request[r].fresh] = LiveSession(request[r].now)
  BY <1>5, <1>6, ResetAges
<1>8. Named(r)'
  BY <1>2, <1>3, <1>4, <1>5 DEF AnswerInv, Named, OnPlan
<1>9. KnowsSession(r)'
  BY <1>3, <1>4, <1>5, <1>7 DEF KnowsSession, LiveSince
<1>10. ReadsReplacement(r)'
  BY <1>3, <1>4, <1>5, <1>7 DEF ReadsReplacement, LiveSession
<1>11. ReadsDeadline(r)' /\ SeesOneStory(r)' /\ CookieIsGone(r)' /\ AnswerIsTrue(r)'
  BY <1>3, <1>4 DEF ReadsDeadline, SeesOneStory, CookieIsGone, AnswerIsTrue, CreationSteps
<1>12. Carries(r)
  BY <1>2, <1>3, <1>4 DEF Carries
<1> QED BY <1>4, <1>8, <1>9, <1>10, <1>11, <1>12, ActorStep DEF AnswerInv

-----------------------------------------------------------------------------
\* The queries of load_snapshot.

\* A row that has recovered is a sign that all of them have.
LEMMA RowsAgree ==
    ASSUME RecoveredTogether, NEW s \in Sessions
    PROVE  /\ RowSeen(s, "service") = "after" => Recovered(s)
           /\ RowSeen(s, "incident") = "after" => Recovered(s)
           /\ Recovered(s) => /\ RowSeen(s, "incident") \in {"after", "missing"}
                              /\ RowSeen(s, "telemetry") \in {"after", "missing"}
<1>1. CASE session[s].status = "absent"
  BY <1>1 DEF RowSeen, Recovered
<1>2. CASE session[s].status # "absent"
  <2>1. RecoveredAlone(s)
    BY RecoveredTogetherAlone
  <2>2. /\ SeededProduction.health # "healthy" /\ SeededProduction.incident # "resolved"
    BY DEF SeededProduction
  <2>3. Recovered(s) <=> ExecutedPlans(s) # {}
    BY <1>2 DEF Recovered, Settled, PlansOf, ExecutedPlans
  <2>4. CASE ExecutedPlans(s) = {} /\ Untouched(s)
    <3>1. RowSeen(s, "service") = "before" /\ RowSeen(s, "incident") = "before"
      BY <1>2, <2>2, <2>4 DEF RowSeen, Untouched
    <3> QED BY <2>3, <2>4, <3>1
  <2>5. ASSUME NEW p \in Plans, NEW e \in executions, AfterState(s, p, e)
        PROVE  /\ Recovered(s)
               /\ RowSeen(s, "incident") = "after" /\ RowSeen(s, "telemetry") = "after"
    <3>1. /\ production[s].incident = "resolved" /\ ExecutedPlans(s) # {}
          /\ e \in ExecutionRows(s)
      BY <2>5 DEF AfterState
    <3>2. \E x \in executions : x.session = s
      BY <3>1 DEF ExecutionRows
    <3> QED BY <1>2, <2>3, <3>1, <3>2 DEF RowSeen
  <2> QED BY <2>1, <2>4, <2>5 DEF RecoveredAlone
<1> QED BY <1>1, <1>2

\* A query that leads to the next one.
LEMMA QueriesOn ==
    ASSUME TxInv, AnswersInv, [TxNext]_txVars, NEW r \in Requests,
           request[r].at \in ReadSteps \cup {"check"}, NEW next, Advance(r, next),
           DOMAIN next = Fields, next.op = request[r].op, next.session = request[r].session,
           next.plan = request[r].plan, next.fresh = request[r].fresh,
           next.now = request[r].now, next.at \in ReadSteps,
           DOMAIN next.seen = DOMAIN NotSeen,
           next.at # "session" /\ session[Shown(r)].status = "live"
             => next.deadline = SessionExpiry(Shown(r)),
           next.at = "incident" /\ next.seen.service = "after" => Recovered(Shown(r)),
           next.at = "telemetry" => /\ next.seen.service = "after"
                                         => next.seen.incident \in {"after", "missing"}
                                    /\ next.seen.incident = "after" => Recovered(Shown(r))
    PROVE  AnswersInv'
<1>1. OthersSilent(r) /\ request'[r] = next
  BY ReplacedSilent DEF Advance, TxInv
<1>2. /\ AnswerInv(r) /\ Pending(r) /\ next.at \notin {"idle", "answered", "lock"}
      /\ next.at \notin CreationSteps
  BY DEF AnswersInv, Pending, ReadSteps, CreationSteps
<1>3. /\ session' = session /\ plan' = plan /\ Shown(r)' = Shown(r)
  BY <1>1 DEF Advance, storeVars, tables, Shown
<1>4. request[r].at \in ReadSteps \/ request[r].op = "incident"
  BY OperationsAt DEF TxInv, RequestInv, Formed
<1>5. request[r].session \in Sessions
  BY <1>2, <1>4 DEF AnswerInv, Named
<1>6. Named(r)'
  BY <1>1, <1>2, <1>5 DEF AnswerInv, Named
<1>7. KnowsSession(r)'
  BY <1>1, <1>2, <1>3 DEF AnswerInv, KnowsSession, LiveSince
<1>8. ReadsReplacement(r)'
  BY <1>1, <1>2, <1>3, <1>4 DEF AnswerInv, ReadsReplacement
<1>9. ReadsDeadline(r)'
  BY <1>1, <1>3 DEF ReadsDeadline, SessionExpiry
<1>10. SeesOneStory(r)'
  <2>1. PICK s : s = Shown(r)
    OBVIOUS
  <2>2. Recovered(s)' <=> Recovered(s)
    BY <1>3 DEF Recovered, Settled, PlansOf, Status
  <2> QED BY <1>1, <1>2, <1>3, <2>1, <2>2 DEF SeesOneStory
<1>11. CookieIsGone(r)' /\ AnswerIsTrue(r)'
  BY <1>1, <1>2 DEF CookieIsGone, AnswerIsTrue
<1>12. Carries(r)
  BY <1>1, <1>2 DEF Carries, Reserves
<1> QED BY <1>1, <1>6, <1>7, <1>8, <1>9, <1>10, <1>11, <1>12, ActorStep DEF AnswerInv

\* A handler that finds the session gone says so, or creates another one.
LEMMA WithoutSessionKeeps ==
    ASSUME TxInv, AnswersInv, [TxNext]_txVars, NEW r \in Requests,
           request[r].at \in ReadSteps, request[r].op # "reset", Gone(request[r].session),
           WithoutSession(r)
    PROVE  AnswersInv'
<1>1. /\ AnswerInv(r) /\ Pending(r) /\ DOMAIN request[r] = Fields
      /\ request[r].session \in Sessions
  BY DEF AnswersInv, AnswerInv, Named, Pending, ReadSteps, TxInv, RequestInv, Formed
<1>2. CASE request[r].op = "create"
  <2> DEFINE next == [request[r] EXCEPT !.at = "lock", !.now = clock, !.seen = NotSeen]
  <2>1. Advance(r, next)
    BY <1>2 DEF WithoutSession
  <2>2. /\ DOMAIN next = Fields /\ next.op = "create" /\ next.session = request[r].session
        /\ next.plan = request[r].plan /\ next.fresh = request[r].fresh
        /\ next.now = clock /\ next.at = "lock" /\ next.seen = NotSeen
    BY <1>1, <1>2 DEF Fields
  <2> HIDE DEF next
  <2>3. OthersSilent(r) /\ request'[r] = next /\ session' = session /\ clock' = clock
    BY <2>1, ReplacedSilent DEF Advance, TxInv, storeVars, tables
  <2>4. Named(r)'
    BY <1>1, <2>2, <2>3 DEF Named, OnPlan
  <2>5. KnowsSession(r)'
    BY <1>1, <2>2, <2>3 DEF KnowsSession, AnswersInv, SessionsAreCommitted, LiveSince
  <2>6. ReadsReplacement(r)' /\ ReadsDeadline(r)' /\ SeesOneStory(r)' /\ AnswerIsTrue(r)'
    BY <2>2, <2>3 DEF ReadsReplacement, ReadsDeadline, SeesOneStory, AnswerIsTrue
  <2>7. CookieIsGone(r)'
    BY <2>2, <2>3 DEF CookieIsGone, Gone, SessionExpiry
  <2>8. Carries(r)
    BY <1>1, <1>2, <2>2, <2>3 DEF Carries, Reserves
  <2> QED BY <2>3, <2>4, <2>5, <2>6, <2>7, <2>8, ActorStep DEF AnswerInv
<1>3. CASE request[r].op # "create"
  <2>1. AnswerHolds(request[r].op, request[r].session, request[r].plan, "session_not_found")
    BY DEF AnswerHolds, Holds
  <2> QED BY <1>3, <2>1, ReplyStep DEF WithoutSession, Replies
<1> QED BY <1>2, <1>3

\* What is known of a handler that reads.
LEMMA ReaderFacts ==
    ASSUME TxInv, AnswersInv, NEW r \in Requests, request[r].at \in ReadSteps
    PROVE  /\ TypeOK /\ RecoveredTogether /\ AnswerInv(r)
           /\ Pending(r) /\ DOMAIN request[r] = Fields
           /\ request[r].session \in Sessions /\ Shown(r) \in Sessions
           /\ request[r].op = "reset" => /\ session[Shown(r)].status = "live"
                                         /\ session[request[r].session].status # "live"
           /\ request[r].op # "reset" => Shown(r) = request[r].session
<1>1. /\ TypeOK /\ RecoveredTogether /\ AnswerInv(r) /\ Pending(r) /\ DOMAIN request[r] = Fields
  BY DEF TxInv, TablesInv, LifecycleInv, RecoveryInv, RequestInv, Formed, AnswersInv, Pending,
         ReadSteps
<1>2. request[r].session \in Sessions
  BY <1>1 DEF AnswerInv, Named
<1>3. request[r].op # "reset" => Shown(r) = request[r].session
  BY DEF Shown
<1>4. request[r].op = "reset" => /\ Shown(r) \in Sessions
                                 /\ session[Shown(r)].status = "live"
                                 /\ session[request[r].session].status # "live"
  BY <1>1 DEF AnswerInv, ReadsReplacement, Shown
<1> QED BY <1>1, <1>2, <1>3, <1>4

\* active_session, before the incident is read.
LEMMA CheckKeeps ==
    ASSUME TxInv, AnswersInv, [TxNext]_txVars, NEW r \in Requests, CheckActive(r)
    PROVE  AnswersInv'
<1>1. /\ request[r].at = "check" /\ request[r].op = "incident" /\ Formed(r) /\ TypeOK
      /\ AnswerInv(r) /\ DOMAIN request[r] = Fields
  BY OperationsAt DEF CheckActive, TxInv, TablesInv, LifecycleInv, RecoveryInv, RequestInv,
                      Formed, AnswersInv
<1>2. PICK s \in Sessions : s = request[r].session
  BY <1>1 DEF AnswerInv, Named
<1>3. CASE Advance(r, [request[r] EXCEPT !.at = "session"])
  <2> DEFINE next == [request[r] EXCEPT !.at = "session"]
  <2>1. /\ DOMAIN next = Fields /\ next.op = request[r].op /\ next.session = request[r].session
        /\ next.plan = request[r].plan /\ next.fresh = request[r].fresh
        /\ next.now = request[r].now /\ next.at = "session" /\ next.seen = request[r].seen
    BY <1>1 DEF Fields
  <2>2. Advance(r, next)
    BY <1>3
  <2> HIDE DEF next
  <2>3. DOMAIN next.seen = DOMAIN NotSeen
    BY <1>1, <2>1 DEF AnswerInv, Named
  <2> QED BY <1>1, <2>1, <2>2, <2>3, QueriesOn DEF ReadSteps
<1>4. CASE /\ ~(session[s].status = "live" /\ SessionExpiry(s) > request[r].now)
           /\ Answer(r, "session_not_found")
  <2>1. /\ request[r].now \in Nat /\ request[r].now <= clock /\ clock \in Nat
        /\ SessionExpiry(s) \in Nat
    BY <1>1, StoreAssumption DEF Formed, Pending, TypeOK, SessionType, SessionExpiry
  <2>2. Gone(s)
    BY <1>4, <2>1 DEF Gone
  <2>3. AnswerHolds("incident", s, request[r].plan, "session_not_found")
    BY <2>2 DEF AnswerHolds, Holds
  <2> QED BY <1>1, <1>2, <1>4, <2>3, ReplyStep DEF Replies
<1> QED BY <1>2, <1>3, <1>4 DEF CheckActive

\* The query of the session.
LEMMA ReadSessionKeeps ==
    ASSUME TxInv, AnswersInv, [TxNext]_txVars, NEW r \in Requests, ReadSession(r)
    PROVE  AnswersInv'
<1>1. request[r].at = "session" /\ request[r].at \in ReadSteps
  BY DEF ReadSession, ReadSteps
<1>2. CASE session[Shown(r)].status = "live"
  <2> DEFINE next == [request[r] EXCEPT !.at = "service", !.deadline = SessionExpiry(Shown(r))]
  <2>1. Advance(r, next)
    BY <1>2 DEF ReadSession, NextRead
  <2>2. /\ DOMAIN next = Fields /\ next.op = request[r].op /\ next.session = request[r].session
        /\ next.plan = request[r].plan /\ next.fresh = request[r].fresh
        /\ next.now = request[r].now /\ next.at = "service"
        /\ next.deadline = SessionExpiry(Shown(r)) /\ next.seen = request[r].seen
    BY <1>1, ReaderFacts DEF Fields
  <2> HIDE DEF next
  <2>3. DOMAIN next.seen = DOMAIN NotSeen /\ next.at \in ReadSteps
    BY <1>1, <2>2, ReaderFacts DEF AnswerInv, Named, ReadSteps
  <2> QED BY <1>1, <2>1, <2>2, <2>3, QueriesOn
<1>3. CASE session[Shown(r)].status # "live"
  <2>1. request[r].op # "reset" /\ Gone(request[r].session) /\ WithoutSession(r)
    BY <1>1, <1>3, ReaderFacts DEF ReadSession, Gone
  <2> QED BY <1>1, <2>1, WithoutSessionKeeps
<1> QED BY <1>2, <1>3

\* The queries of the tables, and the answer they make up.
LEMMA ReadRowKeeps ==
    ASSUME TxInv, AnswersInv, [TxNext]_txVars, NEW r \in Requests, ReadRow(r)
    PROVE  AnswersInv'
<1>1. request[r].at \in {"service", "incident", "telemetry"} /\ request[r].at \in ReadSteps
  BY DEF ReadRow, NotSeen, ReadSteps
<1>2. PICK s \in Sessions : s = Shown(r)
  BY <1>1, ReaderFacts
<1> DEFINE at == request[r].at
           seen == [request[r].seen EXCEPT ![at] = RowSeen(s, at)]
<1>3. /\ DOMAIN request[r].seen = DOMAIN NotSeen /\ SeesOneStory(r) /\ ReadsDeadline(r)
      /\ TypeOK /\ Pending(r)
  BY <1>1, ReaderFacts DEF AnswerInv, Named
<1>4. /\ DOMAIN NotSeen = {"service", "incident", "telemetry"}
      /\ DOMAIN seen = DOMAIN NotSeen /\ seen[at] = RowSeen(s, at)
      /\ at # "service" => seen.service = request[r].seen.service
      /\ at # "incident" => seen.incident = request[r].seen.incident
      /\ at = "service" => seen.service = RowSeen(s, "service")
      /\ at = "incident" => seen.incident = RowSeen(s, "incident")
      /\ at = "telemetry" => seen.telemetry = RowSeen(s, "telemetry")
  BY <1>1, <1>3 DEF NotSeen
<1>5. /\ RowSeen(s, "service") = "after" => Recovered(s)
      /\ RowSeen(s, "incident") = "after" => Recovered(s)
      /\ Recovered(s) => /\ RowSeen(s, "incident") \in {"after", "missing"}
                         /\ RowSeen(s, "telemetry") \in {"after", "missing"}
  BY <1>1, ReaderFacts, RowsAgree
<1>6. /\ at = "service" /\ seen.service = "after" => Recovered(s)
      /\ at \in {"incident", "telemetry"} /\ seen.service = "after"
           => seen.incident \in {"after", "missing"}
      /\ at = "incident" /\ seen.incident = "after" => Recovered(s)
      /\ at = "telemetry" /\ seen.incident = "after" => seen.telemetry \in {"after", "missing"}
  BY <1>1, <1>2, <1>3, <1>4, <1>5 DEF SeesOneStory
<1>7. \/ /\ session[s].status = "absent" /\ Answer(r, "row_missing")
      \/ at = "telemetry" /\ FinishSnapshot(r, seen)
      \/ at = "service" /\ Advance(r, [request[r] EXCEPT !.at = "incident", !.seen = seen])
      \/ at = "incident" /\ Advance(r, [request[r] EXCEPT !.at = "telemetry", !.seen = seen])
  BY <1>1, <1>2 DEF ReadRow, NextRead
<1> HIDE DEF at, seen
<1>8. CASE session[s].status = "absent" /\ Answer(r, "row_missing")
  <2>1. request[r].op # "reset" /\ s = request[r].session
    BY <1>1, <1>2, <1>8, ReaderFacts
  <2>2. AnswerHolds(request[r].op, s, request[r].plan, "row_missing")
    BY <1>8, <2>1 DEF AnswerHolds
  <2> QED BY <1>8, <2>1, <2>2, ReplyStep DEF Replies
<1>9. ASSUME NEW step \in {"incident", "telemetry"},
             step = "incident" => at = "service", step = "telemetry" => at = "incident",
             Advance(r, [request[r] EXCEPT !.at = step, !.seen = seen])
      PROVE  AnswersInv'
  <2> DEFINE next == [request[r] EXCEPT !.at = step, !.seen = seen]
  <2>1. /\ DOMAIN next = Fields /\ next.op = request[r].op /\ next.session = request[r].session
        /\ next.plan = request[r].plan /\ next.fresh = request[r].fresh
        /\ next.now = request[r].now /\ next.at = step
        /\ next.deadline = request[r].deadline /\ next.seen = seen
    BY <1>1, ReaderFacts DEF Fields
  <2>2. Advance(r, next)
    BY <1>9
  <2> HIDE DEF next
  <2>3. session[Shown(r)].status = "live" => next.deadline = SessionExpiry(Shown(r))
    BY <1>1, <1>3, <2>1 DEF ReadsDeadline
  <2>4. next.at \in ReadSteps /\ DOMAIN next.seen = DOMAIN NotSeen
    BY <1>4, <2>1 DEF ReadSteps
  <2>5. next.at = "incident" /\ next.seen.service = "after" => Recovered(Shown(r))
    BY <1>2, <1>6, <1>9, <2>1
  <2>6. next.at = "telemetry" => /\ next.seen.service = "after"
                                      => next.seen.incident \in {"after", "missing"}
                                 /\ next.seen.incident = "after" => Recovered(Shown(r))
    BY <1>2, <1>6, <1>9, <2>1
  <2> QED BY <1>1, <2>1, <2>2, <2>3, <2>4, <2>5, <2>6, QueriesOn
<1>10. CASE at = "telemetry" /\ FinishSnapshot(r, seen)
  <2>1. CASE request[r].op # "reset" /\ Lapsed(r) /\ WithoutSession(r)
    <3>1. s = request[r].session
      BY <1>1, <1>2, <2>1, ReaderFacts
    <3>2. session[s].status = "live" => request[r].deadline = SessionExpiry(s)
      BY <1>1, <1>2, <1>3 DEF ReadsDeadline
    <3>3. Gone(s)
      BY <2>1, <3>2 DEF Lapsed, Gone
    <3> QED BY <1>1, <2>1, <3>1, <3>3, WithoutSessionKeeps
  <2>2. CASE Advance(r, [Answered(r, "ok") EXCEPT !.seen = seen])
    <3>1. PICK op, t, p : op = request[r].op /\ t = request[r].session /\ p = request[r].plan
      OBVIOUS
    <3> DEFINE next == [Answered(r, "ok") EXCEPT !.seen = seen]
    <3>2. /\ next.at = "answered" /\ next.op = op /\ next.session = t /\ next.plan = p
          /\ next.answer = "ok" /\ next.seen = seen
      BY <3>1 DEF Answered, Idle
    <3>3. Advance(r, next)
      BY <2>2
    <3> HIDE DEF next
    <3>4. OthersSilent(r) /\ request'[r] = next
      BY <3>3, ReplacedSilent DEF Advance, TxInv
    <3>5. op \in {"create", "incident", "reset"} /\ t \in Sessions
      BY <1>1, <3>1, ReaderFacts, OperationsAt DEF TxInv, RequestInv, Formed
    <3>6. op = "reset" => session[t].status \in {"absent", "revoked"}
      BY <1>1, <1>3, <3>1, <3>5, ReaderFacts DEF TypeOK, SessionType
    <3>7. AnswerHolds(op, t, p, "ok")
      BY <3>5, <3>6 DEF AnswerHolds, Holds
    <3> QED BY <1>4, <1>6, <1>10, <3>1, <3>2, <3>4, <3>7, EndsStep
  <2> QED BY <1>10, <2>1, <2>2 DEF FinishSnapshot
<1> QED BY <1>7, <1>8, <1>9, <1>10

\* The diagnostic's first read.
LEMMA OpenKeeps ==
    ASSUME TxInv, AnswersInv, [TxNext]_txVars, NEW r \in Requests, OpenDiagnostic(r)
    PROVE  AnswersInv'
<1>1. /\ request[r].at = "open" /\ request[r].op = "diagnostic" /\ Pending(r)
      /\ AnswerInv(r) /\ DOMAIN request[r] = Fields
  BY DEF TxInv, RequestInv, Formed, OpenDiagnostic, OpsAt, Pending, ReadSteps,
         ExecutionSteps, ResetSteps, CreationSteps, AnswersInv
<1>2. request[r].session \in Sessions
  BY <1>1 DEF AnswerInv, Named
<1>3. CASE LockActive(request[r].session, request[r].now)
  <2> DEFINE next == [request[r] EXCEPT !.at = "upgrade",
                                        !.release = production[request[r].session].release]
  <2>1. Advance(r, next)
    BY <1>3 DEF OpenDiagnostic
  <2>2. /\ DOMAIN next = Fields /\ next.op = request[r].op /\ next.session = request[r].session
        /\ next.plan = request[r].plan /\ next.now = request[r].now /\ next.at = "upgrade"
        /\ next.seen = request[r].seen
    BY <1>1 DEF Fields
  <2> HIDE DEF next
  <2>3. OthersSilent(r) /\ request'[r] = next /\ session' = session
    BY <2>1, ReplacedSilent DEF Advance, TxInv, storeVars, tables
  <2>4. Named(r)'
    BY <1>1, <2>2, <2>3 DEF AnswerInv, Named, ReadSteps
  <2>5. KnowsSession(r)'
    BY <1>1, <2>2, <2>3 DEF AnswerInv, KnowsSession, LiveSince
  <2>6. /\ ReadsReplacement(r)' /\ ReadsDeadline(r)' /\ SeesOneStory(r)' /\ AnswerIsTrue(r)'
        /\ CookieIsGone(r)'
    BY <1>1, <2>2, <2>3 DEF ReadsReplacement, ReadsDeadline, SeesOneStory, AnswerIsTrue,
                            CookieIsGone, ReadSteps
  <2>7. Carries(r)
    BY <1>1, <2>2, <2>3 DEF Carries, Reserves
  <2> QED BY <2>3, <2>4, <2>5, <2>6, <2>7, ActorStep DEF AnswerInv
<1>4. CASE ~LockActive(request[r].session, request[r].now)
  BY <1>1, <1>2, <1>4, InactiveReply DEF OpenDiagnostic, Replies
<1> QED BY <1>3, <1>4

-----------------------------------------------------------------------------
\* The steps that are no handler's.

\* A request that is no longer in progress names nothing and reserves nothing.
LEMMA IdleKeeps ==
    ASSUME NEW q \in Requests, request'[q] = Idle
    PROVE  Carries(q) /\ AnswerInv(q)'
<1>1. /\ Idle.op = "none" /\ Idle.at = "idle" /\ Idle.session = NoSession /\ Idle.seen = NotSeen
  BY DEF Idle
<1>2. ~Pending(q)'
  BY <1>1 DEF Pending
<1>3. Named(q)'
  BY <1>1 DEF Named, OnPlan, ReadSteps
<1>4. /\ KnowsSession(q)' /\ ReadsReplacement(q)' /\ ReadsDeadline(q)' /\ SeesOneStory(q)'
      /\ CookieIsGone(q)' /\ AnswerIsTrue(q)'
  BY <1>1, <1>2 DEF KnowsSession, ReadsReplacement, ReadsDeadline, SeesOneStory, CookieIsGone,
                    AnswerIsTrue
<1> QED BY <1>1, <1>2, <1>3, <1>4 DEF AnswerInv, Carries, Reserves

\* A request that arrives names a session its client was told of, and reserves
\* one that nobody names.
LEMMA ArriveKeeps ==
    ASSUME TxInv, AnswersInv, [TxNext]_txVars, NEW r \in Requests, NEW op \in Operations,
           NEW s \in Sessions \cup {NoSession}, NEW p \in Plans \cup {NoPlan}, Arrive(r, op, s, p)
    PROVE  AnswersInv'
<1> DEFINE id == CHOOSE x \in MintedIds(op) : TRUE
           next == [Idle EXCEPT !.op = op, !.at = FirstStep(op, s), !.session = s, !.plan = p,
                                !.now = clock, !.fresh = id]
<1>1. /\ request' = [request EXCEPT ![r] = next] /\ UNCHANGED storeVars
  BY DEF Arrive
<1>2. id \in MintedIds(op)
  BY DEF Arrive
<1> HIDE DEF id
<1>3. /\ DOMAIN next = Fields /\ next.op = op /\ next.at = FirstStep(op, s)
      /\ next.session = s /\ next.plan = p /\ next.now = clock /\ next.fresh = id
      /\ next.seen = NotSeen
  BY DEF Idle, Fields
<1> HIDE DEF next
<1>4. /\ FirstStep(op, s) \in {"session", "check", "open", "lock"}
      /\ FirstStep(op, s) = "session" => s # NoSession
      /\ op = "create" /\ s # NoSession => FirstStep(op, s) = "session"
      /\ op = "reset" => FirstStep(op, s) = "lock"
  BY DEF FirstStep
<1>5. OthersSilent(r) /\ request'[r] = next
  BY <1>1, ReplacedSilent DEF TxInv
<1>6. session' = session /\ clock' = clock
  BY <1>1 DEF storeVars, tables
<1>7. /\ s = NoSession => op = "create"
      /\ s # NoSession => /\ session[s].status # "absent"
                          /\ \A q \in Requests : Pending(q) => request[q].fresh # s
      /\ OnPlan(op) => p \in Plans
  BY DEF Arrive, PlansOf
<1>8. op \in {"create", "reset"} => id \in Sessions /\ session[id].status = "absent" /\ ~InUse(id)
  BY <1>2 DEF MintedIds
<1>9. AnswerInv(r)'
  <2>1. Named(r)'
    BY <1>3, <1>4, <1>5, <1>7 DEF Named, ReadSteps
  <2>2. KnowsSession(r)'
    BY <1>3, <1>5, <1>6 DEF KnowsSession, AnswersInv, SessionsAreCommitted, LiveSince
  <2>3. ReadsReplacement(r)' /\ ReadsDeadline(r)' /\ SeesOneStory(r)' /\ AnswerIsTrue(r)'
    BY <1>3, <1>4, <1>5 DEF ReadsReplacement, ReadsDeadline, SeesOneStory, AnswerIsTrue, ReadSteps
  <2>4. CookieIsGone(r)'
    BY <1>3, <1>4, <1>5 DEF CookieIsGone, CreationSteps
  <2> QED BY <2>1, <2>2, <2>3, <2>4 DEF AnswerInv
<1>10. \A q \in Requests \ {r} : Carries(q) /\ AnswerInv(q)'
  <2>1. TxInv'
    BY TxSteps DEF StoreStep
  <2> QED BY <1>5, <2>1, SilentCarries, SilentStays DEF OthersSilent
<1>11. ASSUME NEW q \in Requests, NEW x \in Requests, Reserves(x)'
       PROVE  request'[q].session # request'[x].fresh
  <2>1. CASE x = r
    <3>1. id \in Sessions /\ session[id].status = "absent" /\ ~InUse(id)
          /\ request'[x].fresh = id
      BY <1>3, <1>5, <1>8, <1>11, <2>1 DEF Reserves
    <3>2. CASE q = r
      BY <1>3, <1>5, <1>7, <3>1, <3>2, StoreAssumption
    <3>3. CASE q # r
      <4>1. request[q].session # id
        BY <3>1 DEF InUse
      <4>2. request'[q].session = request[q].session
        BY <1>5, <3>3 DEF OthersSilent, Silent, Waits, Keeps
      <4> QED BY <3>1, <4>1, <4>2
    <3> QED BY <3>2, <3>3
  <2>2. CASE x # r
    <3>1. Reserves(x) /\ request'[x].fresh = request[x].fresh
      BY <1>10, <1>11, <2>2 DEF Carries
    <3>2. request[x].fresh \in Sessions
      BY <3>1, FreshIsSession DEF AnswersInv, AnswerInv
    <3>3. CASE q = r
      BY <1>3, <1>5, <1>7, <3>1, <3>2, <3>3, StoreAssumption DEF Reserves
    <3>4. CASE q # r
      <4>1. request[q].session # request[x].fresh
        BY <3>1 DEF AnswersInv, FreshIsUnnamed
      <4> QED BY <1>10, <3>1, <3>2, <3>4, <4>1, StoreAssumption DEF Carries
    <3> QED BY <3>3, <3>4
  <2> QED BY <2>1, <2>2
<1>12. (\A q, x \in Requests : FreshIsUnnamed(q, x))'
  BY <1>11 DEF FreshIsUnnamed
<1>13. SessionsAreCommitted'
  BY <1>6 DEF AnswersInv, SessionsAreCommitted, LiveSince
<1> QED BY <1>9, <1>10, <1>12, <1>13 DEF AnswersInv

\* The client receives the answer, or the process stops.
LEMMA EndKeeps ==
    ASSUME TxInv, AnswersInv, [TxNext]_txVars, Crash \/ \E r \in Requests : Receive(r)
    PROVE  AnswersInv'
<1>1. CASE Crash
  <2>1. \A q \in Requests : request'[q] = Idle
    BY <1>1 DEF Crash
  <2> QED BY <2>1, IdleKeeps, AllCarry
<1>2. ASSUME NEW r \in Requests, Receive(r)
      PROVE  AnswersInv'
  <2>1. OthersSilent(r) /\ request'[r] = Idle
    BY <1>2, ReplacedSilent DEF Receive, Advance, TxInv
  <2> QED BY <2>1, IdleKeeps, ActorStep
<1> QED BY <1>1, <1>2

\* While no request moves, time may pass.
LEMMA WaitKeeps ==
    ASSUME TxInv, AnswersInv, [TxNext]_txVars, UNCHANGED request
    PROVE  AnswersInv'
<1>1. ASSUME NEW q \in Requests PROVE Silent(q)
  <2>1. DOMAIN request[q] = Fields
    BY DEF TxInv, RequestInv, Formed
  <2> QED BY <2>1 DEF Silent, Waits, Keeps
<1>2. TxInv'
  BY TxSteps DEF StoreStep
<1> QED BY <1>1, <1>2, SilentCarries, SilentStays, AllCarry

\* Every step of a handler keeps what is said of the requests.
LEMMA HandlerKeeps ==
    ASSUME TxInv, AnswersInv, [TxNext]_txVars, AuditInv', NEW r \in Requests, Step(r)
    PROVE  AnswersInv'
BY CheckKeeps, ReadSessionKeeps, ReadRowKeeps, LocksKeep, TimeOutKeeps, PreparationKeeps,
   CurrentKeeps, DecideKeeps, ClaimKeeps, ExecutionKeeps, CommitExecutionKeeps, ResetKeeps,
   CommitResetKeeps, CreationKeeps, OpenKeeps, Zenon DEF Step

\* Every step keeps the invariant.
LEMMA AnswersStep == TxInv /\ AnswersInv /\ AuditInv' /\ [TxNext]_txVars => AnswersInv'
<1> SUFFICES ASSUME TxInv, AnswersInv, AuditInv', [TxNext]_txVars PROVE AnswersInv'
  OBVIOUS
<1>1. CASE Elapse \/ UNCHANGED txVars
  BY <1>1, WaitKeeps DEF Elapse, txVars
<1> QED BY <1>1, ArriveKeeps, HandlerKeeps, EndKeeps, Zenon DEF TxNext

\* No request has begun and no session exists: the invariant holds at first.
LEMMA AnswersInitially == TxInit => AnswersInv
<1> SUFFICES ASSUME TxInit PROVE AnswersInv
  OBVIOUS
<1>1. SessionsAreCommitted
  BY DEF TxInit, Init, AbsentSession, SessionsAreCommitted, LiveSince
<1>2. ASSUME NEW q \in Requests PROVE AnswerInv(q) /\ ~Reserves(q)
  <2>1. request[q] = Idle
    BY DEF TxInit
  <2>2. /\ Idle.op = "none" /\ Idle.at = "idle" /\ Idle.session = NoSession /\ Idle.seen = NotSeen
    BY DEF Idle
  <2>3. ~Pending(q) /\ Named(q)
    BY <2>1, <2>2 DEF Pending, Named, OnPlan, ReadSteps
  <2> QED BY <2>1, <2>2, <2>3 DEF AnswerInv, Reserves, KnowsSession, ReadsReplacement,
       ReadsDeadline, SeesOneStory, CookieIsGone, AnswerIsTrue
<1> QED BY <1>1, <1>2 DEF AnswersInv, FreshIsUnnamed

\* The invariant of the answers, with the agreement of the audit trail and the
\* plans, by which an approval that commits is on record.
LEMMA AnswersHold == TxSpec => []AnswersInv
<1>1. TxSpec => []AuditInv
  BY TransactionsImplementStore, AuditHolds DEF StoreImplemented
<1> QED BY <1>1, TxHolds, AnswersStep, AnswersInitially, PTL DEF TxSpec

-----------------------------------------------------------------------------
\* The theorems.

\* A snapshot that load_snapshot reads query by query, while executions commit
\* between the queries, never shows an earlier table recovered and a later one
\* not: once a row reads as recovered, the after-state is whole and stays.
THEOREM SnapshotsTellOneStory == TxSpec => []SnapshotNeverAhead
<1>1. AnswersInv => SnapshotNeverAhead
  BY DEF AnswersInv, AnswerInv, SeesOneStory, SnapshotNeverAhead
<1> QED BY <1>1, AnswersHold, PTL

\* The answer on its way to a client claims what is committed, and stays true
\* of the session while others commit: a crash after it takes nothing back.
THEOREM AnswersStayTrue == TxSpec => []AnswersAreCommitted
<1>1. ASSUME AnswersInv PROVE AnswersAreCommitted
  <2> SUFFICES ASSUME NEW r \in Requests, request[r].at = "answered",
                      request[r].session # NoSession,
                      session[request[r].session].status # "absent"
               PROVE  Claimed(r)
    BY DEF AnswersAreCommitted
  <2>1. Holds(request[r].op, request[r].session, request[r].plan, request[r].answer)
    BY <1>1 DEF AnswersInv, AnswerInv, Named, AnswerIsTrue, AnswerHolds
  <2>2. \A e : /\ ErrorCode(e) # "OK"
               /\ ErrorCode(e) = "PLAN_EXPIRED" => e = "expired"
               /\ ErrorCode(e) = "PLAN_ALREADY_EXECUTED" => e = "already_executed"
               /\ ErrorCode(e) = "SESSION_NOT_FOUND"
                    => e \in {"session_not_found", "session_inactive"}
    BY DEF ErrorCode, RecoveryErrorCode
  <2>3. PICK code : code = IF request[r].answer = "ok" THEN "OK" ELSE ErrorCode(request[r].answer)
    OBVIOUS
  <2>4. /\ code = "OK" <=> request[r].answer = "ok"
        /\ code = "PLAN_EXPIRED" => request[r].answer = "expired"
        /\ code = "PLAN_ALREADY_EXECUTED" => request[r].answer = "already_executed"
        /\ code = "SESSION_NOT_FOUND"
             => request[r].answer \in {"session_not_found", "session_inactive"}
    BY <2>2, <2>3
  <2> QED BY <2>1, <2>3, <2>4 DEF Holds, Settled, Claimed
<1> QED BY <1>1, AnswersHold, PTL

\* A query finds no row only when the session was deleted, and the answer to a
\* reset that committed is read from the replacement it created: no reset is
\* answered as if the session had not been there.
THEOREM MissingRowsAreGone == TxSpec => []MissingMeansGone
<1>1. AnswersInv => MissingMeansGone
  BY DEF AnswersInv, AnswerInv, AnswerIsTrue, AnswerHolds, MissingMeansGone
<1> QED BY <1>1, AnswersHold, PTL

\* create_session goes on to insert a session for a browser only when the one of
\* its cookie is revoked, expired or deleted, and so it stays until the COMMIT.
THEOREM CookiesKeepTheirSession == TxSpec => []OneSessionPerCookie
<1>1. ASSUME TxInv, AnswersInv PROVE OneSessionPerCookie
  <2> SUFFICES ASSUME NEW r \in Requests, request[r].op = "create",
                      request[r].session # NoSession, request[r].at = "lock" \/ writer = r
               PROVE  Gone(request[r].session)
    BY DEF OneSessionPerCookie
  <2>1. writer = r => request[r].at \in CreationSteps
    <3> SUFFICES ASSUME writer = r PROVE request[r].at \in CreationSteps
      OBVIOUS
    <3>1. request[r].at \in LockedSteps /\ request[r].op \in OpsAt(request[r].at)
      BY <1>1, WriterFacts DEF Formed
    <3> QED BY <3>1, OperationsAt DEF LockedSteps
  <2> QED BY <1>1, <2>1 DEF AnswersInv, AnswerInv, CookieIsGone
<1> QED BY <1>1, TxHolds, AnswersHold, PTL
=============================================================================
