# A verification project for ProdPermit

ProdPermit lets an agent investigate a seeded production incident through WebMCP
tools, prepare a recovery plan, and execute it only after a human approved that
exact plan.  This directory holds TLA+ models of the code, the TLC
configurations that check them on small instances, and theorems about them that
TLAPS proves for every value of the constants.  Paths below are relative to the
repository.

```
tlc -config recovery_store.cfg MCRecoveryStore      # model-check one run
tlapm RecoveryStoreProofs.tla                       # check the proofs of one module
```

`PROJECT.json` lists the components, the runs, a mutated form of the code that
breaks each property, the source lines each definition stands for, the
disagreements between code and documents, and the hazards.

## The system

| Component | State | Operations | Hard behaviour |
|---|---|---|---|
| Recovery rules, `crates/domain/src/recovery.rs` | none (pure) | `prepare_recovery`, `RecoveryEvidenceSet::try_new`, `canonical_recovery_fingerprint`, `expire_recovery`, `apply_human_decision`, `invalidate_recovery`, `validate_execution`, `complete_execution`, `derive_verification` | order of checks, deadline boundary, states that keep the approval |
| Seeded scenario, `crates/domain/src/lib.rs` | none | `seeded_scenario`, `seeded_investigation_data`, `database_connectivity_diagnostic` | – |
| Recovery transactions, `crates/persistence/src/recovery.rs` | plans, evidence, executions, diagnostics, audit, resets | `prepare_recovery`, `current_recovery`, `decide_recovery`, `execute_recovery`, `verify_recovery`, `reset_session` | races of requests, late requests that commit an expiry and then fail, retries, reloading a plan from rows others write |
| Sessions, `crates/persistence/src/session.rs` | sessions with their scenario rows | `create_session` (prunes, tests the ceiling, inserts) | deletions that reach other sessions, the ceiling |
| Investigation and reads, `crates/persistence/src/lib.rs` | diagnostics | `run_database_diagnostic`, `session_is_active`, `load_snapshot`, `compare_releases`, `query_logs`, `audit_events` | reads outside a transaction, a snapshot upgraded to a write |
| Schema, `crates/persistence/migrations` | – | constraints, the one-active-plan index, the deduplication index | a status the schema does not know |
| HTTP API, `crates/api` | a clock, the store | one handler per operation | the clock is read before the transaction waits; a lost response |
| Tool registry, `apps/web/src/lib/webmcp/registry.ts` | registrations, cleanup tokens | `register`, `unregister`, `dispose` | pending promises and microtasks |
| Control room, `apps/web/src/components/control-room.tsx` | snapshot, plan, capability, session epoch | load, refresh, approve, reject, reset, expiry timer | responses out of order, a timer against a late answer |

How they interact: the browser calls the API with the session in a cookie; a
handler reads the clock, then calls one operation of the store, which runs one
SQLite transaction and applies the pure rules to the rows it reads.  Nothing
else is shared: five pooled connections serve all requests, and SQLite lets one
transaction write at a time.  The agent reaches the same API through registered
tools; `execute_approved_recovery` is registered only while the current plan is
approved.

What makes each part correct: a session has at most one plan that can still be
acted on; production changes only by executing a plan whose exact facts a human
approved, inside its window, once, and all at once; the audit trail and the
plans agree; revoked sessions have no authority and sessions do not affect each
other; a stored plan can always be read back; the browser shows the state of the
session it is in and offers execution only while it is granted.

## Modules

| Module | Role |
|---|---|
| `RecoveryDomain` | The pure rules as operators: an instant is an integer, a fingerprint the tuple of facts it digests, a sequence of early returns a list of `<<condition, error>>` given to `FirstFailure`. |
| `EvidenceRules`, `MCEvidenceRules` | `try_new` on a list that grows one record at a time, and the order its records are stored in: any order that sorts them, since the code's sort has a total key. |
| `CanonicalEncoding` | The length-prefixed encoder, over all short lists of short fields. |
| `RecoveryStore` | The tables and every operation that writes them, one action per committed transaction. |
| `RecoveryAuthority` | What the lifecycle promises: production recovers by spending an authority that was granted to a proposal. |
| `RecoveryRefinement` | `RecoveryStore` implements `RecoveryAuthority`; the authority of a session is what its active plan allows. |
| `StoreTransactions` | The handlers and the transactions one awaited statement at a time, over the tables of `RecoveryStore`; shown to implement it. |
| `WebMcpRegistry` | The browser's tool registry: operators from its state to the next one. |
| `CapabilityOffer` | What the control room promises of the execution tool: the plan asked for, or none. |
| `ControlRoom` | The page with `WebMcpRegistry`, in front of a small server; implements `CapabilityOffer` and, with its server, `RecoveryAuthority`. |
| `MCRecoveryStore`, `MCStoreTransactions` | Evidence lists, reasons, arrival bounds and symmetry for TLC. |
| `RecoveryDomainProofs` | Lemmas about the pure rules: what each verdict `"ok"` means, the first failure of a list of checks, the verdict on a list of evidence. |
| `EvidenceRulesProofs` | Theorems about lists of evidence of any length. |
| `CanonicalEncodingProofs` | The fields can be read back from their encoding, whatever they hold. |
| `RecoveryStoreProofs`, `RecoveryLifecycleProofs` | Theorems about `RecoveryStore`: types, atomicity and approval; then the facts and states of plans, sessions and the audit trail, the implementation of `RecoveryAuthority`, and how far instants drift from the order of commits.  The second extends the first. |
| `StoreTransactionsProofs`, `StoreAnswersProofs` | `StoreTransactions` implements `RecoveryStore`; what its reads and its answers may claim. |
| `ControlRoomProofs` | Theorems about `ControlRoom` and its registry: what an agent may find, and both refinements. |

### RecoveryStore and the code

| Variable | Rows |
|---|---|
| `session` | `demo_sessions`: absent, live or revoked, and `created_at` |
| `production` | `services.current_release`, `services.health_status`, `incidents.status` of the session |
| `plan` | `recovery_plans` with `recovery_plan_evidence` |
| `diagnostic` | `diagnostic_results` with `diagnostic_contexts` |
| `executions`, `audit`, `resets` | `recovery_plan_executions`, `audit_events`, `session_resets` |
| `clock` | the wall clock |

| Action | Operation |
|---|---|
| `CreateSession` | `create_session`, with its pruning and its ceiling |
| `RunDatabaseDiagnostic` | `run_database_diagnostic` |
| `PrepareRecovery` | `prepare_recovery`, with `expire_active_plan` and `resolve_evidence` |
| `CurrentRecovery` | `current_recovery`, which persists an expiry |
| `DecideRecovery`, `DecideLate` | `decide_recovery`; the late path commits the expiry and returns an error |
| `ExecuteRecovery`, `ExecuteLate` | `execute_recovery`, likewise |
| `VerifyRecovery` | `verify_recovery`, which audits its outcome |
| `ResetSession` | `reset_session` |

Every one of these transactions except the diagnostic and the creation starts
with `lock_active_session`, an UPDATE that takes SQLite's writer lock before
anything is read.  `create_session` starts with a DELETE.  The diagnostic reads
first; SQLite then refuses its write when another transaction committed after the
read.  A committed transaction therefore acts on the state at its commit, and is
one step.  A transaction that fails, or a process that stops before COMMIT,
leaves the tables as they were: a stuttering step.

The instant an operation uses is read by the handler *before* the transaction
waits for a connection and the lock (`crates/api/src/lib.rs`, every
`state.clock.now()`).  `now` is therefore any instant of the last `MaxDelay`, and
two operations may commit in an order other than that of their instants.  A
request names an id only after the response that carried it, so its instant is
not before that commit; the ghost field `since` holds it and is no column.

### StoreTransactions and the code

`RecoveryStore` takes a transaction as one step.  `StoreTransactions` justifies
that: its `StoreImplemented` is `RecoveryStore`'s `Spec`, with no refinement
mapping, because the tables are the same variables and hold what is committed.

| Variable | Code |
|---|---|
| `request` | the handler's progress with each request (`at` names the statement it awaits), the instant it read, the id it may mint, what a snapshot has seen so far, and its answer |
| `writer` | the request whose connection holds SQLite's writer lock |
| `draft` | the tables as that connection sees them; COMMIT publishes it, an error or a crash drops it |

- A transaction takes the lock with its first statement (`TakeWriterLock`); the
  connection then sees the newest committed tables.  `execute_recovery`,
  `reset_session` and `create_session` are a step per statement, with the
  `rows_affected` checks after the claim (the claim's own cannot fail: the state it
  tests was read under the lock); `prepare_recovery` is a step for its writes and one for
  its COMMIT.  `current_recovery`, `decide_recovery` and `verify_recovery` write one
  plan or one event, and are one step.
- `run_database_diagnostic` reads in a deferred transaction.  Its insert upgrades
  the read; SQLite does not wait for that, and refuses it when another connection
  writes or has committed since.  The client gets `INTERNAL_ERROR` for a request
  that was legal; the model shows that nothing worse happens.
- `session_is_active` and the queries of `load_snapshot` are a step each, on what
  is committed at that moment.  The second clock reading of `create_or_resume` and
  `current_incident` is made when the last query returns.
- A wait for a pooled connection or for the lock has no order and may time out
  (30 s and 5 s in the code), which answers `INTERNAL_ERROR`: every query outside a
  transaction, every BEGIN and every first write may.  Crash loses every
  request, the lock and the draft, never a committed row.

What the torn reads can show, beyond what the properties exclude: a session that
is reset and then pruned between two queries of `load_snapshot` answers
`INTERNAL_ERROR` when a row it must have is gone, or 200 with no releases or no
telemetry when only those are.

### ControlRoom, WebMcpRegistry and the code

| Variable | Code |
|---|---|
| `view` | the states `plan` and `executionCapability` |
| `calls` | the asynchronous calls in progress (a bag): sent, answered, or with a recovery state still to apply |
| `dirty`, `effect`, `armed` | the capability's effect: to be run again, the plan it closed over, its timer |
| `registry` | `#registrations`, `#cleanupTokens`, the queued microtasks, and the calls of `registerTool` with their promises, signals and handlers |
| `cookie`, `due` | the browser's session, and the plans past `expiresAt` on its clock |
| `server` | the session, the incident, the plan with its newest instant, and the status of every plan behind the endpoints |
| `asked` | history: the plan whose tool the page asked for last |

- `RunEffect` is the effect's cleanup followed by its next run, one task, as React
  runs them.  `ResetDemo`, `ExpiryTimer`, `Reload` are the other callers of the registry.
- `unregister` queues a microtask, and a `register` in the same task cancels it by
  replacing its token.  Microtasks run before the browser's next task and queue no
  others, so each step leaves the registry drained.  `registerTool`'s promise is
  settled by the browser in a task of its own, at any time or never, fulfilled or not.
- A refresh remembers its epoch; since the epoch only grows, it is enough to know
  whether a reset was clicked since.  The initial load does not look at it.

Facts the model made plain, and which no property forbids:

- A reset that fails leaves the tool dismissed although the approval stands, until
  the next refresh brings a new capability object.
- A reset whose snapshot times out after its COMMIT is answered `INTERNAL_ERROR`, and
  the client never learns its replacement; nothing else hides a committed reset
  (`MissingMeansGone`).
- When a request that read its clock earlier commits after a later plan was prepared
  and rejected, `current_recovery` returns the rejected one, and the page has no
  capability for the plan in use.  The documents do not say that it should.
- A refresh sent between the click on reset and the server's reset carries the new
  epoch and the old session's data, and is applied.
- `docs/superpowers/specs/2026-08-26-phase-4-6-design.md:110` says that "Responses
  captured under an older epoch are discarded."  The initial load has no epoch and
  is applied whenever it comes.  The tool it may bring back is refused by the server
  and is withdrawn by its timer (`OverdueIsWithdrawn`).
- With an equal fingerprint the registry keeps the *old* handler; harmless, because
  the fingerprint names the plan the handler is bound to (`OfferIsShown`; a static
  fingerprint breaks it).
- A browser clock ahead of the server's makes the timer, the refresh and the effect
  go round without delay until the server's clock reaches the deadline too.
- A registration that fails, or is aborted by `register`, leaves the displayed list
  of tools as it was: `onToolsChanged` is not called.

### What is abstracted

In the store:

- There is one service, one incident and one scenario generation per session, as
  in the seeded scenario; no code changes the generation, the releases or the
  logs.  The checks on them are kept where the properties can tell them apart.
- A fingerprint is the tuple of facts it digests.  `CanonicalEncoding` checks
  that the encoding is unambiguous; SHA-256 is taken to have no collisions.
- A reason is acceptable, blank or oversize, with or without padding that `trim`
  drops.  UUID and fingerprint parsing are left out: an id is a model value.
- The telemetry of an execution is part of its row: verification compares
  columns of that row with the plan either way, and its numbers are constants.
- `execution_started_at`, `rejected_at`, `invalidated_at` and
  `invalidation_reason` are written and shown, and decide nothing.
- An id whose rows were deleted may be minted again and stands for a fresh UUID.
- The checks of `execute_recovery` after its claim (one row updated, and so on)
  cannot fail while the transaction holds the writer lock, and are left out.
- `expire_active_plan` takes one overdue plan (LIMIT 1); the model takes the set
  of them, which the one-active-plan index keeps to one.
- `session_reset` is deduplicated per session in the code and per session and
  replacement in the model: the second reset of a session never gets that far.
- Two plans of one instant are ordered by their random ids, so either may be
  the newest.

In the transactions:

- The pool's five connections are not counted: no handler holds one while it waits
  for another, so a full pool is only a longer wait, which the model has.
- The clock stands while a transaction holds the lock: the lock is held for
  milliseconds, an instant of the model is minutes.  The wait for it is not.
- Rows of releases never change and are left out of the snapshot.  The telemetry
  point and the execution row, inserted one after the other, are one step.
- Which fresh id a request mints is fixed when it arrives: ids are random.

In the browser:

- One tool name.  No operation of the registry reads another name's entry.
- A command about a plan names its plan and, by the cookie, its session, and is
  refused when it comes too late: the server takes it as it is sent, or never.  A
  reset may be taken late.  A recovery state is read as it is asked for: read later
  it would equal one asked for later, or belong to a revoked session.
- Only the newest session has a cookie anyone still uses, so creating one closes the
  plans of the one before.  A session that expires after its 24 hours refuses every
  request until the initial load replaces it: its expiry is observed at that creation.
- The server answers with the plan of the newest instant, which need not be the plan
  in use; `Prepared` leaves open which instant is the newest.  Deadlines pass in any
  order.
- A repeated rejection and a verification change nothing on the server and refresh the
  page.  Which of the closed plans was rejected and which executed is not kept, so
  the model takes a few more of them than the code.
- A plan that is finished is shown without buttons or capability, like no plan.
- Other tabs and other clients of the session do what a call whose answer is lost
  does.
- The panels for the incident, logs, releases, audit and verification display the
  answer applied last and decide nothing.

## Runs

| Run | Question | States |
|---|---|---|
| `recovery_store` | Is the lifecycle of plans consistent, audited, atomic, and an implementation of `RecoveryAuthority`? | 50,441 |
| `recovery_sessions` | Do sessions stay apart, within the ceiling, and readable through pruning and resets? | 67,843 |
| `evidence_rules` | Does the order of evidence decide anything? | 11,111 |
| `canonical_encoding` | Can two lists of fields have one encoding? | 400 |
| `store_transactions` | Do the handlers, statement by statement, with crashes, timeouts and lost answers, keep to the atomic steps of `RecoveryStore`, and what can a torn read or an answer claim? | 482,986 |
| `control_room` | Which tool can an agent find, whatever becomes of the page's calls and registrations? | 413,050 |
| `control_room_deadline` | Is the tool of an overdue plan withdrawn for good, under the fairness of timers? | 413,050 |
| `doc_*` | Four statements of the documents and comments that the code does not meet (see Findings). | – |

The bounds, and why they are enough for what can happen:

- `Sessions`: two with a ceiling of one (a reset needs a replacement, a creation
  needs one to prune), three with a ceiling of two for what needs two live
  sessions and a third that is created, reset or pruned beside them.
- `Plans`: two.  Every rule about plans is about one plan or about a second one
  prepared after, before or beside it.
- `Diagnostics`: two: one requested (`MaxDiagnostics` of a session), one stored by
  an execution; in `recovery_sessions` one of each of two sessions.
- `PlanLifetime` 2 and `SessionLifetime` 3 (1 and 2 in `recovery_sessions`)
  against `MaxTime` 2 to 4: plans and sessions are seen before, at and after
  their deadlines, and the longer lifetime is the session's, as in the code.
- `MaxDelay` 1: a commit may be one instant late, enough to cross a deadline and
  to reverse two requests.
- `AuditLimit` 2 stands for the page of 100; `MaxEvidence` 3 for 8, so that the
  list of four that is refused is reached.
- `RefLists` holds complete, incomplete, unsupported and repeated evidence,
  `Reasons` an acceptable and a blank reason, both padded.
- `AuthLogs`, `OtherLogs`: a log that supports a recovery, and one that does not.
- `Bytes` {1, 2}: a byte is also a length, so that fields can pretend to be
  framing.

- `Requests` 2 and one session live at a time, one plan, two diagnostics: every
  race here is between two requests, and a request that ended frees its place for
  the next, so histories are longer than two.  `LastArrival` asks for what starts a
  plan at the first instant and for what ends it up to the second; sessions are
  created and read until the end.  `MaxTime` 2 is past the plan's deadline and the
  session's; `MaxDelay` 1 lets a request outlast either.
- `MaxPlans` 2, `MaxSessions` 2: an old plan beside a new one, in one session or in
  two.  `MaxCalls` 2: two refreshes out of order, or one against a reset or a load.
  `Registrations` 2: a registration still to settle and the one that replaced it.
  When both are unsettled a third registration of the name has to wait.

Deadlock is checked in the store and the browser runs: a session expires and can
be pruned, or the clock can advance, or an operation that changes nothing is
enabled; a page can be reloaded.  Only `EvidenceRules` and `CanonicalEncoding` stop, when their list is full.

### What the properties say

`recovery_store`: `OneActivePlan`, `RecoveredTogether` (the after-state is all or
nothing), `ApprovalBindsFacts` (the recomputed fingerprint is the approved one,
also after production changed), `ApprovedCanExecute` (nothing another operation
commits makes an approved plan fail a precondition), `AuditMatchesPlans` (in both
directions, once each), `DecisionsInWindow`, `VerificationPasses`,
`TerminalPlansAreFinal`, `RecoveryNeedsApproval`, `AuthorityImplemented`.  Two say
how far the delay between a clock and its commit can lead: `ActivePlanIsNearlyCurrent`
(no plan of a session is younger than its active one by more than `MaxDelay`) and
`AuditNearlyInOrder` (nor does an event carry an instant further before that of one it
follows).

`recovery_sessions`: `PlansReload` (no pruning breaks a stored plan),
`RevokedHasNoAuthority`, `SessionCeiling`, `SessionsIsolated` (no step that a request
of one session can take changes a row of another session that is neither revoked nor
expired: `Operation` gathers what a session's cookie can ask for).

`evidence_rules`: `AcceptedAsSet` is what lets `RecoveryStore` treat stored
evidence as a set and what makes a stored plan load again;
`OrderDecidesNothing` makes its fingerprint independent of the request's order;
`FirstFaultIsReported`.

`store_transactions`: `StoreImplemented` (the refinement; a diagnostic that
upgrades a stale read breaks it), `StatementsKeepReferences` (no statement of any
transaction breaks a foreign key, so no pruning fails for ever),
`SnapshotNeverAhead` (a torn snapshot never shows a healthy service beside an
active incident: the order of the queries is what excludes it),
`AnswersAreCommitted` (what a client was told survives a crash, the expiry a late
request answers with included), `MissingMeansGone` (a missing row is a removed
session, and only a timeout hides a committed reset),
`OneSessionPerCookie`.

`control_room`: `NoOrphanedTool` (nothing the browser may still offer is out of
the registry's reach), `OfferIsShown`, `OfferWasApproved` (an agent finds the tool
of the plan shown, and a human approved it on the server), `OfferHasTimer`,
`ForgottenForGood` (the safety half of `OverdueIsWithdrawn`: a plan that is
closed, and that nothing of the page or on its way shows as approved, gets no tool
again; a static definition, which would leave the handler of a closed plan under the
next one's tool, breaks it), `OfferImplemented` (the registry, its microtasks
and the effect implement `CapabilityOffer`), `AuthorityImplemented` (the server of
this model keeps `RecoveryAuthority`, as `RecoveryStore` does: the two models meet
in that specification).

`control_room_deadline`: `OverdueIsWithdrawn`, the liveness property of the same
module; a run of its own, because TLC's search for it takes as long as the rest.

### Fairness

The store promises nothing will happen without a request, and a request may never
come: `RecoveryStore` and `StoreTransactions` assume no fairness and state no
liveness.

`ControlRoom` assumes weak fairness of two things only: an armed timer that is due
fires (`ExpiryTimer`, the browser's event loop), and the server's clock goes on
(`ServerPassesDeadline`).  No fairness is assumed of humans, agents, the network,
the promises of `registerTool` or React.  `OverdueIsWithdrawn` holds under these,
and both are needed: without the server's clock a browser that is ahead registers
and withdraws the tool for ever.

## Findings

Each is a run that TLC ends with a trace; the quotations are in `PROJECT.json`.

1. `doc_audit_page`: `audit_events` returns the oldest events, not the newest.
2. `doc_reset_retry`: a repeated reset is refused; `session_resets` is never read.
   The design contradicts itself here: one line promises the retry the same
   replacement, others record the refusal of a revoked cookie as deliberate.
3. `doc_storage_ceiling`: resets store sessions beyond the ceiling.
4. `doc_deadline`: an execution can commit after `expires_at`, because the
   instant compared was read before the transaction.  The instant recorded is inside
   the window all the same (`DecisionsInWindow`).

## Proofs

TLAPS proves these for any sets of ids, any evidence lists and reasons, any number
of concurrent requests and any bounds:

| Theorem | Statement |
|---|---|
| **`RecoveryStoreProofs`** | |
| `TypeCorrect` | `Spec => []TypeOK` |
| `AtMostOneActivePlan` | `Spec => []OneActivePlan` |
| `RecoveryIsAtomic` | `Spec => []RecoveredTogether` |
| `RecoveryRequiresApproval` | `Spec => RecoveryNeedsApproval` |
| **`RecoveryLifecycleProofs`** | |
| `TerminalIsFinal` | `Spec => TerminalPlansAreFinal` |
| `ApprovalsBindFacts` | `Spec => []ApprovalBindsFacts` |
| `StoredPlansReload` | `Spec => []PlansReload` |
| `DecisionsStayInWindow` | `Spec => []DecisionsInWindow` |
| `ApprovedPlansCanExecute` | `Spec => []ApprovedCanExecute` |
| `VerificationAlwaysPasses` | `Spec => []VerificationPasses` |
| `SessionsStayWithinCeiling` | `Spec => []SessionCeiling` |
| `RevocationIsFinal` | `Spec => []RevokedHasNoAuthority` |
| `SessionsAreIsolated` | `Spec => SessionsIsolated` |
| `AuditTellsTheStory` | `Spec => []AuditMatchesPlans` |
| `StoreImplementsAuthority` | `Spec => AuthorityImplemented` |
| `ActivePlanIsYoungest` | `Spec => []ActivePlanIsNearlyCurrent` |
| `AuditDriftsByTheDelay` | `Spec => []AuditNearlyInOrder` |
| **`CanonicalEncodingProofs`** | |
| `NoTwoPlansShareAnEncoding` | `Spec => []EncodingIsUnambiguous` |
| **`EvidenceRulesProofs`** | |
| `AcceptanceIsOfTheSet` | `Spec => []AcceptedAsSet` |
| `FirstFaultStays` | `Spec => FirstFaultIsReported` |
| `OrderIsForgotten` | `Spec => []OrderDecidesNothing` |
| **`StoreTransactionsProofs`** | |
| `TransactionsImplementStore` | `TxSpec => StoreImplemented` |
| `CommittedRecoveryIsWhole` | `TxSpec => []RecoveredTogether` |
| `TransactionsImplementAuthority` | `TxSpec => AuthorityImplemented` |
| **`StoreAnswersProofs`** | |
| `StatementsAreAccepted` | `TxSpec => []StatementsKeepReferences` |
| `SnapshotsTellOneStory` | `TxSpec => []SnapshotNeverAhead` |
| `AnswersStayTrue` | `TxSpec => []AnswersAreCommitted` |
| `MissingRowsAreGone` | `TxSpec => []MissingMeansGone` |
| `CookiesKeepTheirSession` | `TxSpec => []OneSessionPerCookie` |
| **`ControlRoomProofs`** | |
| `RoomTypeCorrect` | `Spec => []TypeOK` |
| `NoToolOrphaned` | `Spec => []NoOrphanedTool` |
| `OfferedIsShown` | `Spec => []OfferIsShown` |
| `OfferedWasApproved` | `Spec => []OfferWasApproved` |
| `OfferedHasTimer` | `Spec => []OfferHasTimer` |
| `ForgottenPlansStayAway` | `Spec => ForgottenForGood` |
| `RoomImplementsOffer` | `Spec => OfferImplemented` |
| `RoomImplementsAuthority` | `Spec => AuthorityImplemented` |

Since the transactions implement the store, every theorem about `Spec` holds of the
committed tables under `TxSpec`; `CommittedRecoveryIsWhole` draws that conclusion
for an invariant, `TransactionsImplementAuthority` for the refinement: handlers taken
statement by statement, with crashes and timeouts, implement `RecoveryAuthority`.

### Assumptions

- `DomainAssumption`, `StoreAssumption`: the lifetimes, the ceiling and the bound on
  evidence are positive, the kinds of ids are disjoint (`Plans` and `Sessions` too:
  both are UUIDs, and an audit event has either as its subject), references name logs
  or diagnostics, the null values are no ids.
- `NullAssumption`: `NoFingerprint`, the column that is NULL, is no digest.
- `TransactionAssumption`: a request commits within `MaxDelay` of its clock reading,
  no more than a plan's lifetime and less than a session's.  The code's two waits
  (30 s and 5 s) are far below its lifetimes of minutes and hours.
- `RegistryAssumption`, `ControlRoomAssumption`: `NoRegistration` is no registration,
  the bounds are naturals, and a registration that is over is bound to no plan.
- `RulesAssumption`: a record of evidence has an ordered id and one of the two kinds.

TLC evaluates each of them in the runs.

### The arguments

*Types and atomicity.*  `TypeOK` is inductive by itself, one lemma per action.
`OneActivePlan` is inductive with it: a preparation is the only step that makes a
plan active, and it requires that every active plan is overdue, and expires those;
all other steps leave the set of active plans alone or narrow it.
`RecoveredTogether` is not inductive: from a state where an absent session still
had a plan, a new session would be born with a past; from one where a free
diagnostic id was linked to an execution, storing a new diagnostic would change a
recovered session.  `RecoveryInv` adds what excludes those: absent sessions own
nothing, executions own their diagnostic, free rows are absent.  It needs
`OneActivePlan` too: an execution resolves the incident, and the guard that the
incident is active is what makes it the only one.  `RecoveryRequiresApproval`
adds `ApprovalIsAudited`: an approved plan carries its approval event.

*Plans.*  A row of a plan moves in one of a few ways (`PlanMoves`): it is withdrawn,
approved or executed within its window, added where there was none, or removed with
its session (`StepsMovePlans`, from which `TerminalIsFinal` follows).  The remaining
theorems are parts of one invariant, `LifecycleInv`.  `PlansReload` alone is not
inductive: it needs that a plan's diagnostics belong to its session
(`EvidenceIsOwned`), so that only a deletion of both reaches them.
`ApprovalBindsFacts` needs that a stored fingerprint is that of the stored facts
before any approval exists (`FingerprintsMatch`), and `ApprovedCanExecute` that
production is as it was seeded while a plan can be used (`PlansAreAboutTheFault`),
which rests on an execution leaving no usable plan behind.

*Sessions.*  `CeilingInv` counts the live sessions: a creation counts those it
leaves, a reset replaces one by one.  `RevokedInv` adds to `RevokedHasNoAuthority`
that a lineage row names a revoked session and a replacement that exists; a
replacement could otherwise be a free id, minted again for a second session.
`AuditMatchesPlans` needs `AuditInv`: the event of a reset is owned by the session it
revoked, and the events of a plan by its session, or a deletion would remove the
events of a plan that stays, or leave those of a plan that goes.

*Isolation.*  `SessionsAreIsolated` is a fact about each operation
(`OperationLeavesAlone`): what a creation prunes is revoked or expired, a reset mints an
absent session, and everything else selects its rows by the session of the cookie.

*`AuthorityImplemented`.*  With one active plan at most, the mapping gives a session
the authority of any plan of it that is usable (`MappingHolds`).  Then every action
is a step of `RecoveryAuthority` or a stutter; creation and reset are the cases with
two sessions.

*Drift.*  `DriftInv` says that every instant on record is past (`InstantsArePast`),
that the events of a plan are in order within `MaxDelay`, and that its active plan is
the youngest within `MaxDelay`.  A step records an instant of the last `MaxDelay`, so
no instant on record is later than it by more than that (`RecordedNow`).  What remains is
that a step never adds an event the story has already passed: an approval of a plan
that was executed, an execution of one that was verified.  That is the state of the
plan, which the audit trail tells (`AuditInv`), with one thing added to it: a
verification is of a plan on record as executed.

*`EncodingIsUnambiguous`.*  `FlattenSeq` is a fold: a recursive function whose domain
is the list's own indices.  That such a function exists at all needs an induction,
here made once from the least natural number at which a property fails
(`LeastNatural`).  The value is then known to be the last of a chain of partial sums, each
the one before with one more frame (`SumOf`).  Two lists with one encoding have the
same partial sums as far as both go (`FieldsAgree`), since a frame starts with its
own length; and the longer would then have to add an empty frame (`NoFieldMore`).
Nothing depends on the number of fields, their bytes or their lengths.

*Transactions.*  `StoreImplemented` has no refinement mapping, so what has to be
shown is that a COMMIT publishes the effect of a whole action of `RecoveryStore`.
The invariant is `TxInv`: only the writer is between its first statement and its
COMMIT; its draft is the committed tables with the effects of the statements it
has run, under the guards they tested (`DraftIs`, one case per statement); the
instant it read is within `MaxDelay`; ids still to be minted are free and promised to
nobody else (`FreshIsFree`, `PairInv`); a deferred read whose snapshot is the newest
tells the truth (`SnapshotIsCurrent`, without which the upgrade of a diagnostic would
commit a stale row).  No other request writes while the lock is held, so the guards
tested under it still hold at COMMIT.  The proof follows the statements of each
operation in their order.

*Answers.*  `StatementsAreAccepted` is a fact about every intermediate draft, hence
about the order of the statements; it needs `LinkedDiagnosticsAreOwned`, or the
deletion of plans in `create_session` could leave a diagnostic that references one.
The other four are conjuncts of `AnswersInv`, or follow from them: what a request
has read or was told is a statement about its session that ages well (`Ages`, and
the lemmas after it: finished plans stay finished, recovered sessions recovered, gone
sessions gone).  It is not enough to state it of requests that are answered.  A
request must name a session it was told of, committed before it read the clock
(`KnowsSession`): a session created after that reading could be found inactive
without being gone.  And no request may name a session that another is about to create
(`FreshIsUnnamed`), or its answer would come to speak of somebody else's session.
TLC checked `AnswersInv` on the instance of `store_transactions` before it was proved.

*Control room.*  The registry's part is one predicate, `Serves(g, p)`: between tasks
no microtask is queued, every registration but the entry can be reached by nobody,
and the entry, when there is one, was made for plan `p`.  Each operation a caller
makes in one task is followed through the microtasks it queued; no task queues more
than two (an effect that cleans up and then unregisters), so that `Drained` unfolds
without induction, and only the newest cleanup does anything.  The one case where an
old handler survives is a `register` after an `unregister` with the same fingerprint,
which the definition makes the same plan (`RegisteredServes`).  `RoomInv` ties this to
the page: the plan asked for was approved, its effect is the current one and its
timer is armed; what the view and the answers still to be applied show as approved
was approved, and approvals are never taken back.  `OfferIsShown`, `OfferHasTimer`
and `OfferWasApproved` are not inductive one by one: an answer in flight that shows
a plan nobody approved, or a timer that fired for an effect still serving, would
break them in two steps.  For `OfferImplemented` it remains to show that a findable
tool stays findable in every step that is not a dismissal; for
`AuthorityImplemented`, that a session has one active plan at most (`ServerInv`).
`TypeOK` and `ForgottenForGood` rest on one account of a step: what the page's
variables can become (`PageTurns`) and where every call in progress comes from
(`Comes`): an older call, outdated or deaf, a call just sent, or an answer that shows
what the server has.  A closed plan is never shown by the server again (`ClosedStays`),
so no call can come to show it, nor the page.

*Evidence.*  `try_new` folds over its list.  What it answers is expressed by the
first index whose record is faulty, and such an index is had from the well-ordering
of the naturals (`LeastNatural`), which takes the place of an induction over the
list.  `OrderIsForgotten` needs that two sorting orders of one set of distinct ids
are the same list: the least index at which they would differ gives a
contradiction.

### What is only model-checked

- `OverdueIsWithdrawn`: liveness under fairness is out of the prover's reach, as
  ENABLED is.

Every other property of a passing run is the statement of a theorem above.  That the
calls of the control room stay within `MaxCalls` is a bound of the model that its guards
keep, and is not stated as a property.

## Not modelled

- The API client and the dashboard keep no state; deployment scripts and containers
  are outside the running system.
- `compare_releases` and `query_logs` read rows that never change.
- The migration of old data runs once at start-up.
- The API's parsing (headers, JSON, cookies) and views are functions of one request.
- The activity log of the tools, and the panels that display an answer and decide
  nothing.
- The cancellation of a handler whose client disconnects: for the tables it is the
  rollback or the lost answer that `StoreTransactions` has.

## Plan

Done: the models and runs above, and the theorems about the store, its
transactions, its evidence rules, the control room, and their refinements.

What is left:

1. `OverdueIsWithdrawn` itself, if a prover for fairness becomes available; its safety
   half is `ForgottenForGood`.
2. The theorems about `Spec` restated under `TxSpec` one by one, where a reader wants
   to cite them; the argument is that of `CommittedRecoveryIsWhole`.
