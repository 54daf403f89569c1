------------------------ MODULE RecoveryDomainProofs ------------------------
(***************************************************************************)
(* What the ordered checks of crates/domain establish once they all pass.  *)
(***************************************************************************)
EXTENDS RecoveryDomain, WellFoundedInduction, SequenceTheorems, FiniteSetTheorems,
        FunctionTheorems, TLAPS

\* A set of naturals has a least element.
LEMMA LeastNatural ==
    ASSUME NEW S \in SUBSET Nat, S # {}
    PROVE  \E i \in S : \A j \in S : i <= j
<1> DEFINE below == {ss \in Nat \X Nat : ss[1] < ss[2]}
<1>1. IsWellFoundedOn(below, Nat)
  BY NatLessThanWellFounded, Zenon DEF OpToRel
<1>2. \E i \in S : \A j \in S : <<j, i>> \notin below
  <2> HIDE DEF below
  <2> QED BY <1>1, WFMin, Zenon
<1>3. \A i, j \in Nat : <<j, i>> \notin below => i <= j
  OBVIOUS
<1> HIDE DEF below
<1> QED BY <1>2, <1>3

\* The first check that applies decides.
LEMMA FirstFailureIs ==
    ASSUME NEW checks, NEW n \in Nat, DOMAIN checks = 1 .. n, NEW k \in 1 .. n,
           checks[k][1], \A i \in 1 .. n : i < k => ~checks[i][1]
    PROVE  FirstFailure(checks) = checks[k][2]
<1> DEFINE failed == {i \in DOMAIN checks : checks[i][1]}
           Least(i) == i \in failed /\ \A j \in failed : i <= j
<1>1. k \in failed /\ \A j \in failed : k <= j
  OBVIOUS
<1>2. \A i : Least(i) => i = k
  BY <1>1
<1>3. FirstFailure(checks) = checks[CHOOSE i \in failed : \A j \in failed : i <= j][2]
  <2> HIDE DEF Least
  <2> QED BY <1>1, Zenon DEF FirstFailure
<1>4. Least(CHOOSE i : Least(i))
  <2>1. Least(k)
    BY <1>1
  <2> HIDE DEF Least
  <2> QED BY <2>1, Zenon
<1>5. (CHOOSE i \in failed : \A j \in failed : i <= j) = k
  BY <1>2, <1>4, Zenon
<1> HIDE DEF failed
<1> QED BY <1>3, <1>5

\* The answer of a list of early returns is "ok" or the error of its first
\* condition that applies.
LEMMA FirstFailureAmong ==
    ASSUME NEW checks, NEW n \in Nat, DOMAIN checks = 1 .. n
    PROVE  \/ FirstFailure(checks) = "ok" /\ \A i \in 1 .. n : ~checks[i][1]
           \/ \E k \in 1 .. n : /\ checks[k][1] /\ FirstFailure(checks) = checks[k][2]
                                /\ \A i \in 1 .. n : i < k => ~checks[i][1]
<1> DEFINE failed == {i \in 1 .. n : checks[i][1]}
<1>1. CASE failed = {}
  BY <1>1 DEF FirstFailure
<1>2. CASE failed # {}
  <2>1. failed \subseteq Nat
    OBVIOUS
  <2>2. PICK k \in failed : \A j \in failed : k <= j
    <3> HIDE DEF failed
    <3> QED BY <1>2, <2>1, LeastNatural
  <2>3. k \in 1 .. n /\ checks[k][1] /\ \A i \in 1 .. n : i < k => ~checks[i][1]
    BY <2>2
  <2>4. FirstFailure(checks) = checks[k][2]
    <3> HIDE DEF failed
    <3> QED BY <2>3, FirstFailureIs
  <2> QED BY <2>3, <2>4
<1> QED BY <1>1, <1>2

\* A list of early returns answers "ok" exactly when no condition applies,
\* provided "ok" is the name of no error.
LEMMA FirstFailureOk ==
    ASSUME NEW checks, NEW n \in Nat, DOMAIN checks = 1 .. n,
           \A i \in 1 .. n : checks[i][1] => checks[i][2] # "ok"
    PROVE  FirstFailure(checks) = "ok" <=> \A i \in 1 .. n : ~checks[i][1]
BY FirstFailureAmong

\* apply_human_decision succeeds only inside the window; an approval only on the
\* fingerprint of these facts, a rejection only before execution.
LEMMA DecisionOk ==
    ASSUME NEW spec, NEW state, NEW decision, NEW now,
           decision.kind \in {"approve", "reject"},
           DecisionError(spec, state, decision, now) = "ok"
    PROVE  /\ ~Overdue(spec, state, now)
           /\ decision.kind = "approve" =>
                /\ state.status \in {"prepared", "approved"}
                /\ decision.fingerprint = Fingerprint(spec)
           /\ decision.kind = "reject" => state.status \in {"prepared", "approved", "rejected"}
<1> DEFINE checks == DecisionChecks(spec, state, decision, now)
<1>1. /\ DOMAIN checks = 1 .. 4
      /\ \A i \in 1 .. 4 : checks[i][2] # "ok"
  BY DEF DecisionChecks
<1>2. \A i \in 1 .. 4 : ~checks[i][1]
  <2>1. FirstFailure(checks) = "ok"
    BY DEF DecisionError
  <2> HIDE DEF checks
  <2> QED BY <1>1, <2>1, FirstFailureOk
<1>3. ~checks[1][1] /\ ~checks[2][1] /\ ~checks[3][1] /\ ~checks[4][1]
  <2> HIDE DEF checks
  <2> QED BY <1>2
<1> QED BY <1>3 DEF DecisionChecks

\* validate_execution succeeds only for an approved plan inside its window whose
\* facts, stored and approved fingerprints still agree with the database.
LEMMA ExecutionOk ==
    ASSUME NEW spec, NEW state, NEW facts, NEW now,
           ExecutionError(spec, state, facts, now) = "ok"
    PROVE  /\ state.status = "approved"
           /\ ~(now >= spec.expires_at)
           /\ facts.incident_status = "active"
           /\ facts.release = spec.expected
           /\ facts.target_state = "healthy_baseline"
           /\ state.approved_fingerprint = Fingerprint(spec)
           /\ facts.stored_fingerprint = Fingerprint(spec)
<1> DEFINE checks == ExecutionChecks(spec, state, facts, now)
<1>1. /\ DOMAIN checks = 1 .. 15
      /\ \A i \in 1 .. 15 : checks[i][2] # "ok"
  BY DEF ExecutionChecks
<1>2. \A i \in 1 .. 15 : ~checks[i][1]
  <2>1. FirstFailure(checks) = "ok"
    BY DEF ExecutionError
  <2> HIDE DEF checks
  <2> QED BY <1>1, <2>1, FirstFailureOk
<1>3. /\ ~checks[4][1] /\ ~checks[6][1] /\ ~checks[9][1] /\ ~checks[10][1]
      /\ ~checks[13][1] /\ ~checks[14][1] /\ ~checks[15][1]
  <2> HIDE DEF checks
  <2> QED BY <1>2
<1> QED BY <1>3 DEF ExecutionChecks

\* It succeeds for every such plan: no other fact is asked for.
LEMMA ExecutionPasses ==
    ASSUME NEW spec, NEW state, NEW facts, NEW now,
           state.status = "approved", facts.session = spec.session,
           ~(now >= spec.expires_at), facts.generation = spec.generation,
           facts.incident = spec.incident, facts.incident_status = "active",
           facts.release = spec.expected, facts.target = spec.target,
           facts.target_service = spec.service,
           facts.target_state = "healthy_baseline",
           state.approved_fingerprint = Fingerprint(spec),
           facts.stored_fingerprint = Fingerprint(spec)
    PROVE  ExecutionError(spec, state, facts, now) = "ok"
<1> DEFINE checks == ExecutionChecks(spec, state, facts, now)
<1>1. /\ DOMAIN checks = 1 .. 15
      /\ \A i \in 1 .. 15 : checks[i][2] # "ok"
  BY DEF ExecutionChecks
<1>2. /\ ~checks[1][1] /\ ~checks[2][1] /\ ~checks[3][1] /\ ~checks[4][1] /\ ~checks[5][1]
      /\ ~checks[6][1] /\ ~checks[7][1] /\ ~checks[8][1] /\ ~checks[9][1] /\ ~checks[10][1]
      /\ ~checks[11][1] /\ ~checks[12][1] /\ ~checks[13][1] /\ ~checks[14][1]
      /\ ~checks[15][1]
  BY DEF ExecutionChecks
<1> HIDE DEF checks
<1>3. \A i \in 1 .. 15 : ~checks[i][1]
  BY <1>2
<1>4. FirstFailure(checks) = "ok"
  BY <1>1, <1>3, FirstFailureOk
<1> QED BY <1>4 DEF checks, ExecutionError

\* A command is accepted only for another release that is the healthy baseline.
LEMMA CommandOk ==
    ASSUME NEW cmd, CommandError(cmd) = "ok"
    PROVE  /\ cmd.target # cmd.expected /\ cmd.target_service = cmd.service
           /\ cmd.target_state = "healthy_baseline"
<1> DEFINE checks ==
      << <<cmd.generation <= 0, "invalid_generation">>,
         <<\/ cmd.target = cmd.expected
           \/ cmd.target_service # cmd.service
           \/ cmd.target_state # "healthy_baseline", "invalid_target">>,
         <<~ReasonAccepted(cmd.reason), "invalid_reason">> >>
<1>1. /\ DOMAIN checks = 1 .. 3
      /\ \A i \in 1 .. 3 : checks[i][2] # "ok"
  OBVIOUS
<1>2. FirstFailure(checks) = "ok"
  BY DEF CommandError
<1>3. checks[2][1] <=> \/ cmd.target = cmd.expected
                       \/ cmd.target_service # cmd.service
                       \/ cmd.target_state # "healthy_baseline"
  OBVIOUS
<1> HIDE DEF checks
<1>4. \A i \in 1 .. 3 : ~checks[i][1]
  BY <1>1, <1>2, FirstFailureOk
<1> QED BY <1>3, <1>4

\* verify_recovery finds no mismatch when every fact it compares agrees.
LEMMA VerificationAgrees ==
    ASSUME NEW spec, NEW state, NEW facts,
           facts.execution_plan = spec.plan, facts.generation = spec.generation,
           facts.previous = spec.expected, facts.current = spec.target,
           facts.service = spec.service, facts.health = "healthy",
           facts.incident = spec.incident, facts.incident_status = "resolved",
           facts.diagnostic.plan = spec.plan, facts.diagnostic.release = spec.target,
           facts.diagnostic.result.status = "passed",
           facts.diagnostic.result.code = "DB_CONNECTION_OK",
           facts.stored_fingerprint = Fingerprint(spec),
           state.approved_fingerprint = Fingerprint(spec)
    PROVE  VerificationMismatches(spec, state, facts) = {}
<1> DEFINE Check(found, wanted, name) == <<found # wanted, name>>
           fingerprint == <<\/ facts.stored_fingerprint # Fingerprint(spec)
                            \/ state.approved_fingerprint # Fingerprint(spec), "fingerprint">>
           checks == { Check(facts.execution_plan, spec.plan, "execution_plan"),
                       Check(facts.generation, spec.generation, "scenario_generation"),
                       Check(facts.previous, spec.expected, "previous_release"),
                       Check(facts.current, spec.target, "current_release"),
                       Check(facts.service, spec.service, "service"),
                       Check(facts.health, "healthy", "health"),
                       Check(facts.incident, spec.incident, "incident"),
                       Check(facts.incident_status, "resolved", "incident_status"),
                       Check(facts.diagnostic.plan, spec.plan, "diagnostic_plan"),
                       Check(facts.diagnostic.release, spec.target, "diagnostic_release"),
                       Check(facts.diagnostic.result.status, "passed", "diagnostic_status"),
                       Check(facts.diagnostic.result.code, "DB_CONNECTION_OK", "diagnostic_code"),
                       fingerprint }
<1>1. \A found, wanted, name : found = wanted => ~Check(found, wanted, name)[1]
  OBVIOUS
<1>2. ~fingerprint[1]
  <2>1. fingerprint = <<FALSE, "fingerprint">>
    OBVIOUS
  <2> HIDE DEF fingerprint
  <2> QED BY <2>1
<1>3. VerificationMismatches(spec, state, facts) = {check[2] : check \in {c \in checks : c[1]}}
  BY Zenon DEF VerificationMismatches
<1> HIDE DEF Check, fingerprint
<1>4. \A c \in checks : ~c[1]
  BY <1>1, <1>2
<1> HIDE DEF checks
<1> QED BY <1>3, <1>4

-----------------------------------------------------------------------------
\* Evidence.

\* A record passes the checks of try_new exactly when none of them applies.
LEMMA ItemOk ==
    ASSUME NEW item, NEW repeated \in BOOLEAN, NEW cmd
    PROVE  FirstFailure(ItemChecks(item, repeated, cmd)) = "ok" <=>
             /\ Supported(item) /\ ~repeated
             /\ item.session = cmd.session /\ item.service = cmd.service
             /\ item.release = cmd.expected /\ item.generation = cmd.generation
<1> DEFINE checks == ItemChecks(item, repeated, cmd)
<1>1. /\ DOMAIN checks = 1 .. 6
      /\ \A i \in 1 .. 6 : checks[i][2] # "ok"
  BY DEF ItemChecks
<1>2. /\ checks[1][1] = ~Supported(item) /\ checks[2][1] = repeated
      /\ checks[3][1] = (item.session # cmd.session)
      /\ checks[4][1] = (item.service # cmd.service)
      /\ checks[5][1] = (item.release # cmd.expected)
      /\ checks[6][1] = (item.generation # cmd.generation)
  BY DEF ItemChecks
<1> HIDE DEF checks
<1>3. FirstFailure(checks) = "ok" <=> \A i \in 1 .. 6 : ~checks[i][1]
  BY <1>1, FirstFailureOk
<1>4. (\A i \in 1 .. 6 : ~checks[i][1]) <=>
        /\ ~checks[1][1] /\ ~checks[2][1] /\ ~checks[3][1] /\ ~checks[4][1]
        /\ ~checks[5][1] /\ ~checks[6][1]
  OBVIOUS
<1> QED BY <1>2, <1>3, <1>4 DEF checks

ItemError(list, i, cmd) == FirstFailure(ItemChecks(list[i], Repeated(list, i), cmd))

\* The checks of try_new, position by position.
ListChecked(list, cmd, n, checks) ==
    /\ EvidenceListError(list, cmd) = FirstFailure(checks)
    /\ DOMAIN checks = 1 .. n + 3
    /\ checks[1][1] <=> n > MaxEvidence
    /\ \A i \in 1 .. n : /\ checks[i + 1][1] <=> ItemError(list, i, cmd) # "ok"
                         /\ checks[i + 1][2] = ItemError(list, i, cmd)
    /\ checks[n + 2][1] <=> \A i \in 1 .. n : list[i].kind # "log"
    /\ checks[n + 3][1] <=> \A i \in 1 .. n : list[i].kind # "diagnostic"
    /\ checks[1][2] = "too_many_evidence" /\ checks[n + 2][2] = "missing_log_evidence"
    /\ checks[n + 3][2] = "missing_diagnostic_evidence"

\* The length is checked first, the records one by one, the kinds last.
LEMMA ListChecks ==
    ASSUME NEW S, NEW list \in Seq(S), NEW cmd
    PROVE  \E checks : ListChecked(list, cmd, Len(list), checks)
<1> DEFINE n == Len(list)
           Lacks(kind) == \A i \in DOMAIN list : list[i].kind # kind
           long == <<n > MaxEvidence, "too_many_evidence">>
           perItem == [i \in DOMAIN list |-> <<ItemError(list, i, cmd) # "ok", ItemError(list, i, cmd)>>]
           log == <<Lacks("log"), "missing_log_evidence">>
           diag == <<Lacks("diagnostic"), "missing_diagnostic_evidence">>
           checks == <<long>> \o perItem \o <<log, diag>>
           T == {perItem[i] : i \in DOMAIN list} \cup {long, log, diag}
<1>1. n \in Nat /\ DOMAIN list = 1 .. n
  OBVIOUS
<1>2. perItem \in Seq(T) /\ Len(perItem) = n
  <2>1. perItem \in [1 .. n -> T]
    BY <1>1
  <2> HIDE DEF perItem, T
  <2> QED BY <1>1, <2>1
<1>3. <<long>> \in Seq(T) /\ <<log, diag>> \in Seq(T)
  <2>1. long \in T /\ log \in T /\ diag \in T
    OBVIOUS
  <2> HIDE DEF long, log, diag, T
  <2> QED BY <2>1
<1>4. EvidenceListError(list, cmd) = FirstFailure(checks)
  BY DEF EvidenceListError, ItemError
<1>5. /\ DOMAIN checks = 1 .. n + 3
      /\ checks[1] = long /\ checks[n + 2] = log /\ checks[n + 3] = diag
      /\ \A i \in 1 .. n : checks[i + 1] = perItem[i]
  <2> HIDE DEF long, log, diag, perItem, T
  <2>1. /\ <<long>> \o perItem \in Seq(T) /\ Len(<<long>> \o perItem) = n + 1
        /\ \A i \in 1 .. n + 1 : (<<long>> \o perItem)[i] = IF i <= 1 THEN long ELSE perItem[i - 1]
    BY <1>1, <1>2, <1>3
  <2> DEFINE front == <<long>> \o perItem
  <2> HIDE DEF front
  <2>2. /\ checks \in Seq(T) /\ Len(checks) = n + 3
        /\ \A i \in 1 .. n + 3 :
             checks[i] = IF i <= n + 1 THEN front[i] ELSE <<log, diag>>[i - (n + 1)]
    BY <1>1, <1>3, <2>1 DEF front
  <2>3. checks[1] = long /\ \A i \in 1 .. n : checks[i + 1] = perItem[i]
    BY <1>1, <2>1, <2>2 DEF front
  <2>4. checks[n + 2] = log /\ checks[n + 3] = diag
    BY <1>1, <2>2
  <2> HIDE DEF checks
  <2> QED BY <2>2, <2>3, <2>4
<1>6. \A i \in 1 .. n : /\ perItem[i][1] <=> ItemError(list, i, cmd) # "ok"
                        /\ perItem[i][2] = ItemError(list, i, cmd)
  BY <1>1
<1>7. /\ long[1] <=> n > MaxEvidence
      /\ log[1] <=> Lacks("log")
      /\ diag[1] <=> Lacks("diagnostic")
  <2> HIDE DEF n, Lacks
  <2> QED OBVIOUS
<1>8. /\ long[2] = "too_many_evidence" /\ log[2] = "missing_log_evidence"
      /\ diag[2] = "missing_diagnostic_evidence"
  <2> HIDE DEF n, Lacks
  <2> QED OBVIOUS
<1>9. \A kind : Lacks(kind) <=> \A i \in 1 .. n : list[i].kind # kind
  BY <1>1
<1> HIDE DEF checks, perItem, T, long, log, diag, Lacks
<1>10. ListChecked(list, cmd, n, checks)
  BY <1>4, <1>5, <1>6, <1>7, <1>8, <1>9 DEF ListChecked
<1> QED BY <1>10 DEF n

\* try_new accepts a list when it is not too long, no record is refused and
\* both kinds are there.
LEMMA ListOk ==
    ASSUME NEW S, NEW list \in Seq(S), NEW cmd
    PROVE  EvidenceListError(list, cmd) = "ok" <=>
             /\ Len(list) <= MaxEvidence
             /\ \A i \in 1 .. Len(list) : ItemError(list, i, cmd) = "ok"
             /\ \A kind \in EvidenceKinds : \E i \in 1 .. Len(list) : list[i].kind = kind
<1> DEFINE n == Len(list)
<1>1. n \in Nat
  OBVIOUS
<1>2. PICK checks : ListChecked(list, cmd, n, checks)
  BY ListChecks
<1> HIDE DEF n
<1>3. \A i \in 1 .. n + 3 : \/ i = 1 \/ i = n + 2 \/ i = n + 3
                            \/ \E j \in 1 .. n : i = j + 1
  <2> TAKE i \in 1 .. n + 3
  <2>1. CASE i \in 2 .. n + 1
    <3>1. i - 1 \in 1 .. n /\ i = (i - 1) + 1
      BY <1>1, <2>1
    <3> QED BY <3>1
  <2> QED BY <1>1, <2>1
<1>4. \A i \in 1 .. n + 3 : checks[i][1] => checks[i][2] # "ok"
  BY <1>2, <1>3 DEF ListChecked
<1>5. FirstFailure(checks) = "ok" <=> \A i \in 1 .. n + 3 : ~checks[i][1]
  <2>1. n + 3 \in Nat /\ DOMAIN checks = 1 .. n + 3
    BY <1>1, <1>2 DEF ListChecked
  <2> QED BY <1>4, <2>1, FirstFailureOk
<1>6. (\A i \in 1 .. n + 3 : ~checks[i][1]) <=>
        /\ ~checks[1][1] /\ ~checks[n + 2][1] /\ ~checks[n + 3][1]
        /\ \A i \in 1 .. n : ~checks[i + 1][1]
  <2>1. /\ 1 \in 1 .. n + 3 /\ n + 2 \in 1 .. n + 3 /\ n + 3 \in 1 .. n + 3
        /\ \A i \in 1 .. n : i + 1 \in 1 .. n + 3
    BY <1>1
  <2> QED BY <1>3, <2>1
<1>7. n > MaxEvidence <=> ~(n <= MaxEvidence)
  BY <1>1, DomainAssumption
<1> QED BY <1>2, <1>5, <1>6, <1>7 DEF ListChecked, EvidenceKinds, n

\* The first fault of a list decides: its length, then its first faulty record.
\* Only a list without one can lack a kind.
LEMMA ListFault ==
    ASSUME NEW S, NEW list \in Seq(S), NEW cmd
    PROVE  LET n == Len(list)
               error == EvidenceListError(list, cmd)
           IN  /\ n > MaxEvidence => error = "too_many_evidence"
               /\ \A k \in 1 .. n :
                    /\ n <= MaxEvidence /\ ItemError(list, k, cmd) # "ok"
                    /\ \A i \in 1 .. n : i < k => ItemError(list, i, cmd) = "ok"
                    => error = ItemError(list, k, cmd)
               /\ n <= MaxEvidence /\ (\A i \in 1 .. n : ItemError(list, i, cmd) = "ok")
                    => error \in {"ok", "missing_log_evidence", "missing_diagnostic_evidence"}
<1> DEFINE n == Len(list)
           error == EvidenceListError(list, cmd)
<1>1. n \in Nat /\ n + 3 \in Nat
  OBVIOUS
<1>2. PICK checks : ListChecked(list, cmd, n, checks)
  BY ListChecks
<1> HIDE DEF n
<1>3. \A i \in 1 .. n + 3 : \/ i = 1 \/ i = n + 2 \/ i = n + 3
                            \/ \E j \in 1 .. n : i = j + 1
  <2> TAKE i \in 1 .. n + 3
  <2>1. CASE i \in 2 .. n + 1
    <3>1. i - 1 \in 1 .. n /\ i = (i - 1) + 1
      BY <1>1, <2>1
    <3> QED BY <3>1
  <2> QED BY <1>1, <2>1
<1>4. ASSUME NEW k \in 1 .. n + 3, checks[k][1], \A i \in 1 .. n + 3 : i < k => ~checks[i][1]
      PROVE  error = checks[k][2]
  <2>1. DOMAIN checks = 1 .. n + 3
    BY <1>2 DEF ListChecked
  <2> QED BY <1>1, <1>2, <1>4, <2>1, FirstFailureIs DEF ListChecked
<1>5. n > MaxEvidence => error = "too_many_evidence"
  <2>1. 1 \in 1 .. n + 3 /\ \A i \in 1 .. n + 3 : ~(i < 1)
    BY <1>1
  <2> QED BY <1>2, <1>4, <2>1 DEF ListChecked
<1>6. ASSUME NEW k \in 1 .. n, n <= MaxEvidence, ItemError(list, k, cmd) # "ok",
             \A i \in 1 .. n : i < k => ItemError(list, i, cmd) = "ok"
      PROVE  error = ItemError(list, k, cmd)
  <2>1. k + 1 \in 1 .. n + 3 /\ checks[k + 1][1]
    BY <1>1, <1>2, <1>6 DEF ListChecked
  <2>2. ~checks[1][1]
    BY <1>1, <1>2, <1>6, DomainAssumption DEF ListChecked
  <2>3. \A j \in 1 .. n : j + 1 < k + 1 => ~checks[j + 1][1]
    <3>1. \A j \in 1 .. n : j < k => ~checks[j + 1][1]
      BY <1>2, <1>6, Zenon DEF ListChecked
    <3>2. \A j \in 1 .. n : j + 1 < k + 1 => j < k
      BY <1>1
    <3> QED BY <3>1, <3>2
  <2>4. \A i \in 1 .. n + 3 : i < k + 1 => ~checks[i][1]
    BY <1>1, <1>3, <2>2, <2>3
  <2>5. error = checks[k + 1][2]
    BY <1>4, <2>1, <2>4
  <2> QED BY <1>2, <2>5 DEF ListChecked
<1>7. ASSUME n <= MaxEvidence, \A i \in 1 .. n : ItemError(list, i, cmd) = "ok"
      PROVE  error \in {"ok", "missing_log_evidence", "missing_diagnostic_evidence"}
  <2>1. ~checks[1][1] /\ \A j \in 1 .. n : ~checks[j + 1][1]
    BY <1>1, <1>2, <1>7, DomainAssumption DEF ListChecked
  <2>2. n + 2 \in 1 .. n + 3 /\ n + 3 \in 1 .. n + 3
    BY <1>1
  <2>3. CASE checks[n + 2][1]
    <3>1. \A i \in 1 .. n + 3 : i < n + 2 => ~checks[i][1]
      BY <1>1, <1>3, <2>1
    <3> QED BY <1>2, <1>4, <2>2, <2>3, <3>1 DEF ListChecked
  <2>4. CASE ~checks[n + 2][1] /\ checks[n + 3][1]
    <3>1. \A i \in 1 .. n + 3 : i < n + 3 => i = 1 \/ i = n + 2 \/ \E j \in 1 .. n : i = j + 1
      BY <1>1, <1>3
    <3>2. \A i \in 1 .. n + 3 : i < n + 3 => ~checks[i][1]
      BY <2>1, <2>4, <3>1, Zenon
    <3> QED BY <1>2, <1>4, <2>2, <2>4, <3>2 DEF ListChecked
  <2>5. CASE ~checks[n + 2][1] /\ ~checks[n + 3][1]
    <3>1. {i \in DOMAIN checks : checks[i][1]} = {}
      BY <1>2, <1>3, <2>1, <2>5 DEF ListChecked
    <3> QED BY <1>2, <3>1 DEF ListChecked, FirstFailure
  <2> QED BY <2>3, <2>4, <2>5
<1> QED BY <1>5, <1>6, <1>7 DEF n

\* A list with distinct ids is accepted exactly when the set of its records is:
\* load_plan, which reads the records back in an order of its own, repeats the
\* verdict prepare_recovery gave.
LEMMA ListAcceptedAsSet ==
    ASSUME NEW S, NEW list \in Seq(S), NEW cmd
    PROVE  EvidenceListError(list, cmd) = "ok" <=>
             /\ \A i, j \in DOMAIN list : list[i].id = list[j].id => i = j
             /\ EvidenceAccepted({list[i] : i \in DOMAIN list}, cmd)
<1> DEFINE n == Len(list)
           records == {list[i] : i \in DOMAIN list}
           Good(item) == /\ Supported(item)
                         /\ item.session = cmd.session /\ item.service = cmd.service
                         /\ item.release = cmd.expected /\ item.generation = cmd.generation
           distinct == \A i, j \in DOMAIN list : list[i].id = list[j].id => i = j
<1>1. n \in Nat /\ DOMAIN list = 1 .. n
  OBVIOUS
<1>2. /\ IsFiniteSet(records) /\ Cardinality(records) \in Nat
      /\ Cardinality(records) <= n
      /\ distinct => Cardinality(records) = n
  <2>1. list \in Surjection(1 .. n, records)
    <3>1. list \in [1 .. n -> records]
      BY <1>1
    <3>2. \A x \in records : \E i \in 1 .. n : list[i] = x
      BY <1>1
    <3> HIDE DEF n, records
    <3> QED BY <3>1, <3>2, Fun_IsSurj, Zenon
  <2>2. IsFiniteSet(1 .. n) /\ Cardinality(1 .. n) = n
    BY <1>1, FS_Interval
  <2>3. distinct => list \in Injection(1 .. n, records)
    <3>1. list \in [1 .. n -> records]
      BY <2>1 DEF Surjection
    <3>2. distinct => \A i, j \in 1 .. n : list[i] = list[j] => i = j
      BY <1>1
    <3> HIDE DEF n, records, distinct
    <3> QED BY <3>1, <3>2, Fun_IsInj, Zenon
  <2> HIDE DEF n, records, distinct
  <2>4. /\ IsFiniteSet(records) /\ Cardinality(records) <= Cardinality(1 .. n)
        /\ Cardinality(records) = Cardinality(1 .. n) <=> list \in Injection(1 .. n, records)
    BY <2>1, <2>2, FS_Surjection, Zenon
  <2>5. Cardinality(records) \in Nat
    BY <2>4, FS_CardinalityType, Zenon
  <2> QED BY <2>2, <2>3, <2>4, <2>5
<1>3. /\ \A item : FirstFailure(ItemChecks(item, FALSE, cmd)) = "ok" <=> Good(item)
      /\ \A item : FirstFailure(ItemChecks(item, TRUE, cmd)) # "ok"
  BY ItemOk, Zenon
<1>4. \A i \in 1 .. n : ItemError(list, i, cmd) = "ok" <=> Good(list[i]) /\ ~Repeated(list, i)
  <2> TAKE i \in 1 .. n
  <2>1. CASE Repeated(list, i) = TRUE
    <3>1. ItemError(list, i, cmd) = FirstFailure(ItemChecks(list[i], TRUE, cmd))
      BY <2>1, Zenon DEF ItemError
    <3> QED BY <1>3, <2>1, <3>1, Zenon
  <2>2. CASE Repeated(list, i) = FALSE
    <3>1. ItemError(list, i, cmd) = FirstFailure(ItemChecks(list[i], FALSE, cmd))
      BY <2>2, Zenon DEF ItemError
    <3> QED BY <1>3, <2>2, <3>1, Zenon
  <2>3. Repeated(list, i) \in BOOLEAN
    BY Zenon DEF Repeated
  <2> QED BY <2>1, <2>2, <2>3, Zenon
<1>5. (\A i \in 1 .. n : ~Repeated(list, i)) <=> distinct
  <2>1. ASSUME distinct, NEW i \in 1 .. n PROVE ~Repeated(list, i)
    BY <1>1, <2>1 DEF Repeated
  <2>2. ASSUME \A i \in 1 .. n : ~Repeated(list, i),
               NEW i \in 1 .. n, NEW j \in 1 .. n, list[i].id = list[j].id, i < j
        PROVE  FALSE
    <3>1. i \in 1 .. j - 1
      BY <1>1, <2>2
    <3> QED BY <2>2, <3>1 DEF Repeated
  <2>3. ASSUME \A i \in 1 .. n : ~Repeated(list, i) PROVE distinct
    <3> SUFFICES ASSUME NEW i \in 1 .. n, NEW j \in 1 .. n, list[i].id = list[j].id, i # j
                 PROVE  FALSE
      BY <1>1
    <3>1. i < j \/ j < i
      BY <1>1
    <3> QED BY <2>2, <2>3, <3>1
  <2> QED BY <2>1, <2>3
<1>6. /\ (\A i \in 1 .. n : Good(list[i])) <=> \A item \in records : Good(item)
      /\ \A kind : (\E i \in 1 .. n : list[i].kind = kind) <=> \E item \in records : item.kind = kind
  BY <1>1
<1>7. EvidenceAccepted(records, cmd) <=>
        /\ Cardinality(records) <= MaxEvidence
        /\ \A item \in records : Good(item)
        /\ \A kind \in EvidenceKinds : \E item \in records : item.kind = kind
  BY <1>3 DEF EvidenceAccepted
<1>8. EvidenceListError(list, cmd) = "ok" <=>
        /\ n <= MaxEvidence
        /\ \A i \in 1 .. n : Good(list[i]) /\ ~Repeated(list, i)
        /\ \A kind \in EvidenceKinds : \E i \in 1 .. n : list[i].kind = kind
  BY <1>4, ListOk
<1> HIDE DEF n, records, Good, distinct
<1>9. EvidenceListError(list, cmd) = "ok" <=> distinct /\ EvidenceAccepted(records, cmd)
  BY <1>1, <1>2, <1>5, <1>6, <1>7, <1>8, DomainAssumption
<1> QED BY <1>9 DEF distinct, records
=============================================================================
