SPECIFICATION TxSpec
CONSTANTS
    AuthLogs = {auth_log}
    OtherLogs = {}
    PlanLifetime = 1
    SessionLifetime = 2
    MaxEvidence = 2
    Sessions = {s1, s2}
    Plans = {p1}
    Diagnostics = {d1, d2}
    MaxActiveSessions = 1
    AuditLimit = 2
    MaxDelay = 1
    MaxTime = 2
    LastArrival <- MCLastArrival
    MaxDiagnostics = 1
    Requests = {r1, r2}
    NoRequest = NoRequest
    NoDraft = NoDraft
    NoFingerprint = NoFingerprint
    NoSession = NoSession
    NoPlan = NoPlan
    RefLists <- MCRefLists
    Reasons <- MCReasons
SYMMETRY Symmetry
INVARIANTS
    StatementsKeepReferences
    SnapshotNeverAhead
    AnswersAreCommitted
    MissingMeansGone
    OneSessionPerCookie
PROPERTIES
    StoreImplemented
