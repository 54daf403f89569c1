SPECIFICATION Spec
CONSTANTS
    AuthLogs = {auth_log}
    OtherLogs = {}
    PlanLifetime = 1
    SessionLifetime = 2
    MaxEvidence = 3
    Sessions = {s1, s2, s3}
    Plans = {p1, p2}
    Diagnostics = {d1, d2}
    MaxActiveSessions = 2
    AuditLimit = 2
    MaxDelay = 1
    MaxTime = 2
    MaxDiagnostics = 1
    NoFingerprint = NoFingerprint
    NoSession = NoSession
    NoPlan = NoPlan
    RefLists <- MCRefLists
    Reasons <- MCReasons
SYMMETRY Symmetry
INVARIANTS
    PlansReload
    RevokedHasNoAuthority
    SessionCeiling
PROPERTIES
    SessionsIsolated
