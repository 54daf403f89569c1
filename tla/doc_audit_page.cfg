SPECIFICATION Spec
CONSTANTS
    AuthLogs = {auth_log}
    OtherLogs = {}
    PlanLifetime = 2
    SessionLifetime = 3
    MaxEvidence = 3
    Sessions = {s1, s2}
    Plans = {p1, p2}
    Diagnostics = {d1, d2}
    MaxActiveSessions = 1
    AuditLimit = 2
    MaxDelay = 1
    MaxTime = 4
    MaxDiagnostics = 1
    NoFingerprint = NoFingerprint
    NoSession = NoSession
    NoPlan = NoPlan
    RefLists <- MCRefLists
    Reasons <- MCReasons
SYMMETRY Symmetry
INVARIANTS
    AuditPageIsNewest
