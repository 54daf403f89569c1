\* The list stops growing once it is longer than MaxEvidence.
SPECIFICATION Spec
CONSTANTS
    AuthLogs = {1, 2}
    OtherLogs = {}
    PlanLifetime = 1
    MaxEvidence = 3
    NoFingerprint = NoFingerprint
    NoSession = NoSession
    NoPlan = NoPlan
    Ids = {1, 2, 3}
    Command <- MCCommand
    Item <- MCItem
INVARIANTS
    AcceptedAsSet
    OrderDecidesNothing
PROPERTIES
    FirstFaultIsReported
CHECK_DEADLOCK FALSE
