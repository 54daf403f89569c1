SPECIFICATION Spec
CONSTANTS
    MaxPlans = 2
    MaxSessions = 2
    MaxCalls = 2
    Registrations = {r1, r2}
    NoRegistration = NoRegistration
    NoBinding = 0
INVARIANTS
    TypeOK
    NoOrphanedTool
    OfferIsShown
    OfferWasApproved
    OfferHasTimer
PROPERTIES
    ForgottenForGood
    OfferImplemented
    AuthorityImplemented
