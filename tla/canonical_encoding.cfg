\* The encoder stops once every field is pushed.
SPECIFICATION Spec
CONSTANTS
    Bytes = {1, 2}
    MaxField = 2
    MaxFields = 3
INVARIANTS
    EncodingIsUnambiguous
CHECK_DEADLOCK FALSE
