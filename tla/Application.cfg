SPECIFICATION Spec
CONSTANTS
    Call = {c1, c2, c3}
    Kind <- MCKind
    Given = given
INVARIANTS
    HeldIsPrefix
    NothingLost
PROPERTIES
    TerminateClosesAll
    CallsSettle
CHECK_DEADLOCK FALSE
