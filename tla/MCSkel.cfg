SPECIFICATION Spec
CONSTANTS
    Supported = {31, 40, 100}
    CheckSince = 40
    Declared = {31, 40, 50, 100, 110}
    NotAString = NotAString
    NotANumber = NotANumber
INVARIANTS
    CalledOnlyIfValid
    ErrorIsReason
CHECK_DEADLOCK FALSE
