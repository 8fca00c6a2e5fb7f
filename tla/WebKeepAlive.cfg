SPECIFICATION Spec
CONSTANTS
    MaxSubmits = 1
    MaxClicks = 1
    Failures = FALSE
    Pauses = TRUE
INVARIANT
    ErrorMeansFailure
CHECK_DEADLOCK FALSE
