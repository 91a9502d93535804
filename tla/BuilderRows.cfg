\* Four rows; the one that is rewritten moves up when an earlier one is removed.
SPECIFICATION BuilderSpec
CONSTANTS
    MaxVersions = 1
    MaxRows = 4
    MaxTouches = 2
    MaxCalls = 1
    MaxMishaps = 1
    Nothing = Nothing
INVARIANT OnlyTheRowAsked
CHECK_DEADLOCK FALSE
