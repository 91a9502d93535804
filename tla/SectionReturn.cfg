\* Two questions, answered, left and returned to.
SPECIFICATION SectionSpec
CONSTANTS
    Items = {i1, i2}
    MaxEdits = 3
    MaxBreaks = 1
    Nothing = Nothing
INVARIANT ContinueWhereYouLeft
CHECK_DEADLOCK FALSE
