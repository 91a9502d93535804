\* The term is typed, left and paused at; then a field is typed into.
SPECIFICATION DialogSpec
CONSTANTS
    Nothing = Nothing
    Terms = {t1, t2}
    Parts = {noun, verb}
    FirstPart = noun
    Stocks = {{}}
    MaxKeys = 2
    MaxSuggests = 2
    MaxSlips = 1
PROPERTY OwnFieldsKept
CHECK_DEADLOCK FALSE
