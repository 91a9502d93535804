SPECIFICATION Spec
CONSTANTS
    Tests = {a1, a2}
    Sections = 2
    Clients = {c1, c2}
    CanLose = TRUE
    None = None
    a1 = a1
    a2 = a2
    c1 = c1
    c2 = c2
SYMMETRY Symmetry
INVARIANT NeverAhead
CHECK_DEADLOCK FALSE
