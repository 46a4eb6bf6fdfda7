CONSTANTS
    a = a
    b = b
    p = p
    q = q
    Reports <- MCReports
    Nested = {q}
    MaxClicks = 3
SPECIFICATION Spec
CHECK_DEADLOCK FALSE
INVARIANTS
    FindingsOfTheirRun
