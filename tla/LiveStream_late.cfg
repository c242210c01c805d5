SPECIFICATION Spec
CONSTANTS
    r1 = r1
    r2 = r2
    Rows = {r1, r2}
    Span = 1
    Limit = 2
    MaxTime = 5
INVARIANT NewRowsArePushed
CHECK_DEADLOCK FALSE
