\* A writer that is killed in front of its newline, and the next writer.
SPECIFICATION Spec
CONSTANTS
    Client = {c1, c2}
    Key = {k1}
    Algorithm = {x, y}
    Tab = Tab
    Newline = Newline
INVARIANTS
    TornNotReplayed
CHECK_DEADLOCK FALSE
