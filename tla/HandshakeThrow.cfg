\* The verdict when process.send throws in the first attempt.
CONSTANTS
    Callers = {c1, c2, c3}
    Faults = {"sendThrow"}
SPECIFICATION Spec
CHECK_DEADLOCK FALSE
INVARIANT VerdictStands
