\* The verdict of the handshake under every fault but a throwing send.
CONSTANTS
    Callers = {c1, c2, c3}
    Faults = {"sendError", "lateError", "replyError", "disconnect"}
SPECIFICATION FairSpec
CHECK_DEADLOCK FALSE
INVARIANTS
    TypeOK
    HotPathIsOpen
    VerdictStands
PROPERTY EveryRunLeavesTheHandshake
