CONSTANTS
    g1 = g1
    g2 = g2
    p1 = p1
    p2 = p2
    p3 = p3
    Runner = Runner
    Interpreter = Interpreter
    NULL = NULL
    Program = {g1, g2}
    Process = {p1, p2, p3}
    ProgramOf <- TwoProgramsOf
    Main <- TwoMains
    Links <- Unlinked
    Outcomes <- Stops
    Group = {g1}
    Debugged = {g2}
    SessionOps = {"continue", "end"}
    Senders = {}
    Freezers = {f1}
INIT Init
NEXT Next
INVARIANTS ProcessesKept StoppedProgramIsQuiet PausedAndNotified
PROPERTIES DocumentedTransitions
CHECK_DEADLOCK FALSE
