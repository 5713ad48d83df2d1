CONSTANTS
    g1 = g1
    p1 = p1
    p2 = p2
    Runner = Runner
    Interpreter = Interpreter
    NULL = NULL
    Program = {g1}
    Process = {p1, p2}
    ProgramOf <- OneProgramOf
    Main <- OneMain
    Links <- Unlinked
    Outcomes <- Runs
    Group = {}
    Debugged = {g1}
    SessionOps = {"interrupt", "continue"}
    Senders = {s1}
    Freezers = {}
SPECIFICATION Spec
PROPERTIES InterruptReturns
