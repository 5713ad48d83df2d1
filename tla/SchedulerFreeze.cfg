CONSTANTS
    g1 = g1
    p1 = p1
    p2 = p2
    Runner = Runner
    Interpreter = Interpreter
    NULL = NULL
    Program = {g1}
    Process = {p1, p2}
    ProgramOf <- OneProgramOf
    Main <- OneMain
    Links <- Unlinked
    Outcomes <- Spawns
    Group = {g1}
    Debugged = {}
    SessionOps = {}
    Senders = {s1}
    Freezers = {f1}
SPECIFICATION Spec
INVARIANTS NoLostWakeup
PROPERTIES FreezeReturns
