CONSTANTS
    g1 = g1
    p1 = p1
    p2 = p2
    Runner = Runner
    Interpreter = Interpreter
    NULL = NULL
    Program = {g1}
    Process = {p1, p2}
    ProgramOf <- OneProgramOf
    Main <- OneMain
    Links <- Linked
    Outcomes <- Lives
    Group = {}
    Debugged = {}
    SessionOps = {}
    Senders = {s1}
    Freezers = {}
SPECIFICATION Spec
INVARIANTS ReadyList EnqueuingOwned RunningOwned NoLostWakeup DoneMeansDead
PROPERTIES ReadyRuns SleeperRuns SignalledDies ShutdownCompletes
