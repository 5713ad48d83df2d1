CONSTANTS
    Nil = Nil
    p1 = p1
    p2 = p2
SPECIFICATION SuiteSpec
CHECK_DEADLOCK FALSE
INVARIANTS
    OldSpaceMarked OldSpaceKept NewSpaceKept FinalizersTracked 
    MessagesInOrder AllocatorSound  DevicesSound
