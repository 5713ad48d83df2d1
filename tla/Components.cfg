CONSTANTS
    W = 16
    kPrimarySize = 2
    kSecondarySize = 2
    MaxStackSize = 48
    kStackGrowth = 8
    kStackSize = 24
    Program <- MCProgram
    EntryPoints <- MCEntries
    InitialHeap <- OldHeap
    InitialStacks <- MCStacks
    NativeAnswers = {"value", "null", "fail", "retry"}
    Nil = Nil
SPECIFICATION SuiteSpec
INVARIANTS
     InterpretersKeepInvariants PriorityHeapIndexed 
    SessionSound EditsApplied 
PROPERTIES
    PriorityHeapOrdered MapActsAsDictionary  CallsReachTheMethod
