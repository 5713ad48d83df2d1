SPECIFICATION Spec
CONSTANTS
    W = 16
    kPrimarySize = 2
    kSecondarySize = 2
    MaxStackSize = 48
    kStackGrowth = 8
    kStackSize = 24
    Program <- MCProgram
    EntryPoints <- TestEntries
    InitialHeap <- OldHeap
    InitialStacks <- MCStacks
    NativeAnswers = {"value", "null", "fail", "retry"}
PROPERTIES TestUnfoldFindsMethods
